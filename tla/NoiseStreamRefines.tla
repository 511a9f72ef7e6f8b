-------------------------- MODULE NoiseStreamRefines --------------------------
(***************************************************************************)
(* NoiseStream implements ByteStream.  A byte is in the abstract pipe once *)
(* the last piece of its frame is on the connection.                       *)
(***************************************************************************)
EXTENDS NoiseStream

\* The frames that are complete on the wire.
whole == IF pending /\ offset < WireSize(Last) THEN Len(frames) - 1 ELSE Len(frames)

writtenBar == PlainEnd(whole)
writerBar == IF link = "open" THEN "open" ELSE "closed"

Pipe == INSTANCE ByteStream WITH written <- writtenBar, writer <- writerBar

\* The two ends of a NoiseStream have a byte pipe between them: bytes in
\* order, no end before the last of them, no error while the writer has
\* neither closed nor lost the connection (the AsyncRead and AsyncWrite
\* contracts that bridge.rs and protocol.rs build on).
PipeKept == Pipe!Spec
=============================================================================
