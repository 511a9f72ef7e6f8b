------------------------------ MODULE NoiseStream ------------------------------
(***************************************************************************)
(* One direction of the encrypted stream of src/src/noise.rs, after its    *)
(* handshake: a caller writes bytes into a NoiseStream, which puts frames  *)
(* (length header, ciphertext, tag) on a TCP connection piece by piece;    *)
(* the NoiseStream at the other end takes them off piece by piece.         *)
(*                                                                         *)
(* Bytes are numbered, not valued: the caller's bytes 1, 2, ... and the    *)
(* positions 0, 1, ... of the wire.  What a piece of the wire contains is  *)
(* known from the frames that were put on it.  A step is one poll of the   *)
(* inner stream, or what the code does between two of them.                *)
(***************************************************************************)
EXTENDS Integers, Sequences

CONSTANTS
    MaxInput,          \* bound: bytes the caller has to send
    MaxBuffer,         \* bound: the largest buffer passed to a poll
    PipeSize,          \* bytes the connection holds in flight
    HeaderSize,        \* the length field, 4 in the code
    TagSize,           \* NOISE_TAG_SIZE
    MaxPlaintextChunk  \* MAX_PLAINTEXT_CHUNK

ASSUME SizesAssumption ==
    /\ MaxInput \in Nat
    /\ \A n \in {MaxBuffer, PipeSize, HeaderSize, TagSize, MaxPlaintextChunk} :
           n \in Nat \ {0}

VARIABLES
    call,     \* the caller's call in progress: "none", "write", "shutdown", "over"
    buffer,   \* the length of the buffer it passed to poll_write
    accepted, \* bytes that poll_write has reported written
    frames,   \* every frame encrypted so far: where it starts on the wire,
              \* the number of caller bytes before it, and how many are in it
    pending,  \* pending_write is Some; it holds the last of frames
    offset,   \* its offset
    sent,     \* bytes put on the connection
    link,     \* the connection as the writer leaves it: "open", "fin", "reset"
    taken,    \* bytes taken off the connection
    read_header_filled,
    read_body,         \* read_body.len(), 0 between frames
    read_body_filled,
    decrypted,         \* frames decrypted: the receiving nonce
    plain_first,       \* caller bytes before the rest of plaintext
    plain_left,        \* bytes of plaintext not delivered yet
    received,          \* the bytes the reader was given, in order
    reader             \* "open", "eof", "error"

writerVars == <<call, buffer, accepted, frames, pending, offset, sent, link>>
readerVars == <<taken, read_header_filled, read_body, read_body_filled,
                decrypted, plain_first, plain_left, received, reader>>
vars == <<writerVars, readerVars>>

Least(a, b) == IF a <= b THEN a ELSE b

WireSize(f) == HeaderSize + f.size + TagSize
MaxCiphertextFrame == MaxPlaintextChunk + TagSize

\* The wire, and the caller's bytes, up to the end of frame k.
WireEnd(k)  == IF k = 0 THEN 0 ELSE frames[k].start + WireSize(frames[k])
PlainEnd(k) == IF k = 0 THEN 0 ELSE frames[k].first + frames[k].size
Last        == frames[Len(frames)]

\* The caller's bytes n + 1 .. n + k.
Bytes(n, k) == [i \in 1..k |-> n + i]

Init ==
    /\ call = "none" /\ buffer = 0 /\ accepted = 0
    /\ frames = <<>> /\ pending = FALSE /\ offset = 0
    /\ sent = 0 /\ link = "open" /\ taken = 0
    /\ read_header_filled = 0 /\ read_body = 0 /\ read_body_filled = 0
    /\ decrypted = 0 /\ plain_first = 0 /\ plain_left = 0
    /\ received = <<>> /\ reader = "open"

-----------------------------------------------------------------------------
(* Writing.                                                                *)

\* poll_write with nothing pending: a chunk of the buffer is encrypted.
PollWrite(n) ==
    /\ call = "none"
    /\ accepted + n <= MaxInput
    /\ call' = "write"
    /\ buffer' = n
    /\ frames' = Append(frames, [start |-> sent, first |-> accepted,
                                 size |-> Least(n, MaxPlaintextChunk)])
    /\ pending' = TRUE
    /\ offset' = 0
    /\ UNCHANGED <<accepted, sent, link, readerVars>>

\* Pending was returned, and the caller polls again.  What its buffer held is
\* still at the front; a copy loop may have read more behind it meanwhile.
PollWriteAgain(n) ==
    /\ call = "write"
    /\ n > buffer
    /\ accepted + n <= MaxInput
    /\ buffer' = n
    /\ UNCHANGED <<call, accepted, frames, pending, offset, sent, link, readerVars>>

\* poll_pending_write: the inner stream takes k bytes of the pending frame.
WriteInner(k) ==
    /\ pending
    /\ call \in {"write", "shutdown"}
    /\ link = "open"
    /\ offset + k <= WireSize(Last)
    /\ sent + k - taken <= PipeSize
    /\ offset' = offset + k
    /\ sent' = sent + k
    /\ UNCHANGED <<call, buffer, accepted, frames, pending, link, readerVars>>

\* Faulty: the length of the caller's buffer is reported.
FinishWriteOfBuffer ==
    /\ pending
    /\ offset = WireSize(Last)
    /\ call = "write"
    /\ pending' = FALSE
    /\ accepted' = accepted + buffer
    /\ call' = "none"
    /\ buffer' = 0
    /\ UNCHANGED <<frames, offset, sent, link, readerVars>>

\* The frame is out: poll_write reports the bytes in it, whatever buffer it
\* was polled with last.
FinishWrite ==
    /\ pending
    /\ offset = WireSize(Last)
    /\ call = "write"
    /\ pending' = FALSE
    /\ accepted' = accepted + Last.size
    /\ call' = "none"
    /\ buffer' = 0
    /\ UNCHANGED <<frames, offset, sent, link, readerVars>>

\* poll_shutdown, also after a write that was given up while Pending (the
\* copy loop of bridge.rs when its input fails).
PollShutdown ==
    /\ call \in {"none", "write"}
    /\ call' = "shutdown"
    /\ buffer' = 0
    /\ UNCHANGED <<accepted, frames, pending, offset, sent, link, readerVars>>

\* Faulty: the pending frame is forgotten.
ShutdownInnerAtOnce ==
    /\ call = "shutdown"
    /\ pending' = FALSE
    /\ link' = "fin"
    /\ call' = "over"
    /\ UNCHANGED <<buffer, accepted, frames, offset, sent, readerVars>>

\* The pending frame is finished, its count dropped, and the inner stream
\* shut down.
ShutdownInner ==
    /\ call = "shutdown"
    /\ pending => offset = WireSize(Last)
    /\ pending' = FALSE
    /\ link' = "fin"
    /\ call' = "over"
    /\ UNCHANGED <<buffer, accepted, frames, offset, sent, readerVars>>

\* The stream is dropped: a deadline passed, a task was aborted or a poll
\* failed.  The connection closes, with or without a reset.
DropStream ==
    /\ call # "over"
    /\ call' = "over"
    /\ link' \in {"fin", "reset"}
    /\ UNCHANGED <<buffer, accepted, frames, pending, offset, sent, readerVars>>

-----------------------------------------------------------------------------
(* Reading: the loop of poll_read.                                         *)

Reading == reader = "open" /\ plain_left = 0

\* Faulty: the pieces of a header are not added up.
ReadHeaderAfresh(j) ==
    /\ Reading
    /\ read_header_filled + j <= HeaderSize
    /\ taken + j <= sent
    /\ read_header_filled' = j
    /\ taken' = taken + j
    /\ UNCHANGED <<writerVars, read_body, read_body_filled, decrypted,
                   plain_first, plain_left, received, reader>>

ReadHeader(j) ==
    /\ Reading
    /\ read_header_filled + j <= HeaderSize
    /\ taken + j <= sent
    /\ read_header_filled' = read_header_filled + j
    /\ taken' = taken + j
    /\ UNCHANGED <<writerVars, read_body, read_body_filled, decrypted,
                   plain_first, plain_left, received, reader>>

\* Wire position p is where the frame after the decrypted ones starts.
AtNextFrame(p) == decrypted < Len(frames) /\ frames[decrypted + 1].start = p

\* What a complete header says: the next frame's length, or anything.
HeaderLengths ==
    IF AtNextFrame(taken - HeaderSize)
    THEN {frames[decrypted + 1].size + TagSize}
    ELSE 0 .. MaxCiphertextFrame + 1

\* read_body is empty and the header is complete: its length is checked.
ReadLength ==
    /\ Reading
    /\ read_header_filled = HeaderSize
    /\ read_body = 0
    /\ \E length \in HeaderLengths :
          LET valid == length # 0 /\ length <= MaxCiphertextFrame IN
          /\ read_body' = IF valid THEN length ELSE 0
          /\ reader' = IF valid THEN "open" ELSE "error"
    /\ UNCHANGED <<writerVars, taken, read_header_filled, read_body_filled,
                   decrypted, plain_first, plain_left, received>>

ReadBody(j) ==
    /\ Reading
    /\ read_body > 0
    /\ read_body_filled + j <= read_body
    /\ taken + j <= sent
    /\ read_body_filled' = read_body_filled + j
    /\ taken' = taken + j
    /\ UNCHANGED <<writerVars, read_header_filled, read_body, decrypted,
                   plain_first, plain_left, received, reader>>

\* The body is complete.  read_message yields the plaintext if the body is
\* exactly the ciphertext that is next in order, and fails otherwise.
Decrypt ==
    LET genuine == /\ AtNextFrame(taken - read_body - HeaderSize)
                   /\ read_body = frames[decrypted + 1].size + TagSize
    IN
    /\ Reading
    /\ read_body > 0
    /\ read_body_filled = read_body
    /\ read_header_filled' = 0
    /\ read_body' = 0
    /\ read_body_filled' = 0
    /\ decrypted' = IF genuine THEN decrypted + 1 ELSE decrypted
    /\ plain_first' = IF genuine THEN frames[decrypted + 1].first ELSE plain_first
    /\ plain_left' = IF genuine THEN frames[decrypted + 1].size ELSE 0
    /\ reader' = IF genuine THEN "open" ELSE "error"
    /\ UNCHANGED <<writerVars, taken, received>>

\* poll_read copies plaintext to a caller whose buffer has room for n bytes.
Deliver(n) ==
    /\ reader = "open"
    /\ plain_left > 0
    /\ LET count == Least(plain_left, n) IN
       /\ received' = received \o Bytes(plain_first, count)
       /\ plain_first' = plain_first + count
       /\ plain_left' = plain_left - count
    /\ UNCHANGED <<writerVars, taken, read_header_filled, read_body,
                   read_body_filled, decrypted, reader>>

\* Faulty: every end of the connection is a clean one.
EndOfStreamAnywhere ==
    /\ Reading
    /\ link = "fin"
    /\ taken = sent
    /\ read_header_filled = HeaderSize => read_body > read_body_filled
    /\ reader' = "eof"
    /\ UNCHANGED <<writerVars, taken, read_header_filled, read_body,
                   read_body_filled, decrypted, plain_first, plain_left, received>>

\* The inner stream ends: clean between frames, UnexpectedEof inside one.
EndOfStream ==
    /\ Reading
    /\ link = "fin"
    /\ taken = sent
    /\ read_header_filled = HeaderSize => read_body > read_body_filled
    /\ reader' = IF read_header_filled = 0 THEN "eof" ELSE "error"
    /\ UNCHANGED <<writerVars, taken, read_header_filled, read_body,
                   read_body_filled, decrypted, plain_first, plain_left, received>>

\* A reset reaches the reader, perhaps before what was in flight.
ReadFails ==
    /\ Reading
    /\ link = "reset"
    /\ reader' = "error"
    /\ UNCHANGED <<writerVars, taken, read_header_filled, read_body,
                   read_body_filled, decrypted, plain_first, plain_left, received>>

-----------------------------------------------------------------------------
WriterStep ==
    \/ \E n \in 1..MaxBuffer : PollWrite(n) \/ PollWriteAgain(n)
    \/ \E k \in 1..PipeSize : WriteInner(k)
    \/ FinishWrite \/ PollShutdown \/ ShutdownInner \/ DropStream

ReaderStep ==
    \/ \E j \in 1..HeaderSize : ReadHeader(j)
    \/ ReadLength
    \/ \E j \in 1..MaxCiphertextFrame : ReadBody(j)
    \/ Decrypt
    \/ \E n \in 1..MaxBuffer : Deliver(n)
    \/ EndOfStream \/ ReadFails

\* Both sides have finished.
Quiet == call = "over" /\ reader # "open" /\ UNCHANGED vars

Next == WriterStep \/ ReaderStep \/ Quiet

Spec == Init /\ [][Next]_vars

\* The reading side keeps polling, and the calls of the writing side are
\* polled again when the connection has room (its waker; read_to_end and the
\* copy loops have no other wait).  Nobody is obliged to write or to end.
FairSpec ==
    /\ Spec
    /\ WF_vars(ReaderStep)
    /\ WF_vars((\E k \in 1..PipeSize : WriteInner(k)) \/ FinishWrite \/ ShutdownInner)

-----------------------------------------------------------------------------
TypeOK ==
    /\ call \in {"none", "write", "shutdown", "over"}
    /\ buffer \in 0..MaxBuffer
    /\ accepted \in Nat
    /\ frames \in Seq([start : Nat, first : Nat, size : 1..MaxPlaintextChunk])
    /\ pending \in BOOLEAN
    /\ offset \in Nat
    /\ sent \in Nat
    /\ link \in {"open", "fin", "reset"}
    /\ taken \in Nat
    /\ read_header_filled \in 0..HeaderSize
    /\ read_body \in 0..MaxCiphertextFrame
    /\ read_body_filled \in Nat
    /\ decrypted \in Nat
    /\ plain_first \in Nat
    /\ plain_left \in 0..MaxPlaintextChunk
    /\ received \in Seq(Nat)
    /\ reader \in {"open", "eof", "error"}

\* The reader is given the caller's bytes: each one once, in order, none
\* skipped, in whatever pieces frames and polls were cut (poll_write 370-413,
\* poll_read 256-363).
ReceivedInOrder == received = Bytes(0, Len(received))

\* The pending frame is on the wire in part.
Truncated == pending /\ offset \in 1 .. WireSize(Last) - 1

\* A clean end is the end of what was written.  The reader then has every byte
\* reported to the writing caller, and beyond that at most the one frame whose
\* count was never reported, because its write was given up; a stream that
\* was cut inside a frame never looks finished (poll_read, poll_shutdown).
EndIsComplete ==
    reader = "eof" =>
        /\ ~Truncated
        /\ Len(received) \in {accepted, PlainEnd(Len(frames))}
        /\ accepted <= Len(received)

\* Fragmentation alone never breaks the stream: the reader sees an error only
\* if the connection was reset, or closed inside a frame (the state kept
\* across Pending, 280-343).
ErrorsMeanTruncation == reader = "error" => link = "reset" \/ (link = "fin" /\ Truncated)

-----------------------------------------------------------------------------
\* What was reported written arrives, unless the connection is reset: frames
\* do not wait in the sender for a later write or a flush.
AcceptedArrives ==
    \A n \in 1..MaxInput : accepted >= n ~> Len(received) >= n \/ link = "reset"
=============================================================================
