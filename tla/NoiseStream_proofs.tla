-------------------------- MODULE NoiseStream_proofs --------------------------
(***************************************************************************)
(* Theorems about NoiseStream, for every amount of input, every size of    *)
(* buffers, frames and connection, and that it implements ByteStream.      *)
(***************************************************************************)
EXTENDS NoiseStreamRefines, SequenceTheorems, TLAPS

-----------------------------------------------------------------------------
(* The inductive invariant.                                                *)

\* Frames lie one after another, on the wire and in the caller's bytes.
FramesInLine ==
    \A k \in 1..Len(frames) :
        /\ frames[k].start = WireEnd(k - 1)
        /\ frames[k].first = PlainEnd(k - 1)
        /\ \A j \in 1..k - 1 :
              WireEnd(j) <= frames[k].start /\ PlainEnd(j) <= frames[k].first

\* The writer is at the end of the last frame, or inside it.
WriterInPlace ==
    /\ pending => /\ frames # <<>>
                  /\ offset <= WireSize(Last)
                  /\ sent = Last.start + offset
                  /\ accepted = Last.first
    /\ ~pending => sent = WireEnd(Len(frames))
    /\ accepted = PlainEnd(Len(frames)) \/ (frames # <<>> /\ accepted = Last.first)
    /\ call = "none" => ~pending /\ accepted = PlainEnd(Len(frames))
    /\ call = "write" => pending
    /\ call = "over" <=> link # "open"

\* The reader is at the end of the frames it decrypted, or inside the next.
ReaderInPlace ==
    /\ decrypted <= Len(frames)
    /\ taken <= sent
    /\ taken = WireEnd(decrypted) + read_header_filled + read_body_filled
    /\ read_body = 0 => read_body_filled = 0
    /\ read_body > 0 => /\ decrypted < Len(frames)
                        /\ read_body = frames[decrypted + 1].size + TagSize
                        /\ read_header_filled = HeaderSize
                        /\ read_body_filled <= read_body
    /\ plain_left > 0 => plain_first = Len(received) /\ read_header_filled = 0
    /\ Len(received) + plain_left = PlainEnd(decrypted)
    /\ reader # "open" => call = "over"
    /\ reader = "eof" => taken = sent /\ read_header_filled = 0 /\ plain_left = 0

IInv ==
    /\ TypeOK /\ FramesInLine /\ WriterInPlace /\ ReaderInPlace
    /\ ReceivedInOrder /\ ErrorsMeanTruncation

-----------------------------------------------------------------------------
\* Every size is a positive number.
LEMMA Sizes ==
    /\ MaxInput \in Nat /\ MaxBuffer \in Nat \ {0} /\ PipeSize \in Nat \ {0}
    /\ HeaderSize \in Nat \ {0} /\ TagSize \in Nat \ {0}
    /\ MaxPlaintextChunk \in Nat \ {0}
BY SizesAssumption

Frame == [start : Nat, first : Nat, size : 1..MaxPlaintextChunk]

-----------------------------------------------------------------------------
(* Sequences of bytes.                                                     *)

\* A run of bytes is a sequence, of its own length.
LEMMA RunIsSeq ==
    ASSUME NEW n \in Nat, NEW k \in Nat
    PROVE  Bytes(n, k) \in Seq(Nat) /\ Len(Bytes(n, k)) = k
<1>1. \A i \in 1..k : n + i \in Nat
  OBVIOUS
<1> QED
  BY <1>1, IsASeq, LenProperties DEF Bytes

\* Consecutive runs of bytes make one run.
LEMMA RunsJoin ==
    ASSUME NEW n \in Nat, NEW k \in Nat
    PROVE  Bytes(0, n) \o Bytes(n, k) = Bytes(0, n + k)
<1> DEFINE p == Bytes(0, n)
           q == Bytes(n, k)
           r == Bytes(0, n + k)
<1>1. /\ p \in Seq(Nat) /\ Len(p) = n
      /\ q \in Seq(Nat) /\ Len(q) = k
      /\ r \in Seq(Nat) /\ Len(r) = n + k
  BY RunIsSeq
<1>2. /\ \A i \in 1..n : p[i] = i
      /\ \A i \in 1..k : q[i] = n + i
      /\ \A i \in 1..n + k : r[i] = i
  BY DEF Bytes
<1> HIDE DEF p, q, r
<1>3. /\ p \o q \in Seq(Nat)
      /\ Len(p \o q) = n + k
      /\ \A i \in 1 .. n + k : (p \o q)[i] = IF i <= n THEN p[i] ELSE q[i - n]
  BY <1>1, ConcatProperties
<1>4. \A i \in 1 .. n + k : (p \o q)[i] = r[i]
  BY <1>2, <1>3, SMTT(30)
<1>5. p \o q = r
  BY <1>1, <1>3, <1>4, SeqEqual
<1> QED
  BY <1>5 DEF p, q, r

-----------------------------------------------------------------------------
(* Frames.                                                                 *)

\* The ends of frames are numbers, and each frame takes up room.
LEMMA EndsAreNats ==
    ASSUME TypeOK, NEW k \in 0..Len(frames)
    PROVE  /\ WireEnd(k) \in Nat /\ PlainEnd(k) \in Nat
           /\ k > 0 => /\ frames[k] \in Frame
                       /\ WireEnd(k) = frames[k].start + WireSize(frames[k])
                       /\ PlainEnd(k) = frames[k].first + frames[k].size
                       /\ WireSize(frames[k]) \in Nat \ {0}
<1>1. CASE k = 0
  BY <1>1 DEF WireEnd, PlainEnd
<1>2. CASE k > 0
  <2>1. frames \in Seq(Frame) /\ k \in 1..Len(frames)
    BY <1>2 DEF TypeOK, Frame
  <2>2. frames[k] \in Frame
    BY <2>1, ElementOfSeq
  <2> QED
    BY <1>2, <2>2, Sizes DEF WireEnd, PlainEnd, WireSize, Frame
<1> QED
  BY <1>1, <1>2

\* The frame after frame k starts where k ends, and its end is no further
\* than the end of the last.
LEMMA NextFrame ==
    ASSUME TypeOK, FramesInLine, NEW k \in 0 .. Len(frames), k < Len(frames)
    PROVE  /\ frames[k + 1] \in Frame
           /\ frames[k + 1].start = WireEnd(k)
           /\ frames[k + 1].first = PlainEnd(k)
           /\ WireEnd(k + 1) = WireEnd(k) + HeaderSize + frames[k + 1].size + TagSize
           /\ PlainEnd(k + 1) = PlainEnd(k) + frames[k + 1].size
           /\ WireEnd(k) <= WireEnd(Len(frames) - 1)
           /\ PlainEnd(k) <= PlainEnd(Len(frames) - 1)
           /\ WireEnd(k + 1) <= WireEnd(Len(frames))
           /\ PlainEnd(k + 1) <= PlainEnd(Len(frames))
<1> DEFINE n == Len(frames)
<1>1. n \in Nat /\ k + 1 \in 1..n
  BY LenProperties DEF TypeOK
<1>2. frames[k + 1].start = WireEnd(k) /\ frames[k + 1].first = PlainEnd(k)
  BY <1>1 DEF FramesInLine
<1>3. frames[k + 1] \in Frame /\ frames[n] \in Frame
  BY <1>1, EndsAreNats
<1>4. /\ WireEnd(k + 1) = WireEnd(k) + HeaderSize + frames[k + 1].size + TagSize
      /\ PlainEnd(k + 1) = PlainEnd(k) + frames[k + 1].size
  BY <1>1, <1>2, <1>3, Sizes, SMTT(30) DEF WireSize, Frame, WireEnd, PlainEnd
<1>5. WireEnd(k) \in Nat /\ PlainEnd(k) \in Nat /\ WireEnd(k + 1) \in Nat /\ PlainEnd(k + 1) \in Nat
  BY <1>1, EndsAreNats
<1>6. CASE k + 1 = n
  BY <1>1, <1>2, <1>3, <1>4, <1>5, <1>6, Sizes
<1>7. CASE k + 1 < n
  <2>1. WireEnd(k + 1) <= frames[n].start /\ PlainEnd(k + 1) <= frames[n].first
    BY <1>1, <1>7 DEF FramesInLine
  <2>2. frames[n].start = WireEnd(n - 1) /\ frames[n].first = PlainEnd(n - 1)
    BY <1>1, <1>7 DEF FramesInLine
  <2>3. /\ WireEnd(n) = frames[n].start + WireSize(frames[n])
        /\ PlainEnd(n) = frames[n].first + frames[n].size
        /\ WireSize(frames[n]) \in Nat
    BY <1>1, <1>7, EndsAreNats
  <2> QED
    <3>1. frames[n].size \in Nat /\ frames[n].start \in Nat /\ frames[n].first \in Nat
      BY <1>3 DEF Frame
    <3>2. /\ WireEnd(k) <= WireEnd(k + 1)
          /\ PlainEnd(k) <= PlainEnd(k + 1)
      <4>1. frames[k + 1].size \in Nat
        BY <1>3, Sizes DEF Frame
      <4> QED
        BY <1>4, <1>5, <4>1, Sizes, SMTT(30)
    <3>3. /\ WireEnd(k + 1) <= WireEnd(n - 1) /\ WireEnd(n - 1) <= WireEnd(n)
          /\ PlainEnd(k + 1) <= PlainEnd(n - 1) /\ PlainEnd(n - 1) <= PlainEnd(n)
      BY <2>1, <2>2, <2>3, <3>1
    <3>4. /\ WireEnd(n) \in Nat /\ WireEnd(n - 1) \in Nat
          /\ PlainEnd(n) \in Nat /\ PlainEnd(n - 1) \in Nat
      BY <2>2, <2>3, <3>1
    <3> QED
      BY <1>2, <1>3, <1>4, <1>5, <3>2, <3>3, <3>4, SMTT(30)
<1> QED
  BY <1>1, <1>6, <1>7

\* Ends of frames are in order.
LEMMA EndsOrdered ==
    ASSUME TypeOK, FramesInLine, NEW k \in 0..Len(frames), NEW j \in 0..Len(frames), j < k
    PROVE  WireEnd(j) < WireEnd(k) /\ PlainEnd(j) < PlainEnd(k)
<1>1. /\ frames[k] \in Frame
      /\ WireEnd(k) = frames[k].start + WireSize(frames[k])
      /\ PlainEnd(k) = frames[k].first + frames[k].size
      /\ WireSize(frames[k]) \in Nat \ {0}
  BY EndsAreNats
<1>2. WireEnd(j) \in Nat /\ PlainEnd(j) \in Nat
  BY EndsAreNats
<1>3. WireEnd(j) <= frames[k].start /\ PlainEnd(j) <= frames[k].first
  <2>1. CASE j = 0
    BY <1>1, <2>1 DEF WireEnd, PlainEnd, Frame
  <2>2. CASE j > 0
    BY <2>2 DEF FramesInLine
  <2> QED
    BY <2>1, <2>2
<1> QED
  BY <1>1, <1>2, <1>3, Sizes DEF Frame

\* A reader that has taken everything and stands inside a frame has a writer
\* that stopped inside that frame; between frames it has read every whole one.
LEMMA ReaderAtEnd ==
    ASSUME TypeOK, FramesInLine, WriterInPlace, ReaderInPlace, taken = sent,
           read_header_filled = HeaderSize => read_body > read_body_filled
    PROVE  /\ read_header_filled # 0 => Truncated
           /\ read_header_filled = 0 => ~Truncated /\ decrypted = whole
<1> DEFINE n == Len(frames)
<1>1. n \in Nat /\ decrypted \in 0..n
  BY LenProperties DEF TypeOK, ReaderInPlace
<1>2. WireEnd(n) \in Nat /\ WireEnd(decrypted) \in Nat
  BY <1>1, EndsAreNats
<1>3. n > 0 => /\ WireEnd(n) = Last.start + WireSize(Last)
               /\ Last.start = WireEnd(n - 1)
               /\ WireSize(Last) \in Nat \ {0}
               /\ WireEnd(n - 1) \in Nat
  BY <1>1, EndsAreNats DEF Last, FramesInLine
<1>4. n = 0 => WireEnd(n) = 0
  BY DEF WireEnd
<1>5. decrypted < n => WireEnd(decrypted) <= WireEnd(n - 1)
  BY <1>1, NextFrame
<1>6. ASSUME decrypted < n, decrypted # n - 1
      PROVE  WireEnd(decrypted + 1) <= WireEnd(n - 1)
  BY <1>1, <1>6, NextFrame
<1>7. decrypted < n =>
        WireEnd(decrypted + 1) = WireEnd(decrypted) + HeaderSize + frames[decrypted + 1].size + TagSize
  BY <1>1, NextFrame
<1>8. pending => n > 0
  BY <1>1 DEF WriterInPlace, TypeOK
<1>9. decrypted < n => frames[decrypted + 1].size \in Nat \ {0}
  BY <1>1, NextFrame DEF Frame
<1>10. /\ taken = WireEnd(decrypted) + read_header_filled + read_body_filled
       /\ read_header_filled \in 0..HeaderSize /\ read_body_filled \in Nat
       /\ read_body = 0 => read_body_filled = 0
       /\ read_body > 0 => /\ decrypted < n
                           /\ read_header_filled = HeaderSize
                           /\ read_body = frames[decrypted + 1].size + TagSize
       /\ read_body \in Nat /\ offset \in Nat /\ sent \in Nat
  BY Sizes DEF TypeOK, ReaderInPlace
\* Where the writer stands, if it is between frames.
<1>11. ASSUME ~Truncated
       PROVE  /\ sent = WireEnd(whole)
              /\ whole \in 0..n
  <2>1. CASE ~pending
    BY <1>1, <2>1 DEF whole, WriterInPlace
  <2>2. CASE pending /\ offset = 0
    BY <1>1, <1>3, <1>8, <2>2 DEF whole, WriterInPlace
  <2>3. CASE pending /\ offset = WireSize(Last)
    BY <1>1, <1>3, <1>8, <2>3 DEF whole, WriterInPlace
  <2> QED
    BY <1>3, <1>8, <1>10, <1>11, <2>1, <2>2, <2>3 DEF Truncated, WriterInPlace
<1>12. ASSUME NEW k \in 0..n, k > decrypted
       PROVE  WireEnd(k) > taken
  <2>4. decrypted + 1 \in 0..n /\ decrypted < n
    BY <1>1, <1>12
  <2>5. WireEnd(decrypted + 1) \in Nat /\ WireEnd(k) \in Nat
    BY <2>4, EndsAreNats
  <2>1. WireEnd(decrypted + 1) <= WireEnd(k)
    <3>1. CASE k = decrypted + 1
      BY <2>5, <3>1
    <3>2. CASE k > decrypted + 1
      <4>1. WireEnd(decrypted + 1) < WireEnd(k)
        BY <2>4, <3>2, EndsOrdered
      <4> QED
        BY <2>5, <4>1
    <3> QED
      BY <1>1, <1>12, <3>1, <3>2
  <2>6. taken < WireEnd(decrypted + 1)
    <3>1. CASE read_body = 0
      <4>1. read_header_filled < HeaderSize
        BY <1>10, <3>1, Sizes
      <4> QED
        BY <1>2, <1>7, <1>9, <1>10, <2>4, <3>1, <4>1, Sizes, SMTT(30)
    <3>2. CASE read_body > 0
      BY <1>2, <1>7, <1>9, <1>10, <2>4, <3>2, Sizes, SMTT(30)
    <3> QED
      BY <1>10, <3>1, <3>2
  <2>7. taken \in Nat
    BY DEF TypeOK
  <2> QED
    BY <2>1, <2>5, <2>6, <2>7
<1>13. ASSUME NEW k \in 0..n, k < decrypted
       PROVE  WireEnd(k) < taken
  <2>1. WireEnd(k) < WireEnd(decrypted)
    BY <1>1, <1>13, EndsOrdered
  <2> QED
    BY <1>1, <1>2, <1>10, <1>13, <2>1, EndsAreNats
<1>14. ASSUME ~Truncated
       PROVE  decrypted = whole /\ read_header_filled = 0
  <2>1. decrypted = whole
    <3>1. sent = WireEnd(whole) /\ whole \in 0..n /\ sent \in Nat
      BY <1>10, <1>11, <1>14
    <3>2. ~(whole > decrypted)
      BY <1>12, <3>1
    <3>3. ~(whole < decrypted)
      BY <1>13, <3>1
    <3> QED
      BY <1>1, <3>1, <3>2, <3>3
  <2> QED
    BY <1>2, <1>10, <1>11, <1>14, <2>1
<1>15. ASSUME read_header_filled = 0
       PROVE  ~Truncated
  <2>1. taken = WireEnd(decrypted)
    BY <1>2, <1>10, <1>15, Sizes
  <2>2. ASSUME Truncated
        PROVE  FALSE
    <3>1. n > 0 /\ WireEnd(n - 1) < sent /\ sent < WireEnd(n)
      BY <1>3, <1>8, <1>10, <2>2 DEF Truncated, WriterInPlace
    <3>2. decrypted # n
      BY <1>2, <1>10, <2>1, <3>1
    <3> QED
      BY <1>1, <1>2, <1>3, <1>5, <1>10, <2>1, <3>1, <3>2
  <2> QED
    BY <2>2
<1> QED
  BY <1>14, <1>15
-----------------------------------------------------------------------------
(* What the reader finds.                                                  *)

\* A complete header is that of the next frame in line.
LEMMA LengthIsGenuine ==
    ASSUME TypeOK, FramesInLine, WriterInPlace, ReaderInPlace, ReadLength
    PROVE  /\ decrypted < Len(frames)
           /\ read_body' = frames[decrypted + 1].size + TagSize
           /\ reader' = "open"
<1>1. Len(frames) \in Nat /\ decrypted \in 0..Len(frames)
  BY LenProperties DEF TypeOK, ReaderInPlace
<1>2. WireEnd(decrypted) \in Nat /\ WireEnd(Len(frames)) \in Nat
  BY <1>1, EndsAreNats
<1>3. taken = WireEnd(decrypted) + HeaderSize /\ taken <= sent /\ sent \in Nat
  BY <1>2, Sizes DEF ReadLength, ReaderInPlace, TypeOK
<1>4. sent <= WireEnd(Len(frames))
  <2>1. CASE pending
    <3>1. Len(frames) > 0
      BY <1>1, <2>1 DEF WriterInPlace, TypeOK
    <3>2. WireEnd(Len(frames)) = Last.start + WireSize(Last) /\ Last \in Frame
      BY <1>1, <3>1, EndsAreNats DEF Last
    <3>3. WireSize(Last) \in Nat
      BY <1>1, <3>1, EndsAreNats DEF Last
    <3> QED
      BY <2>1, <3>2, <3>3 DEF WriterInPlace, Frame, TypeOK
  <2>2. CASE ~pending
    BY <1>2, <2>2 DEF WriterInPlace
  <2> QED
    BY <2>1, <2>2
<1>5. decrypted < Len(frames)
  BY <1>1, <1>2, <1>3, <1>4, Sizes
<1>6. frames[decrypted + 1] \in Frame /\ frames[decrypted + 1].start = WireEnd(decrypted)
  BY <1>1, <1>5, NextFrame
<1>7. AtNextFrame(taken - HeaderSize)
  BY <1>2, <1>3, <1>5, <1>6, Sizes DEF AtNextFrame
<1>8. HeaderLengths = {frames[decrypted + 1].size + TagSize}
  BY <1>7 DEF HeaderLengths
<1>9. /\ frames[decrypted + 1].size + TagSize # 0
      /\ frames[decrypted + 1].size + TagSize <= MaxCiphertextFrame
  BY <1>6, Sizes DEF Frame, MaxCiphertextFrame
<1> QED
  BY <1>5, <1>8, <1>9 DEF ReadLength

\* A complete body is the ciphertext of the next frame in line.
LEMMA BodyIsGenuine ==
    ASSUME TypeOK, FramesInLine, WriterInPlace, ReaderInPlace, Decrypt
    PROVE  /\ decrypted < Len(frames)
           /\ decrypted' = decrypted + 1
           /\ plain_first' = PlainEnd(decrypted)
           /\ plain_left' = frames[decrypted + 1].size
           /\ frames[decrypted + 1] \in Frame
           /\ reader' = "open"
<1>1. Len(frames) \in Nat /\ decrypted \in 0..Len(frames)
  BY LenProperties DEF TypeOK, ReaderInPlace
<1>2. WireEnd(decrypted) \in Nat
  BY <1>1, EndsAreNats
<1>3. /\ decrypted < Len(frames)
      /\ read_body = frames[decrypted + 1].size + TagSize
  BY DEF Decrypt, ReaderInPlace
<1>4. /\ frames[decrypted + 1] \in Frame
      /\ frames[decrypted + 1].start = WireEnd(decrypted)
      /\ frames[decrypted + 1].first = PlainEnd(decrypted)
  BY <1>1, <1>3, NextFrame
<1>5. taken = WireEnd(decrypted) + HeaderSize + read_body /\ read_body \in Nat
  BY <1>2, Sizes DEF Decrypt, ReaderInPlace, TypeOK
<1>6. AtNextFrame(taken - read_body - HeaderSize)
  BY <1>2, <1>3, <1>4, <1>5, Sizes DEF AtNextFrame
<1> QED
  BY <1>3, <1>4, <1>6 DEF Decrypt

-----------------------------------------------------------------------------
(* Types.                                                                  *)

\* The initial values have their types.
LEMMA TypeInit == Init => TypeOK
<1> SUFFICES ASSUME Init PROVE TypeOK
  OBVIOUS
<1>1. pending \in BOOLEAN
  BY DEF Init
<1>2. frames \in Seq([start : Nat, first : Nat, size : 1..MaxPlaintextChunk])
  BY EmptySeq DEF Init
<1>3. received \in Seq(Nat)
  BY EmptySeq DEF Init
<1> QED
  BY <1>1, <1>2, <1>3, Sizes DEF Init, TypeOK, MaxCiphertextFrame

\* Every poll keeps the types.
LEMMA TypeStep ==
    ASSUME TypeOK, FramesInLine, WriterInPlace, ReaderInPlace, [Next]_vars
    PROVE  TypeOK'
<1>a. Len(frames) \in Nat
  BY LenProperties DEF TypeOK
<1>b. decrypted < Len(frames) => frames[decrypted + 1] \in Frame
  <2>1. decrypted \in 0..Len(frames)
    BY <1>a DEF TypeOK, ReaderInPlace
  <2> QED
    BY <2>1, NextFrame
<1>c. pending => Last \in Frame
  <2>1. ASSUME pending
        PROVE  Len(frames) \in 0..Len(frames) /\ Len(frames) > 0
    BY <1>a, <2>1 DEF WriterInPlace, TypeOK
  <2> QED
    BY <2>1, EndsAreNats DEF Last
<1>d. Decrypt => /\ decrypted' \in Nat /\ plain_first' \in Nat
                 /\ plain_left' \in 0..MaxPlaintextChunk
                 /\ reader' = "open"
  <2>1. Len(frames) \in Nat /\ decrypted \in 0..Len(frames)
    BY <1>a DEF TypeOK, ReaderInPlace
  <2>2. PlainEnd(decrypted) \in Nat
    BY <2>1, EndsAreNats
  <2> QED
    BY <2>1, <2>2, BodyIsGenuine, Sizes DEF Frame
<1>e. ReadLength => read_body' \in 0..MaxCiphertextFrame /\ reader' = "open"
  BY <1>b, LengthIsGenuine, Sizes DEF Frame, MaxCiphertextFrame
<1> USE Sizes DEF TypeOK, MaxCiphertextFrame, readerVars, writerVars
<1>1. ASSUME NEW n \in 1..MaxBuffer, PollWrite(n)
      PROVE  TypeOK'
  <2> DEFINE f == [start |-> sent, first |-> accepted, size |-> Least(n, MaxPlaintextChunk)]
  <2>1. Least(n, MaxPlaintextChunk) \in 1..MaxPlaintextChunk
    BY DEF Least
  <2>2. frames' \in Seq([start : Nat, first : Nat, size : 1..MaxPlaintextChunk])
    <3>1. f \in [start : Nat, first : Nat, size : 1..MaxPlaintextChunk]
      BY <2>1
    <3>2. frames' = Append(frames, f)
      BY <1>1 DEF PollWrite
    <3> HIDE DEF f
    <3> QED
      BY <3>1, <3>2, AppendProperties
  <2> QED
    BY <1>1, <2>2 DEF PollWrite
<1>2. ASSUME NEW n \in 1..MaxBuffer, PollWriteAgain(n)
      PROVE  TypeOK'
  BY <1>2 DEF PollWriteAgain
<1>3. ASSUME NEW k \in 1..PipeSize, WriteInner(k)
      PROVE  TypeOK'
  BY <1>3 DEF WriteInner
<1>4. CASE FinishWrite
  <2>1. Last.size \in Nat
    BY <1>4, <1>c DEF FinishWrite, Frame
  <2>2. pending' \in BOOLEAN
    BY <1>4 DEF FinishWrite
  <2> QED
    BY <1>4, <2>1, <2>2 DEF FinishWrite
<1>5. CASE PollShutdown \/ ShutdownInner \/ DropStream
  <2>1. CASE PollShutdown
    BY <2>1 DEF PollShutdown
  <2>2. CASE ShutdownInner
    <3>1. pending' \in BOOLEAN
      BY <2>2 DEF ShutdownInner
    <3> QED
      BY <2>2, <3>1 DEF ShutdownInner
  <2>3. CASE DropStream
    BY <2>3 DEF DropStream
  <2> QED
    BY <1>5, <2>1, <2>2, <2>3
<1>6. ASSUME NEW j \in 1..HeaderSize, ReadHeader(j)
      PROVE  TypeOK'
  BY <1>6 DEF ReadHeader
<1>7. CASE ReadLength
  BY <1>7, <1>e DEF ReadLength
<1>8. ASSUME NEW j \in 1..MaxCiphertextFrame, ReadBody(j)
      PROVE  TypeOK'
  BY <1>8 DEF ReadBody
<1>9. CASE Decrypt
  BY <1>9, <1>d DEF Decrypt
<1>10. ASSUME NEW n \in 1..MaxBuffer, Deliver(n)
       PROVE  TypeOK'
  <2> DEFINE count == Least(plain_left, n)
  <2>1. count \in 1..plain_left
    BY <1>10 DEF Least, Deliver
  <2>2. received' \in Seq(Nat)
    BY <1>10, <2>1, RunIsSeq, ConcatProperties DEF Deliver
  <2>3. plain_first' = plain_first + count /\ plain_left' = plain_left - count
    BY <1>10 DEF Deliver
  <2> HIDE DEF count
  <2>4. plain_first' \in Nat /\ plain_left' \in 0..MaxPlaintextChunk
    BY <2>1, <2>3
  <2> QED
    BY <1>10, <2>2, <2>4 DEF Deliver
<1>11. CASE EndOfStream \/ ReadFails
  BY <1>11 DEF EndOfStream, ReadFails
<1>12. CASE UNCHANGED vars
  BY <1>12 DEF vars
<1> QED
  BY <1>1, <1>2, <1>3, <1>4, <1>5, <1>6, <1>7, <1>8, <1>9, <1>10, <1>11,
     <1>12 DEF Next, WriterStep, ReaderStep, Quiet

-----------------------------------------------------------------------------
(* The writer.                                                             *)

\* A new frame moves no other frame.
LEMMA Appended ==
    ASSUME TypeOK, NEW n \in 1..MaxBuffer, PollWrite(n)
    PROVE  /\ Len(frames') = Len(frames) + 1
           /\ \A k \in 1..Len(frames) : frames'[k] = frames[k]
           /\ \A k \in 0..Len(frames) : WireEnd(k)' = WireEnd(k) /\ PlainEnd(k)' = PlainEnd(k)
           /\ Last' = [start |-> sent, first |-> accepted, size |-> Least(n, MaxPlaintextChunk)]
<1> DEFINE f == [start |-> sent, first |-> accepted, size |-> Least(n, MaxPlaintextChunk)]
<1>1. f \in Frame
  BY Sizes DEF Frame, Least, TypeOK
<1>2. frames \in Seq(Frame)
  BY DEF TypeOK, Frame
<1>3. frames' = Append(frames, f)
  BY DEF PollWrite
<1> HIDE DEF f
<1>4. /\ Len(frames') = Len(frames) + 1
      /\ \A k \in 1..Len(frames) : frames'[k] = frames[k]
      /\ frames'[Len(frames) + 1] = f
  BY <1>1, <1>2, <1>3, AppendProperties
<1>5. ASSUME NEW k \in 0..Len(frames)
      PROVE  WireEnd(k)' = WireEnd(k) /\ PlainEnd(k)' = PlainEnd(k)
  BY <1>4 DEF WireEnd, PlainEnd, WireSize
<1>6. Last' = f
  BY <1>4 DEF Last
<1> QED
  BY <1>4, <1>5, <1>6 DEF f

\* The writer's polls keep frames in line and both sides in place.
LEMMA WriterStepKeeps ==
    ASSUME TypeOK, FramesInLine, WriterInPlace, ReaderInPlace, WriterStep
    PROVE  FramesInLine' /\ WriterInPlace' /\ ReaderInPlace'
<1>a. Len(frames) \in Nat /\ decrypted \in 0..Len(frames)
  BY LenProperties DEF TypeOK, ReaderInPlace
<1>b. pending => /\ Len(frames) > 0 /\ Last \in Frame
                 /\ WireEnd(Len(frames)) = Last.start + WireSize(Last)
                 /\ PlainEnd(Len(frames)) = Last.first + Last.size
                 /\ WireSize(Last) \in Nat \ {0}
  <2>1. pending => Len(frames) \in 0..Len(frames) /\ Len(frames) > 0
    BY <1>a DEF WriterInPlace, TypeOK
  <2> QED
    BY <2>1, EndsAreNats DEF Last
<1>10. sent \in Nat
  BY DEF TypeOK
<1>1. ASSUME NEW n \in 1..MaxBuffer, PollWrite(n)
      PROVE  FramesInLine' /\ WriterInPlace' /\ ReaderInPlace'
  <2> DEFINE m == Len(frames)
  <2>1. /\ Len(frames') = m + 1
        /\ \A k \in 1..m : frames'[k] = frames[k]
        /\ \A k \in 0..m : WireEnd(k)' = WireEnd(k) /\ PlainEnd(k)' = PlainEnd(k)
        /\ Last' = [start |-> sent, first |-> accepted, size |-> Least(n, MaxPlaintextChunk)]
    BY <1>1, Appended
  <2>2. sent = WireEnd(m) /\ accepted = PlainEnd(m) /\ call = "none" /\ link = "open"
    BY <1>1 DEF PollWrite, WriterInPlace, TypeOK
  <2>3. FramesInLine'
    <3>1. ASSUME NEW k \in 1..m + 1
          PROVE  /\ frames'[k].start = WireEnd(k - 1)'
                 /\ frames'[k].first = PlainEnd(k - 1)'
                 /\ \A j \in 1..k - 1 :
                       WireEnd(j)' <= frames'[k].start /\ PlainEnd(j)' <= frames'[k].first
      <4>1. CASE k \in 1..m
        <5>1. k - 1 \in 0..m /\ \A j \in 1..k - 1 : j \in 0..m
          BY <1>a, <4>1
        <5> QED
          BY <2>1, <4>1, <5>1 DEF FramesInLine
      <4>2. CASE k = m + 1
        <5>1. frames'[k] = Last'
          BY <2>1, <4>2 DEF Last
        <5>2. ASSUME NEW j \in 1..m
              PROVE  WireEnd(j) <= WireEnd(m) /\ PlainEnd(j) <= PlainEnd(m)
          <6>1. CASE j = m
            BY <1>a, <6>1, EndsAreNats
          <6>2. CASE j < m
            <7>1. WireEnd(j) < WireEnd(m) /\ PlainEnd(j) < PlainEnd(m)
              BY <1>a, <6>2, EndsOrdered
            <7>2. /\ WireEnd(j) \in Nat /\ WireEnd(m) \in Nat
                  /\ PlainEnd(j) \in Nat /\ PlainEnd(m) \in Nat
              BY <1>a, EndsAreNats
            <7> QED
              BY <7>1, <7>2
          <6> QED
            BY <1>a, <6>1, <6>2
        <5>3. k - 1 = m /\ m \in 0..m /\ \A j \in 1..m : j \in 0..m
          BY <1>a, <4>2
        <5> QED
          BY <2>1, <2>2, <5>1, <5>2, <5>3
      <4> QED
        BY <1>a, <4>1, <4>2
    <3> QED
      BY <2>1, <3>1 DEF FramesInLine
  <2>4. WriterInPlace'
    <3>1. frames' # <<>>
      BY <1>a, <2>1
    <3>2. WireSize(Last)' \in Nat
      <4>1. Last'.size \in Nat
        BY <2>1, Sizes DEF Least
      <4> QED
        BY <4>1, Sizes DEF WireSize
    <3>3. /\ pending' = TRUE /\ offset' = 0 /\ sent' = sent /\ accepted' = accepted
          /\ call' = "write" /\ link' = "open"
      BY <1>1, <2>2 DEF PollWrite
    <3>4. offset' <= WireSize(Last)'
      BY <3>2, <3>3
    <3>5. sent' = Last'.start + offset' /\ accepted' = Last'.first
      BY <1>10, <2>1, <3>3
    <3> QED
      BY <3>1, <3>3, <3>4, <3>5 DEF WriterInPlace
  <2>5. ReaderInPlace'
    <3>1. decrypted' = decrypted /\ WireEnd(decrypted)' = WireEnd(decrypted)
          /\ PlainEnd(decrypted)' = PlainEnd(decrypted)
      BY <1>1, <1>a, <2>1 DEF PollWrite, readerVars, WireEnd, PlainEnd, WireSize
    <3>2. decrypted < m => frames'[decrypted + 1] = frames[decrypted + 1]
      BY <1>a, <2>1
    <3>3. reader = "open"
      BY <2>2 DEF ReaderInPlace, TypeOK
    <3> QED
      BY <1>1, <1>a, <2>1, <3>1, <3>2, <3>3 DEF PollWrite, readerVars, ReaderInPlace
  <2> QED
    BY <2>3, <2>4, <2>5
<1>2. ASSUME UNCHANGED frames
      PROVE  FramesInLine'
  BY <1>2 DEF FramesInLine, WireEnd, PlainEnd, WireSize
<1>3. ASSUME UNCHANGED <<frames, readerVars>>, sent' \in Nat, sent' >= sent, call # "over"
      PROVE  ReaderInPlace'
  <2>1. reader = "open"
    BY <1>3 DEF ReaderInPlace
  <2>2. taken \in Nat /\ sent \in Nat
    BY DEF TypeOK
  <2> QED
    BY <1>3, <2>1, <2>2 DEF ReaderInPlace, readerVars, WireEnd, PlainEnd, WireSize
<1>4. ASSUME NEW n \in 1..MaxBuffer, PollWriteAgain(n)
      PROVE  WriterInPlace' /\ UNCHANGED <<frames, sent, readerVars>> /\ call # "over"
  BY <1>4 DEF PollWriteAgain, WriterInPlace, WireEnd, PlainEnd, WireSize, Last
<1>5. ASSUME NEW k \in 1..PipeSize, WriteInner(k)
      PROVE  /\ WriterInPlace' /\ UNCHANGED <<frames, readerVars>> /\ call # "over"
             /\ sent' = sent + k
  <2>1. /\ UNCHANGED <<frames, readerVars, pending, accepted, call, link>>
        /\ sent' = sent + k /\ offset' = offset + k /\ pending
        /\ offset + k <= WireSize(Last) /\ call # "over"
    BY <1>5 DEF WriteInner
  <2>2. sent + k = Last.start + (offset + k)
    BY <1>b, <1>10, <2>1, SMTT(30) DEF WriterInPlace, TypeOK, Frame
  <2>3. Last' = Last /\ WireSize(Last)' = WireSize(Last) /\ PlainEnd(Len(frames))' = PlainEnd(Len(frames))
    BY <2>1 DEF Last, WireSize, PlainEnd
  <2>4. WriterInPlace'
    BY <2>1, <2>2, <2>3 DEF WriterInPlace
  <2> QED
    BY <2>1, <2>4
<1>6. ASSUME FinishWrite
      PROVE  WriterInPlace' /\ UNCHANGED <<frames, sent, readerVars>> /\ call # "over"
  BY <1>6, <1>a, <1>b DEF FinishWrite, WriterInPlace, WireEnd, PlainEnd, WireSize, Last, TypeOK
<1>7. ASSUME PollShutdown
      PROVE  WriterInPlace' /\ UNCHANGED <<frames, sent, readerVars>> /\ call # "over"
  BY <1>7 DEF PollShutdown, WriterInPlace, WireEnd, PlainEnd, WireSize, Last
<1>8. ASSUME ShutdownInner
      PROVE  WriterInPlace' /\ UNCHANGED <<frames, sent, readerVars>> /\ call # "over"
  BY <1>8, <1>a, <1>b DEF ShutdownInner, WriterInPlace, WireEnd, PlainEnd, WireSize, Last, TypeOK
<1>9. ASSUME DropStream
      PROVE  WriterInPlace' /\ UNCHANGED <<frames, sent, readerVars>> /\ call # "over"
  BY <1>9 DEF DropStream, WriterInPlace, WireEnd, PlainEnd, WireSize, Last
<1> QED
  <2>1. ASSUME NEW n \in 1..MaxBuffer, PollWriteAgain(n)
        PROVE  FramesInLine' /\ WriterInPlace' /\ ReaderInPlace'
    BY <1>2, <1>3, <1>4, <1>10, <2>1
  <2>2. ASSUME NEW k \in 1..PipeSize, WriteInner(k)
        PROVE  FramesInLine' /\ WriterInPlace' /\ ReaderInPlace'
    <3>1. sent' \in Nat /\ sent' >= sent
      BY <1>5, <1>10, <2>2
    <3> QED
      BY <1>2, <1>3, <1>5, <2>2, <3>1
  <2>3. CASE FinishWrite \/ PollShutdown \/ ShutdownInner \/ DropStream
    BY <1>2, <1>3, <1>6, <1>7, <1>8, <1>9, <1>10, <2>3
  <2> QED
    BY <1>1, <2>1, <2>2, <2>3 DEF WriterStep

\* No poll of the writer happens after an error or an end was read.
LEMMA WriterHasReader ==
    ASSUME TypeOK, WriterInPlace, ReaderInPlace, WriterStep
    PROVE  reader = "open" /\ reader' = "open" /\ received' = received
<1>1. call # "over"
  BY DEF WriterStep, PollWrite, PollWriteAgain, WriteInner, FinishWrite,
         PollShutdown, ShutdownInner, DropStream
<1>2. UNCHANGED readerVars
  BY DEF WriterStep, PollWrite, PollWriteAgain, WriteInner, FinishWrite,
         PollShutdown, ShutdownInner, DropStream
<1> QED
  BY <1>1, <1>2 DEF ReaderInPlace, readerVars

-----------------------------------------------------------------------------
(* The reader.                                                             *)

\* The reader's polls keep it in place and its bytes in order.
LEMMA ReaderStepKeeps ==
    ASSUME TypeOK, FramesInLine, WriterInPlace, ReaderInPlace, ReceivedInOrder,
           ErrorsMeanTruncation, ReaderStep
    PROVE  /\ FramesInLine' /\ WriterInPlace' /\ ReaderInPlace'
           /\ ReceivedInOrder' /\ ErrorsMeanTruncation'
<1>a. Len(frames) \in Nat /\ decrypted \in 0..Len(frames)
  BY LenProperties DEF TypeOK, ReaderInPlace
<1>b. WireEnd(decrypted) \in Nat /\ PlainEnd(decrypted) \in Nat
  BY <1>a, EndsAreNats
<1>c. UNCHANGED writerVars
  BY DEF ReaderStep, ReadHeader, ReadLength, ReadBody, Decrypt, Deliver,
         EndOfStream, ReadFails
<1>d. reader = "open"
  BY DEF ReaderStep, Reading, ReadHeader, ReadLength, ReadBody, Decrypt,
         Deliver, EndOfStream, ReadFails
<1>e. /\ read_header_filled \in 0..HeaderSize /\ read_body \in Nat
      /\ read_body_filled \in Nat /\ taken \in Nat /\ sent \in Nat
      /\ plain_first \in Nat /\ plain_left \in Nat /\ Len(received) \in Nat
  BY Sizes, LenProperties DEF TypeOK, MaxCiphertextFrame
<1>1. FramesInLine' /\ WriterInPlace'
  <2>1. FramesInLine'
    BY <1>c DEF writerVars, FramesInLine, WireEnd, PlainEnd, WireSize
  <2>2. WriterInPlace'
    BY <1>c DEF writerVars, WriterInPlace, WireEnd, PlainEnd, WireSize, Last
  <2> QED
    BY <2>1, <2>2
<1>2. ASSUME UNCHANGED decrypted
      PROVE  WireEnd(decrypted)' = WireEnd(decrypted) /\ PlainEnd(decrypted)' = PlainEnd(decrypted)
  BY <1>c, <1>2 DEF writerVars, WireEnd, PlainEnd, WireSize
<1>3. ASSUME UNCHANGED <<received, reader>>
      PROVE  ReceivedInOrder' /\ ErrorsMeanTruncation'
  BY <1>d, <1>3 DEF ReceivedInOrder, ErrorsMeanTruncation, Bytes
<1>4. ASSUME NEW j \in 1..HeaderSize, ReadHeader(j)
      PROVE  ReaderInPlace'
  <2>1. /\ read_header_filled' = read_header_filled + j
        /\ taken' = taken + j /\ taken + j <= sent /\ plain_left = 0
        /\ read_header_filled + j <= HeaderSize
        /\ UNCHANGED <<read_body, read_body_filled, decrypted, plain_first,
                       plain_left, received, reader, frames, sent, call>>
    BY <1>4, <1>c DEF ReadHeader, Reading, writerVars
  <2>2. read_body = 0
    BY <1>e, <2>1, Sizes DEF ReaderInPlace
  <2> QED
    BY <1>2, <1>b, <1>d, <1>e, <2>1, <2>2, Sizes DEF ReaderInPlace
<1>5. CASE ReadLength
  <2>1. /\ decrypted < Len(frames)
        /\ read_body' = frames[decrypted + 1].size + TagSize
        /\ reader' = "open"
    BY <1>5, LengthIsGenuine
  <2>2. /\ read_header_filled = HeaderSize /\ read_body = 0 /\ plain_left = 0
        /\ UNCHANGED <<taken, read_header_filled, read_body_filled, decrypted,
                       plain_first, plain_left, received, frames, sent, call>>
    BY <1>5, <1>c DEF ReadLength, Reading, writerVars
  <2>3. frames[decrypted + 1].size \in Nat
    BY <1>a, <2>1, NextFrame, Sizes DEF Frame
  <2>4. ReaderInPlace'
    BY <1>2, <1>b, <1>d, <1>e, <2>1, <2>2, <2>3, Sizes DEF ReaderInPlace
  <2>5. UNCHANGED <<received, reader>>
    BY <1>d, <2>1, <2>2
  <2> QED
    BY <1>1, <1>3, <2>4, <2>5
<1>6. ASSUME NEW j \in 1..MaxCiphertextFrame, ReadBody(j)
      PROVE  ReaderInPlace'
  <2>1. /\ read_body_filled' = read_body_filled + j
        /\ taken' = taken + j /\ taken + j <= sent /\ plain_left = 0
        /\ read_body_filled + j <= read_body /\ read_body > 0
        /\ UNCHANGED <<read_header_filled, read_body, decrypted, plain_first,
                       plain_left, received, reader, frames, sent, call>>
    BY <1>6, <1>c DEF ReadBody, Reading, writerVars
  <2>2. j \in Nat
    BY Sizes DEF MaxCiphertextFrame
  <2> QED
    BY <1>2, <1>b, <1>d, <1>e, <2>1, <2>2, Sizes, SMTT(30) DEF ReaderInPlace
<1>7. CASE Decrypt
  <2>1. /\ decrypted < Len(frames) /\ decrypted' = decrypted + 1
        /\ plain_first' = PlainEnd(decrypted)
        /\ plain_left' = frames[decrypted + 1].size
        /\ reader' = "open"
    BY <1>7, BodyIsGenuine
  <2>2. /\ read_header_filled' = 0 /\ read_body' = 0 /\ read_body_filled' = 0
        /\ read_body > 0 /\ read_body_filled = read_body /\ plain_left = 0
        /\ UNCHANGED <<taken, received, frames, sent, call>>
    BY <1>7, <1>c DEF Decrypt, Reading, writerVars
  <2>3. /\ WireEnd(decrypted + 1) = WireEnd(decrypted) + HeaderSize + frames[decrypted + 1].size + TagSize
        /\ PlainEnd(decrypted + 1) = PlainEnd(decrypted) + frames[decrypted + 1].size
        /\ frames[decrypted + 1].size \in Nat
    BY <1>a, <2>1, NextFrame, Sizes DEF Frame
  <2>4. WireEnd(decrypted)' = WireEnd(decrypted + 1) /\ PlainEnd(decrypted)' = PlainEnd(decrypted + 1)
    BY <2>1, <2>2 DEF WireEnd, PlainEnd, WireSize
  <2>5. taken = WireEnd(decrypted + 1) /\ Len(received) = PlainEnd(decrypted)
    BY <1>b, <1>e, <2>2, <2>3, Sizes DEF ReaderInPlace
  <2>6. ReaderInPlace'
    BY <1>a, <1>b, <1>e, <2>1, <2>2, <2>3, <2>4, <2>5, Sizes, SMTT(30) DEF ReaderInPlace
  <2>7. UNCHANGED <<received, reader>>
    BY <1>d, <2>1, <2>2
  <2> QED
    BY <1>1, <1>3, <2>6, <2>7
<1>8. ASSUME NEW n \in 1..MaxBuffer, Deliver(n)
      PROVE  ReaderInPlace' /\ ReceivedInOrder' /\ ErrorsMeanTruncation'
  <2> DEFINE count == Least(plain_left, n)
             old == Len(received)
  <2>1. count \in 1..plain_left
    BY <1>8, <1>e DEF Least, Deliver
  <2>2. /\ received' = received \o Bytes(plain_first, count)
        /\ plain_first' = plain_first + count /\ plain_left' = plain_left - count
        /\ plain_left > 0
        /\ UNCHANGED <<taken, read_header_filled, read_body, read_body_filled,
                       decrypted, reader, frames, sent, call>>
    BY <1>8, <1>c DEF Deliver, writerVars
  <2> HIDE DEF count
  <2>3. plain_first = old /\ received = Bytes(0, old) /\ old \in Nat /\ count \in Nat
    BY <1>e, <2>1, <2>2 DEF ReaderInPlace, ReceivedInOrder
  <2>4. received' = Bytes(0, old + count)
    BY <2>2, <2>3, RunsJoin
  <2>5. Len(received') = old + count
    BY <2>3, <2>4, RunIsSeq
  <2>6. ReceivedInOrder'
    BY <2>4, <2>5 DEF ReceivedInOrder
  <2>7. ReaderInPlace'
    <3>1. WireEnd(decrypted)' = WireEnd(decrypted) /\ PlainEnd(decrypted)' = PlainEnd(decrypted)
      BY <1>2, <2>2
    <3>2. plain_first' = Len(received)' /\ Len(received)' + plain_left' = PlainEnd(decrypted)'
      <4>1. plain_first' = plain_first + count /\ plain_left' = plain_left - count
        BY <2>2
      <4>2. old + plain_left = PlainEnd(decrypted)
        BY DEF ReaderInPlace
      <4> HIDE DEF old
      <4>3. plain_first' = old + count /\ (old + count) + plain_left' = PlainEnd(decrypted)
        BY <1>e, <2>1, <2>3, <4>1, <4>2
      <4> QED
        BY <2>5, <3>1, <4>3
    <3>3. read_header_filled = 0
      BY <2>2 DEF ReaderInPlace
    <3> QED
      BY <1>d, <2>2, <3>1, <3>2, <3>3 DEF ReaderInPlace
  <2>8. ErrorsMeanTruncation'
    BY <1>d, <2>2 DEF ErrorsMeanTruncation
  <2> QED
    BY <2>6, <2>7, <2>8
<1>9. CASE EndOfStream
  <2>1. /\ plain_left = 0 /\ link = "fin" /\ taken = sent
        /\ read_header_filled = HeaderSize => read_body > read_body_filled
        /\ reader' = IF read_header_filled = 0 THEN "eof" ELSE "error"
        /\ UNCHANGED <<taken, read_header_filled, read_body, read_body_filled,
                       decrypted, plain_first, plain_left, received, frames,
                       sent, call, link, pending, offset>>
    BY <1>9, <1>c DEF EndOfStream, Reading, writerVars
  <2>2. read_header_filled # 0 => Truncated
    BY <2>1, ReaderAtEnd
  <2>3. call = "over"
    BY <2>1 DEF WriterInPlace
  <2>4. ReaderInPlace'
    BY <1>2, <2>1, <2>3 DEF ReaderInPlace
  <2>5. Truncated' = Truncated
    BY <2>1 DEF Truncated, Last, WireSize
  <2>6. ErrorsMeanTruncation'
    BY <2>1, <2>2, <2>5 DEF ErrorsMeanTruncation
  <2>7. ReceivedInOrder'
    BY <2>1 DEF ReceivedInOrder, Bytes
  <2> QED
    BY <1>1, <2>4, <2>6, <2>7
<1>10. CASE ReadFails
  <2>1. /\ link = "reset" /\ reader' = "error"
        /\ UNCHANGED <<taken, read_header_filled, read_body, read_body_filled,
                       decrypted, plain_first, plain_left, received, frames,
                       sent, call, link>>
    BY <1>10, <1>c DEF ReadFails, writerVars
  <2>2. call = "over"
    BY <2>1 DEF WriterInPlace
  <2>3. ReaderInPlace'
    BY <1>2, <2>1, <2>2 DEF ReaderInPlace
  <2>4. ReceivedInOrder' /\ ErrorsMeanTruncation'
    BY <2>1 DEF ReceivedInOrder, Bytes, ErrorsMeanTruncation
  <2> QED
    BY <1>1, <2>3, <2>4
<1> QED
  <2>1. ASSUME NEW j \in 1..HeaderSize, ReadHeader(j)
        PROVE  ReaderInPlace' /\ ReceivedInOrder' /\ ErrorsMeanTruncation'
    BY <1>3, <1>4, <2>1 DEF ReadHeader
  <2>2. ASSUME NEW j \in 1..MaxCiphertextFrame, ReadBody(j)
        PROVE  ReaderInPlace' /\ ReceivedInOrder' /\ ErrorsMeanTruncation'
    BY <1>3, <1>6, <2>2 DEF ReadBody
  <2> QED
    BY <1>1, <1>5, <1>7, <1>8, <1>9, <1>10, <2>1, <2>2 DEF ReaderStep

-----------------------------------------------------------------------------
(* The theorems.                                                           *)

\* The initial states satisfy every part of the invariant.
LEMMA InvariantInit == Init => IInv
<1> SUFFICES ASSUME Init PROVE IInv
  OBVIOUS
<1>1. TypeOK
  BY TypeInit
<1>2. Len(frames) = 0 /\ Len(received) = 0
  BY EmptySeq DEF Init
<1>3. FramesInLine
  BY <1>2 DEF FramesInLine
<1>4. WriterInPlace /\ ReaderInPlace
  BY <1>2 DEF Init, WriterInPlace, ReaderInPlace, WireEnd, PlainEnd
<1>5. ReceivedInOrder
  <2>1. Bytes(0, 0) \in Seq(Nat) /\ Len(Bytes(0, 0)) = 0
    BY RunIsSeq
  <2>2. Bytes(0, 0) = <<>>
    BY <2>1, EmptySeq
  <2> QED
    BY <1>2, <2>2 DEF Init, ReceivedInOrder
<1>6. ErrorsMeanTruncation
  BY DEF Init, ErrorsMeanTruncation
<1> QED
  BY <1>1, <1>3, <1>4, <1>5, <1>6 DEF IInv

\* Every poll of either side preserves the invariant.
LEMMA InvariantStep == IInv /\ [Next]_vars => IInv'
<1> SUFFICES ASSUME IInv, [Next]_vars PROVE IInv'
  OBVIOUS
<1> USE DEF IInv
<1>1. TypeOK'
  BY TypeStep
<1>2. CASE WriterStep
  <2>1. FramesInLine' /\ WriterInPlace' /\ ReaderInPlace'
    BY <1>2, WriterStepKeeps
  <2>2. reader' = "open" /\ received' = received
    BY <1>2, WriterHasReader
  <2>3. ReceivedInOrder' /\ ErrorsMeanTruncation'
    BY <2>2 DEF ReceivedInOrder, ErrorsMeanTruncation, Bytes
  <2> QED
    BY <1>1, <2>1, <2>3
<1>3. CASE ReaderStep
  BY <1>1, <1>3, ReaderStepKeeps
<1>4. CASE UNCHANGED vars
  <2>1. FramesInLine' /\ WriterInPlace'
    BY <1>4 DEF vars, writerVars, FramesInLine, WriterInPlace, WireEnd, PlainEnd,
                WireSize, Last
  <2>2. ReaderInPlace'
    BY <1>4 DEF vars, writerVars, readerVars, ReaderInPlace, WireEnd, PlainEnd, WireSize
  <2>3. ReceivedInOrder' /\ ErrorsMeanTruncation'
    BY <1>4 DEF vars, writerVars, readerVars, ReceivedInOrder, Bytes,
                ErrorsMeanTruncation, Truncated, Last, WireSize
  <2> QED
    BY <1>1, <2>1, <2>2, <2>3
<1> QED
  BY <1>2, <1>3, <1>4 DEF Next, Quiet

\* The inductive invariant holds in every reachable state.
THEOREM Invariant == Spec => []IInv
BY InvariantInit, InvariantStep, PTL DEF Spec

\* Every variable keeps its type; no frame is longer than the reader accepts.
THEOREM TypeCorrect == Spec => []TypeOK
<1>1. IInv => TypeOK
  BY DEF IInv
<1> QED
  BY Invariant, <1>1, PTL

\* However writes, frames and reads are cut into pieces, the reader gets the
\* caller's bytes once each and in order (poll_write, poll_read).
THEOREM BytesInOrder == Spec => []ReceivedInOrder
<1>1. IInv => ReceivedInOrder
  BY DEF IInv
<1> QED
  BY Invariant, <1>1, PTL

\* A reader that sees an error has a connection that was reset or cut inside a
\* frame: fragmentation never breaks the framing (poll_read 280-343).
THEOREM NoErrorByFragmentation == Spec => []ErrorsMeanTruncation
<1>1. IInv => ErrorsMeanTruncation
  BY DEF IInv
<1> QED
  BY Invariant, <1>1, PTL

\* A clean end comes after every byte that was reported written, and never
\* inside a frame (poll_read 290-299 and 327-332, poll_shutdown).
THEOREM CleanEndIsComplete == Spec => []EndIsComplete
<1>1. ASSUME IInv, reader = "eof"
      PROVE  /\ ~Truncated
             /\ Len(received) \in {accepted, PlainEnd(Len(frames))}
             /\ accepted <= Len(received)
  <2>1. /\ taken = sent /\ read_header_filled = 0 /\ plain_left = 0
        /\ TypeOK /\ FramesInLine /\ WriterInPlace /\ ReaderInPlace
    BY <1>1 DEF IInv, ReaderInPlace
  <2>2. ~Truncated /\ decrypted = whole
    <3>1. read_header_filled = HeaderSize => read_body > read_body_filled
      BY <2>1, Sizes
    <3> QED
      BY <2>1, <3>1, ReaderAtEnd
  <2>3. Len(frames) \in Nat /\ Len(received) \in Nat /\ decrypted \in 0..Len(frames)
    BY <2>1, LenProperties DEF TypeOK, ReaderInPlace
  <2>4. PlainEnd(decrypted) \in Nat /\ Len(received) = PlainEnd(decrypted)
    BY <2>1, <2>3, EndsAreNats DEF ReaderInPlace
  <2>5. Len(frames) > 0 => /\ PlainEnd(Len(frames)) = Last.first + Last.size
                           /\ Last.first = PlainEnd(Len(frames) - 1)
                           /\ Last \in Frame
    BY <2>1, <2>3, EndsAreNats DEF FramesInLine, Last
  <2>6. frames # <<>> => Len(frames) > 0
    BY <2>1, <2>3, EmptySeq DEF TypeOK
  <2>7. CASE whole = Len(frames)
    BY <2>1, <2>2, <2>3, <2>4, <2>5, <2>6, <2>7, Sizes DEF WriterInPlace, Frame
  <2>8. CASE whole # Len(frames)
    <3>1. pending /\ whole = Len(frames) - 1
      BY <2>8 DEF whole
    <3> QED
      BY <2>1, <2>2, <2>3, <2>4, <2>5, <2>6, <3>1 DEF WriterInPlace, Frame
  <2> QED
    BY <2>7, <2>8
<1>2. IInv => EndIsComplete
  BY <1>1 DEF EndIsComplete
<1> QED
  BY Invariant, <1>2, PTL

-----------------------------------------------------------------------------
(* NoiseStream implements ByteStream.                                      *)

\* The frames decrypted are among those complete on the wire.
LEMMA DecryptedAreWhole ==
    ASSUME IInv
    PROVE  /\ whole \in 0..Len(frames) /\ decrypted \in 0..whole
           /\ PlainEnd(decrypted) \in Nat /\ PlainEnd(whole) \in Nat
           /\ PlainEnd(decrypted) <= PlainEnd(whole)
<1> USE DEF IInv
<1>1. Len(frames) \in Nat /\ decrypted \in 0..Len(frames)
  BY LenProperties DEF TypeOK, ReaderInPlace
<1>2. frames # <<>> => Len(frames) > 0
  BY <1>1, EmptySeq DEF TypeOK
<1>3. whole \in 0..Len(frames)
  BY <1>1, <1>2 DEF whole, WriterInPlace
<1>4. decrypted <= whole
  <2>1. SUFFICES ASSUME whole < decrypted
                 PROVE  FALSE
    BY <1>1, <1>3
  <2>2. /\ pending /\ offset < WireSize(Last) /\ whole = Len(frames) - 1
        /\ decrypted = Len(frames) /\ Len(frames) > 0
    BY <1>1, <1>2, <2>1 DEF whole, WriterInPlace
  <2>3. WireEnd(decrypted) = Last.start + WireSize(Last) /\ WireSize(Last) \in Nat /\ Last \in Frame
    BY <1>1, <2>2, EndsAreNats DEF Last
  <2>4. WireEnd(decrypted) <= taken
    <3>1. WireEnd(decrypted) \in Nat
      BY <1>1, EndsAreNats
    <3> QED
      BY <3>1, Sizes DEF TypeOK, ReaderInPlace
  <2>5. sent = Last.start + offset /\ offset \in Nat
    BY <2>2 DEF WriterInPlace, TypeOK
  <2>6. taken <= sent /\ taken \in Nat
    BY DEF ReaderInPlace, TypeOK
  <2>7. Last.start \in Nat
    BY <2>3 DEF Frame
  <2> QED
    BY <2>2, <2>3, <2>4, <2>5, <2>6, <2>7
<1>5. PlainEnd(decrypted) \in Nat /\ PlainEnd(whole) \in Nat
  BY <1>1, <1>3, EndsAreNats
<1>6. PlainEnd(decrypted) <= PlainEnd(whole)
  <2>1. CASE decrypted = whole
    BY <1>5, <2>1
  <2>2. CASE decrypted < whole
    <3>1. PlainEnd(decrypted) < PlainEnd(whole)
      BY <1>1, <1>3, <2>2, EndsOrdered
    <3> QED
      BY <1>5, <3>1
  <2> QED
    BY <1>1, <1>3, <1>4, <2>1, <2>2
<1> QED
  BY <1>1, <1>3, <1>4, <1>5, <1>6

\* A poll of the writer puts a frame into the pipe, closes it, or does
\* nothing that the reader could tell.
LEMMA WriterRefines ==
    ASSUME IInv, WriterStep
    PROVE  [Pipe!Next]_Pipe!vars
<1> USE DEF IInv
<1>a. Len(frames) \in Nat
  BY LenProperties DEF TypeOK
<1>b. pending => /\ Len(frames) > 0 /\ Last \in Frame
                 /\ PlainEnd(Len(frames)) = Last.first + Last.size
                 /\ Last.first = PlainEnd(Len(frames) - 1)
                 /\ WireSize(Last) \in Nat \ {0}
  <2>1. pending => Len(frames) \in 1..Len(frames)
    BY <1>a DEF WriterInPlace, TypeOK
  <2> QED
    BY <2>1, EndsAreNats DEF Last, FramesInLine
<1>c. received' = received /\ reader' = reader
  BY WriterHasReader
<1>1. ASSUME UNCHANGED <<writtenBar, writerBar>>
      PROVE  [Pipe!Next]_Pipe!vars
  BY <1>1, <1>c DEF Pipe!vars
<1>2. ASSUME NEW n \in 1..MaxBuffer, PollWrite(n)
      PROVE  UNCHANGED <<writtenBar, writerBar>>
  <2>1. /\ Len(frames') = Len(frames) + 1
        /\ \A k \in 0..Len(frames) : PlainEnd(k)' = PlainEnd(k)
        /\ Last' = [start |-> sent, first |-> accepted, size |-> Least(n, MaxPlaintextChunk)]
    BY <1>2, Appended
  <2>2. whole = Len(frames)
    BY <1>2 DEF PollWrite, whole, WriterInPlace
  <2>3. WireSize(Last)' > 0
    <3>1. Last'.size \in Nat
      BY <2>1, Sizes DEF Least
    <3> QED
      BY <3>1, Sizes DEF WireSize
  <2>4. pending' /\ offset' = 0 /\ link' = link
    BY <1>2 DEF PollWrite
  <2>5. whole' = Len(frames)
    BY <1>a, <2>1, <2>3, <2>4 DEF whole
  <2>6. writtenBar' = writtenBar
    <3>1. writtenBar' = PlainEnd(Len(frames))
      BY <1>a, <2>1, <2>5 DEF writtenBar, PlainEnd
    <3> QED
      BY <2>2, <3>1 DEF writtenBar
  <2> QED
    BY <2>4, <2>6 DEF writerBar
<1>3. ASSUME NEW k \in 1..PipeSize, WriteInner(k)
      PROVE  [Pipe!Next]_Pipe!vars
  <2>1. /\ pending /\ UNCHANGED <<frames, pending, link>> /\ link = "open"
        /\ offset' = offset + k /\ offset + k <= WireSize(Last) /\ offset \in Nat
    BY <1>3 DEF WriteInner, TypeOK
  <2>2. WireSize(Last)' = WireSize(Last) /\ \A i \in 0..Len(frames) : PlainEnd(i)' = PlainEnd(i)
    BY <2>1 DEF WireSize, Last, PlainEnd
  <2>3. writtenBar = PlainEnd(Len(frames) - 1)
    BY <1>a, <1>b, <2>1 DEF writtenBar, whole
  <2>4. CASE offset + k < WireSize(Last)
    <3>1. whole' = whole
      BY <2>1, <2>2, <2>4, <1>b DEF whole
    <3>2. writtenBar' = writtenBar
      BY <2>1, <3>1 DEF writtenBar, PlainEnd
    <3> QED
      BY <1>1, <2>1, <3>2 DEF writerBar
  <2>5. CASE offset + k = WireSize(Last)
    <3>1. whole' = Len(frames)
      BY <2>1, <2>2, <2>5, <1>b DEF whole
    <3>2. writtenBar' = PlainEnd(Len(frames))
      BY <2>1, <3>1 DEF writtenBar, PlainEnd
    <3>3. Last.first \in Nat /\ Last.size \in Nat \ {0}
      BY <1>b, <2>1, Sizes DEF Frame
    <3>4. writtenBar' \in Nat /\ writtenBar' > writtenBar
      BY <1>b, <2>1, <2>3, <3>2, <3>3
    <3>5. writerBar = "open" /\ writerBar' = writerBar
      BY <2>1 DEF writerBar
    <3> QED
      BY <1>c, <3>4, <3>5 DEF Pipe!Next, Pipe!Write
  <2> QED
    BY <1>b, <2>1, <2>4, <2>5
<1>4. ASSUME UNCHANGED frames, offset' = offset, pending' = pending
      PROVE  writtenBar' = writtenBar
  BY <1>4 DEF writtenBar, whole, PlainEnd, Last, WireSize
<1>5. ASSUME UNCHANGED frames, pending => offset = WireSize(Last), pending' = FALSE
      PROVE  writtenBar' = writtenBar
  <2>1. whole = Len(frames) /\ whole' = Len(frames)
    BY <1>a, <1>b, <1>5 DEF whole
  <2> QED
    BY <1>5, <2>1 DEF writtenBar, PlainEnd
<1>6. ASSUME UNCHANGED writtenBar, link = "open", link' # "open"
      PROVE  [Pipe!Next]_Pipe!vars
  BY <1>6, <1>c DEF Pipe!Next, Pipe!Close, writerBar
<1>7. CASE PollShutdown \/ \E n \in 1..MaxBuffer : PollWriteAgain(n)
  BY <1>1, <1>4, <1>7 DEF PollShutdown, PollWriteAgain, writerBar
<1>8. CASE FinishWrite
  BY <1>1, <1>5, <1>8 DEF FinishWrite, writerBar
<1>9. CASE ShutdownInner
  BY <1>5, <1>6, <1>9 DEF ShutdownInner, WriterInPlace
<1>10. CASE DropStream
  BY <1>4, <1>6, <1>10 DEF DropStream, WriterInPlace
<1> QED
  BY <1>1, <1>2, <1>3, <1>7, <1>8, <1>9, <1>10 DEF WriterStep

\* A poll of the reader reads from the pipe, sees its end or fails, or does
\* nothing that its caller could tell.
LEMMA ReaderRefines ==
    ASSUME IInv, ReaderStep
    PROVE  [Pipe!Next]_Pipe!vars
<1> USE DEF IInv
<1>a. UNCHANGED <<writtenBar, writerBar>>
  <2>1. UNCHANGED writerVars
    BY DEF ReaderStep, ReadHeader, ReadLength, ReadBody, Decrypt, Deliver,
           EndOfStream, ReadFails
  <2> QED
    BY <2>1 DEF writerVars, writtenBar, writerBar, whole, PlainEnd, Last, WireSize
<1>b. reader = "open"
  BY DEF ReaderStep, Reading, ReadHeader, ReadLength, ReadBody, Decrypt,
         Deliver, EndOfStream, ReadFails
<1>1. ASSUME UNCHANGED <<received, reader>>
      PROVE  [Pipe!Next]_Pipe!vars
  BY <1>1, <1>a DEF Pipe!vars
<1>2. CASE (\E j \in 1..HeaderSize : ReadHeader(j)) \/ (\E j \in 1..MaxCiphertextFrame : ReadBody(j))
  BY <1>1, <1>2 DEF ReadHeader, ReadBody
<1>3. CASE ReadLength
  BY <1>1, <1>3, <1>b, LengthIsGenuine DEF ReadLength
<1>4. CASE Decrypt
  BY <1>1, <1>4, <1>b, BodyIsGenuine DEF Decrypt
<1>5. ASSUME NEW n \in 1..MaxBuffer, Deliver(n)
      PROVE  [Pipe!Next]_Pipe!vars
  <2> DEFINE count == Least(plain_left, n)
  <2>1. count \in 1..plain_left /\ plain_left \in Nat
    BY <1>5, Sizes DEF Least, Deliver, TypeOK
  <2>2. received' = received \o Bytes(plain_first, count) /\ reader' = reader /\ plain_left > 0
    BY <1>5 DEF Deliver
  <2>3. plain_first = Len(received)
    BY <2>2 DEF ReaderInPlace
  <2>4. Len(received) + plain_left = PlainEnd(decrypted) /\ Len(received) \in Nat
    BY LenProperties DEF ReaderInPlace, TypeOK
  <2>5. count \in 1 .. writtenBar - Len(received)
    <3>1. PlainEnd(decrypted) <= writtenBar /\ writtenBar \in Nat /\ PlainEnd(decrypted) \in Nat
      BY DecryptedAreWhole DEF writtenBar
    <3> HIDE DEF count
    <3> QED
      BY <2>1, <2>4, <3>1
  <2> HIDE DEF count
  <2>6. received' = received \o [i \in 1..count |-> Len(received) + i]
    BY <2>2, <2>3 DEF Bytes
  <2> QED
    BY <1>a, <1>b, <2>2, <2>5, <2>6 DEF Pipe!Next, Pipe!Read
<1>6. CASE EndOfStream
  <2>1. /\ plain_left = 0 /\ link = "fin" /\ taken = sent
        /\ read_header_filled = HeaderSize => read_body > read_body_filled
        /\ reader' = IF read_header_filled = 0 THEN "eof" ELSE "error"
        /\ received' = received
    BY <1>6 DEF EndOfStream, Reading
  <2>2. writerBar = "closed"
    BY <2>1 DEF writerBar
  <2>3. read_header_filled = 0 => decrypted = whole
    BY <2>1, ReaderAtEnd
  <2>4. Len(received) = PlainEnd(decrypted)
    BY <2>1, DecryptedAreWhole, LenProperties DEF ReaderInPlace, TypeOK
  <2>5. CASE read_header_filled = 0
    BY <1>a, <1>b, <2>1, <2>2, <2>3, <2>4, <2>5 DEF Pipe!Next, Pipe!End, writtenBar
  <2>6. CASE read_header_filled # 0
    BY <1>a, <1>b, <2>1, <2>2, <2>6 DEF Pipe!Next, Pipe!Fail
  <2> QED
    BY <2>5, <2>6
<1>7. CASE ReadFails
  <2>1. writerBar = "closed" /\ reader' = "error" /\ received' = received
    BY <1>7 DEF ReadFails, writerBar
  <2> QED
    BY <1>a, <1>b, <2>1 DEF Pipe!Next, Pipe!Fail
<1> QED
  BY <1>2, <1>3, <1>4, <1>5, <1>6, <1>7 DEF ReaderStep

\* The two ends of a NoiseStream have an ordered byte pipe between them, for
\* every size of frames, buffers and connection.
THEOREM Refinement == Spec => PipeKept
<1>1. Init => Pipe!Init
  <2>1. Init => Len(frames) = 0
    BY EmptySeq DEF Init
  <2> QED
    BY <2>1 DEF Init, Pipe!Init, writtenBar, writerBar, whole, PlainEnd
<1>2. IInv /\ [Next]_vars => [Pipe!Next]_Pipe!vars
  <2> SUFFICES ASSUME IInv, [Next]_vars
               PROVE  [Pipe!Next]_Pipe!vars
    OBVIOUS
  <2>1. CASE UNCHANGED vars
    BY <2>1 DEF vars, writerVars, readerVars, Pipe!vars, writtenBar, writerBar,
                whole, PlainEnd, Last, WireSize
  <2> QED
    BY <2>1, WriterRefines, ReaderRefines DEF Next, Quiet
<1> QED
  BY <1>1, <1>2, Invariant, PTL DEF Spec, PipeKept, Pipe!Spec
=============================================================================
