------------------------ MODULE ControlChannel_proofs ------------------------
EXTENDS ControlChannel, SequenceTheorems, TLAPS

-----------------------------------------------------------------------------
(* The inductive invariant.                                                *)

\* Who has a frame in hand has one.
HeldFrames ==
    /\ \A e \in Ends : reader[e] = "full" => in_hand[e] \in Frames
    /\ loop["relay"] = "send" => sending \in Frames
    /\ writer = "writing" => writing \in Frames

\* The part that reader state r takes next.
Expected(r) == IF r = "payload" THEN "payload" ELSE "length"

\* Lengths and payloads alternate in q, from the one that r takes next on.
Alternate(q, r) ==
    /\ q # <<>> => q[1].part = Expected(r)
    /\ \A i \in 1 .. Len(q) - 1 : q[i].part # q[i + 1].part

\* The last frame of which a part was put into q lacks its payload.
HalfWritten(q, r) ==
    IF q = <<>> THEN Expected(r) = "payload" ELSE q[Len(q)].part = "length"

Aligned(e) ==
    /\ Alternate(wire[e], reader[e])
    /\ Running(Peer(e)) => (parts[Peer(e)] = 1 <=> HalfWritten(wire[e], reader[e]))

Alignment ==
    \A e \in Ends :
        Running(e) /\ e \notin lost /\ ~reset /\ reader[e] # "ended" => Aligned(e)

\* A frame that the agent has read, and that will count as a sign of life.
SignWaiting == frame_rx["agent"] # <<>> \/ reader["agent"] = "full"

\* At most so long the agent has been in the Ping it is writing, or in the one
\* that it has written since the last tick.
PingTime ==
    IF loop["agent"] = "ping" THEN write_age["agent"]
    ELSE IF ping_age = 0 THEN WriteTimeout ELSE 0

\* One Ping can keep a frame waiting, frame_age counts from when that frame is
\* taken, and one more Ping can keep the loop from seeing the deadline.
AgentInTime ==
    /\ loop["agent"] # "send"
    /\ loop["agent"] = "select" => write_age["agent"] = 0
    /\ "agent" \notin lost => lost_age["agent"] = 0
    /\ heartbeat["agent"] =>
          /\ loop["agent"] = "over" => lost_age["agent"] <= DeadAfter + 2 * WriteTimeout
          /\ loop["agent"] \in {"select", "ping"} =>
                lost_age["agent"] <=
                    IF SignWaiting THEN PingTime
                    ELSE IF frame_age["agent"] < DeadAfter
                         THEN WriteTimeout + frame_age["agent"]
                         ELSE WriteTimeout + DeadAfter + PingTime

\* The frames that the relay has read, and that will count.
Signs == Len(frame_rx["relay"]) + IF reader["relay"] = "full" THEN 1 ELSE 0

\* At most so long the relay has waited for the write that keeps it.
SendTime ==
    IF loop["relay"] = "send" /\ writer = "writing" /\ Len(writer_rx) = Capacity
    THEN write_age["relay"] ELSE WriteTimeout

\* The writes of Opens it has forwarded and of Pongs it has sent.
Spent == forwarded - forwarded_before + Capacity + 1 - Signs

SpentTime == WriteTimeout * Spent

\* The relay spends time on writes, or counts it in frame_age.
Allowed ==
    IF Signs > 0 THEN SpentTime + SendTime
    ELSE IF frame_age["relay"] < DeadAfter THEN SpentTime + frame_age["relay"]
    ELSE SpentTime + DeadAfter + SendTime

RelayInTime ==
    /\ loop["relay"] # "ping"
    /\ "relay" \notin lost => lost_age["relay"] = 0
    /\ heartbeat["relay"] =>
          /\ loop["relay"] = "over" =>
                lost_age["relay"] <= DeadAfter + WriteTimeout * Writes("relay")
          /\ loop["relay"] \in {"select", "send"} => lost_age["relay"] <= Allowed

IInv ==
    /\ TypeOK /\ HeldFrames /\ FramesStayAligned /\ Alignment
    /\ AgentInTime /\ RelayInTime

-----------------------------------------------------------------------------
LEMMA FramesFacts ==
    /\ Ping \in Frames /\ Pong \in Frames
    /\ \A n \in 1..MaxOpens : Open(n) \in Frames
    /\ \A f \in Frames : f.kind = "open" => f.session \in 1..MaxOpens
<1>1. Ping \in Frames /\ Pong \in Frames
  BY DEF Frames
<1>2. ASSUME NEW n \in 1..MaxOpens
      PROVE  Open(n) \in Frames
  BY DEF Frames
<1>3. ASSUME NEW f \in Frames, f.kind = "open"
      PROVE  f.session \in 1..MaxOpens
  BY <1>3 DEF Frames, Ping, Pong, Open
<1> QED
  BY <1>1, <1>2, <1>3

LEMMA Sizes ==
    /\ Latency \in Nat /\ MaxOpens \in Nat
    /\ PingInterval \in Nat \ {0} /\ DeadAfter \in Nat \ {0}
    /\ WriteTimeout \in Nat \ {0} /\ Capacity \in Nat \ {0} /\ WireSize \in Nat \ {0}
<1>1. /\ Latency \in Nat /\ MaxOpens \in Nat
      /\ PingInterval \in Nat \ {0} /\ DeadAfter \in Nat \ {0}
      /\ WriteTimeout \in Nat \ {0} /\ Capacity \in Nat \ {0} /\ WireSize \in Nat \ {0}
  BY TimingAssumption
<1> QED
  BY <1>1

\* The time of n writes.
LEMMA Costs ==
    /\ \A n \in Nat : /\ WriteTimeout * n \in Nat
                     /\ WriteTimeout * (n + 1) = WriteTimeout * n + WriteTimeout
    /\ \A m, n \in Nat : m <= n => WriteTimeout * m <= WriteTimeout * n
<1> DEFINE W == WriteTimeout
<1>1. W \in Nat
  BY Sizes
<1> HIDE DEF W
<1>2. \A n \in Nat : W * n \in Nat /\ W * (n + 1) = W * n + W
  BY <1>1
<1>3. \A m, n \in Nat : m <= n => W * m <= W * n
  <2> SUFFICES ASSUME NEW m \in Nat, NEW n \in Nat, m <= n
               PROVE  W * m <= W * n
    OBVIOUS
  <2>1. n - m \in Nat /\ W * (n - m) \in Nat
    BY <1>2
  <2>2. W * (n - m) = W * n - W * m /\ W * n \in Nat /\ W * m \in Nat
    BY <1>1, <1>2
  <2> QED
    BY <2>1, <2>2
<1> QED
  BY <1>2, <1>3 DEF W

LEMMA LostAges == MaxLostAge \in Nat \ {0}
<1>1. MaxOpens + Capacity + 2 \in Nat
  BY Sizes
<1>2. WriteTimeout * (MaxOpens + Capacity + 2) \in Nat
  BY <1>1, Costs
<1> QED
  BY <1>2, Sizes DEF MaxLostAge

\* Taking from and adding to a channel.
LEMMA TakeOne ==
    ASSUME NEW S, NEW q \in Seq(S), q # <<>>
    PROVE  Head(q) \in S /\ Tail(q) \in Seq(S) /\ Len(Tail(q)) = Len(q) - 1 /\ Len(q) \in Nat \ {0}
BY HeadTailProperties, LenProperties, EmptySeq

LEMMA AddOne ==
    ASSUME NEW S, NEW q \in Seq(S), NEW x \in S
    PROVE  Append(q, x) \in Seq(S) /\ Len(Append(q, x)) = Len(q) + 1 /\ Len(q) \in Nat
BY AppendProperties, LenProperties

\* Each end is the other's peer.
LEMMA Peers ==
    /\ "agent" \in Ends /\ "relay" \in Ends
    /\ \A e \in Ends : Peer(e) \in Ends /\ Peer(e) # e /\ Peer(Peer(e)) = e
BY DEF Ends, Peer

LEMMA WireHead ==
    ASSUME WireType
    PROVE  \A e \in Ends : wire[e] # <<>> => Head(wire[e]) \in Part /\ Head(wire[e]).frame \in Frames
<1> SUFFICES ASSUME NEW e \in Ends, wire[e] # <<>>
             PROVE  Head(wire[e]) \in Part /\ Head(wire[e]).frame \in Frames
  OBVIOUS
<1>1. wire[e] \in Seq(Part)
  BY DEF WireType
<1>2. Head(wire[e]) \in Part
  BY <1>1, TakeOne
<1> QED
  BY <1>2 DEF Part

\* A part put on the wire keeps the types of both.
LEMMA PutPartType ==
    ASSUME WireType, WriteType, NEW e \in Ends, NEW frame \in Frames, PutPart(e, frame)
    PROVE  WireType' /\ WriteType'
<1> USE Sizes
<1>1. Peer(e) \in Ends /\ wire[Peer(e)] \in Seq(Part) /\ Len(wire[Peer(e)]) < WireSize
  BY DEF WireType, Peer, Ends, PutPart, Room
<1> DEFINE part == [part |-> IF parts[e] = 0 THEN "length" ELSE "payload",
                    frame |-> frame, age |-> 0]
           more == Append(wire[Peer(e)], part)
<1>2. part \in Part
  BY DEF Part
<1>3. more \in Seq(Part) /\ Len(more) <= WireSize
  <2>1. more \in Seq(Part) /\ Len(more) = Len(wire[Peer(e)]) + 1 /\ Len(wire[Peer(e)]) \in Nat
    BY <1>1, <1>2, AddOne
  <2> QED
    BY <2>1, <1>1
<1>4. wire' = [wire EXCEPT ![Peer(e)] = more] \/ UNCHANGED wire
  BY DEF PutPart
<1> HIDE DEF more
<1>5. WireType'
  BY <1>1, <1>3, <1>4 DEF WireType
<1>6. WriteType'
  BY DEF PutPart, WriteType
<1> QED
  BY <1>5, <1>6

LEMMA TypeStep == TypeOK /\ HeldFrames /\ [Next]_vars => TypeOK'
<1> SUFFICES ASSUME TypeOK, HeldFrames, [Next]_vars
             PROVE  TypeOK'
  OBVIOUS
<1> USE Sizes, LostAges
<1>t. /\ LoopType /\ ReaderType /\ ChannelType /\ WireType /\ WriteType
      /\ WriterType /\ QueueType /\ OpensType /\ NetType
  BY DEF TypeOK
<1>a. ASSUME UNCHANGED <<heartbeat, loop, frame_age, ping_age>>
      PROVE  LoopType'
  BY <1>a, <1>t DEF LoopType
<1>b. ASSUME UNCHANGED <<reader, in_hand>>
      PROVE  ReaderType'
  BY <1>b, <1>t DEF ReaderType
<1>c. ASSUME UNCHANGED <<frame_rx>>
      PROVE  ChannelType'
  BY <1>c, <1>t DEF ChannelType
<1>d. ASSUME UNCHANGED <<wire>>
      PROVE  WireType'
  BY <1>d, <1>t DEF WireType
<1>e. ASSUME UNCHANGED <<parts, write_age>>
      PROVE  WriteType'
  BY <1>e, <1>t DEF WriteType
<1>f. ASSUME UNCHANGED <<sending, writer, writing>>
      PROVE  WriterType'
  BY <1>f, <1>t DEF WriterType
<1>g. ASSUME UNCHANGED <<writer_rx>>
      PROVE  QueueType'
  BY <1>g, <1>t DEF QueueType
<1>h. ASSUME UNCHANGED <<asked, forwarded, forwarded_before, started>>
      PROVE  OpensType'
  BY <1>h, <1>t DEF OpensType
<1>i. ASSUME UNCHANGED <<stopped, lost, lost_age, forwarded_before, reset>>
      PROVE  NetType'
  BY <1>i, <1>t DEF NetType
<1>0. CASE UNCHANGED vars
  BY <1>0, <1>a, <1>b, <1>c, <1>d, <1>e, <1>f, <1>g, <1>h, <1>i DEF TypeOK, vars, agentVars, relayVars, readerVars, writeVars, netVars
<1>1. ASSUME NEW e \in Ends, CleanUp(e)
      PROVE  TypeOK'
  <2>1. /\ <<>> \in Seq(Frames) /\ <<>> \in Seq(Part)
      /\ Len(<<>>) = 0 /\ Len(<<>>) <= Capacity /\ Len(<<>>) <= WireSize
    BY EmptySeq
  <2>2. LoopType'
    BY <1>1, <1>t DEF CleanUp, LoopType, agentVars
  <2>3. ReaderType'
    BY <1>1, <1>t, <2>1 DEF CleanUp, ReaderType, readerVars
  <2>4. ChannelType'
    BY <1>1, <1>t, <2>1 DEF CleanUp, ChannelType
  <2>5. WireType'
    BY <1>1, <1>t, <2>1 DEF CleanUp, WireType
  <2>6. WriteType'
    BY <1>1, <1>t, <2>1 DEF CleanUp, WriteType, writeVars
  <2>7. WriterType'
    BY <1>1, <1>t, <2>1 DEF CleanUp, WriterType, relayVars
  <2>8. QueueType'
    BY <1>1, <1>t, <2>1 DEF CleanUp, QueueType, relayVars
  <2>9. UNCHANGED <<asked, forwarded, started, stopped, lost, lost_age, forwarded_before, reset>>
    BY <1>1 DEF CleanUp, agentVars, relayVars, readerVars, writeVars, netVars
  <2> QED
    BY <2>2, <2>3, <2>4, <2>5, <2>6, <2>7, <2>8, <2>9, <1>h, <1>i DEF TypeOK
<1>2. ASSUME NEW e \in Ends, HandOver(e)
      PROVE  TypeOK'
  <2>1. frame_rx[e] \in Seq(Frames) /\ in_hand[e] \in Frames
    BY <1>2, <1>t, FramesFacts DEF HandOver, ChannelType, HeldFrames
  <2>2. /\ Append(frame_rx[e], in_hand[e]) \in Seq(Frames) /\ Len(frame_rx[e]) \in Nat
      /\ Len(Append(frame_rx[e], in_hand[e])) = Len(frame_rx[e]) + 1
    BY <2>1, AddOne
  <2>3. ReaderType'
    BY <1>2, <1>t, <2>1, <2>2 DEF HandOver, ReaderType, readerVars
  <2>4. ChannelType'
    BY <1>2, <1>t, <2>1, <2>2 DEF HandOver, ChannelType
  <2>5. UNCHANGED <<heartbeat, loop, frame_age, ping_age, wire, parts, write_age, sending, writer, writing, writer_rx, asked, forwarded, started, stopped, lost, lost_age, forwarded_before, reset>>
    BY <1>2 DEF HandOver, agentVars, relayVars, readerVars, writeVars, netVars
  <2> QED
    BY <2>3, <2>4, <2>5, <1>a, <1>d, <1>e, <1>f, <1>g, <1>h, <1>i DEF TypeOK
<1>3. ASSUME NEW e \in Ends, ReaderGone(e)
      PROVE  TypeOK'
  <2>1. LoopType'
    BY <1>3, <1>t DEF ReaderGone, Break, LoopType, agentVars
  <2>2. UNCHANGED <<reader, in_hand, frame_rx, wire, parts, write_age, sending, writer, writing, writer_rx, asked, forwarded, started, stopped, lost, lost_age, forwarded_before, reset>>
    BY <1>3 DEF ReaderGone, agentVars, relayVars, readerVars, writeVars, netVars
  <2> QED
    BY <2>1, <2>2, <1>b, <1>c, <1>d, <1>e, <1>f, <1>g, <1>h, <1>i DEF TypeOK
<1>4. ASSUME NEW e \in Ends, HeartbeatMissed(e)
      PROVE  TypeOK'
  <2>1. LoopType'
    BY <1>4, <1>t DEF HeartbeatMissed, Break, LoopType, agentVars
  <2>2. UNCHANGED <<reader, in_hand, frame_rx, wire, parts, write_age, sending, writer, writing, writer_rx, asked, forwarded, started, stopped, lost, lost_age, forwarded_before, reset>>
    BY <1>4 DEF HeartbeatMissed, agentVars, relayVars, readerVars, writeVars, netVars
  <2> QED
    BY <2>1, <2>2, <1>b, <1>c, <1>d, <1>e, <1>f, <1>g, <1>h, <1>i DEF TypeOK
<1>5. ASSUME NEW e \in Ends, Read(e)
      PROVE  TypeOK'
  <2>1. wire[e] \in Seq(Part) /\ wire[e] # <<>>
    BY <1>5, <1>t, FramesFacts DEF Read, WireType, Ends
  <2>2. /\ Head(wire[e]) \in Part /\ Tail(wire[e]) \in Seq(Part)
      /\ Len(Tail(wire[e])) = Len(wire[e]) - 1 /\ Len(wire[e]) \in Nat
    BY <2>1, TakeOne
  <2>3. Head(wire[e]).frame \in Frames
    BY <2>2 DEF Part
  <2>4. ReaderType'
    BY <1>5, <1>t, <2>1, <2>2, <2>3 DEF Read, ReaderType, readerVars
  <2>5. WireType'
    BY <1>5, <1>t, <2>1, <2>2, <2>3 DEF Read, WireType
  <2>6. UNCHANGED <<heartbeat, loop, frame_age, ping_age, frame_rx, parts, write_age, sending, writer, writing, writer_rx, asked, forwarded, started, stopped, lost, lost_age, forwarded_before, reset>>
    BY <1>5 DEF Read, agentVars, relayVars, readerVars, writeVars, netVars
  <2> QED
    BY <2>4, <2>5, <2>6, <1>a, <1>c, <1>e, <1>f, <1>g, <1>h, <1>i DEF TypeOK
<1>6. ASSUME NEW e \in Ends, ReadFails(e)
      PROVE  TypeOK'
  <2>1. ReaderType'
    BY <1>6, <1>t DEF ReadFails, ReaderType, readerVars
  <2>2. UNCHANGED <<heartbeat, loop, frame_age, ping_age, frame_rx, wire, parts, write_age, sending, writer, writing, writer_rx, asked, forwarded, started, stopped, lost, lost_age, forwarded_before, reset>>
    BY <1>6 DEF ReadFails, agentVars, relayVars, readerVars, writeVars, netVars
  <2> QED
    BY <2>1, <2>2, <1>a, <1>c, <1>d, <1>e, <1>f, <1>g, <1>h, <1>i DEF TypeOK
<1>7. ASSUME NEW e \in Ends, Lose(e)
      PROVE  TypeOK'
  <2>1. WireType'
    BY <1>7, <1>t, EmptySeq DEF Lose, WireType
  <2>2. NetType'
    BY <1>7, <1>t DEF Lose, NetType, netVars
  <2>3. UNCHANGED <<heartbeat, loop, frame_age, ping_age, reader, in_hand, frame_rx, parts, write_age, sending, writer, writing, writer_rx, asked, forwarded, started>>
    BY <1>7 DEF Lose, agentVars, relayVars, readerVars, writeVars, netVars
  <2>4. OpensType'
    BY <1>7, <1>t, <2>3 DEF Lose, OpensType
  <2> QED
    BY <2>1, <2>2, <2>3, <2>4, <1>a, <1>b, <1>c, <1>e, <1>f, <1>g DEF TypeOK
<1>8. CASE StartPing
  <2>1. LoopType'
    BY <1>8, <1>t DEF StartPing, LoopType, agentVars
  <2>2. UNCHANGED <<reader, in_hand, frame_rx, wire, parts, write_age, sending, writer, writing, writer_rx, asked, forwarded, started, stopped, lost, lost_age, forwarded_before, reset>>
    BY <1>8 DEF StartPing, agentVars, relayVars, readerVars, writeVars, netVars
  <2> QED
    BY <2>1, <2>2, <1>b, <1>c, <1>d, <1>e, <1>f, <1>g, <1>h, <1>i DEF TypeOK
<1>9. CASE WritePing
  <2>1. WireType' /\ WriteType'
    BY <1>9, <1>t, FramesFacts, PutPartType DEF WritePing, HeldFrames, Ends
  <2>2. /\ loop' = loop \/ loop' = [loop EXCEPT !["agent"] = "select"]
      /\ ping_age' \in {ping_age, 0} /\ UNCHANGED <<heartbeat, frame_age>>
    BY <1>9 DEF WritePing
  <2>3. LoopType'
    BY <1>9, <1>t, <2>2 DEF LoopType, agentVars
  <2>4. UNCHANGED <<reader, in_hand, frame_rx, sending, writer, writing, writer_rx, asked, forwarded, started, stopped, lost, lost_age, forwarded_before, reset>>
    BY <1>9 DEF WritePing, agentVars, relayVars, readerVars, writeVars, netVars
  <2> QED
    BY <2>1, <2>3, <2>4, <1>b, <1>c, <1>f, <1>g, <1>h, <1>i DEF TypeOK
<1>10. CASE PingFails
  <2>1. LoopType'
    BY <1>10, <1>t DEF PingFails, Break, LoopType, agentVars
  <2>2. UNCHANGED <<reader, in_hand, frame_rx, wire, parts, write_age, sending, writer, writing, writer_rx, asked, forwarded, started, stopped, lost, lost_age, forwarded_before, reset>>
    BY <1>10 DEF PingFails, agentVars, relayVars, readerVars, writeVars, netVars
  <2> QED
    BY <2>1, <2>2, <1>b, <1>c, <1>d, <1>e, <1>f, <1>g, <1>h, <1>i DEF TypeOK
<1>11. CASE AgentReceive
  <2>1. frame_rx["agent"] \in Seq(Frames) /\ frame_rx["agent"] # <<>> /\ "agent" \in Ends /\ "relay" \in Ends
    BY <1>11, <1>t, FramesFacts DEF AgentReceive, ChannelType, Ends
  <2>2. /\ Head(frame_rx["agent"]) \in Frames /\ Tail(frame_rx["agent"]) \in Seq(Frames)
      /\ Len(Tail(frame_rx["agent"])) = Len(frame_rx["agent"]) - 1 /\ Len(frame_rx["agent"]) \in Nat
    BY <2>1, TakeOne
  <2>3. started' \in Seq(1..MaxOpens)
    BY <2>2, AddOne, <1>11, <1>t, FramesFacts DEF AgentReceive, OpensType
  <2>4. frame_age' = [frame_age EXCEPT !["agent"] = 0] /\ frame_age \in [Ends -> 0..DeadAfter]
    BY <1>11, <1>t DEF AgentReceive, LoopType
  <2>5. 0 \in 0..DeadAfter
    OBVIOUS
  <2>6. frame_age' \in [Ends -> 0..DeadAfter]
    BY <2>4, <2>5, Zenon
  <2>7. LoopType'
    BY <1>11, <1>t, <2>6 DEF AgentReceive, LoopType, agentVars
  <2>8. ChannelType'
    BY <1>11, <1>t, <2>1, <2>2, <2>3 DEF AgentReceive, ChannelType
  <2>9. OpensType'
    BY <1>11, <1>t, <2>1, <2>2, <2>3 DEF AgentReceive, OpensType, agentVars, relayVars, netVars
  <2>10. UNCHANGED <<reader, in_hand, wire, parts, write_age, sending, writer, writing, writer_rx, stopped, lost, lost_age, forwarded_before, reset>>
    BY <1>11 DEF AgentReceive, agentVars, relayVars, readerVars, writeVars, netVars
  <2> QED
    BY <2>7, <2>8, <2>9, <2>10, <1>b, <1>d, <1>e, <1>f, <1>g, <1>i DEF TypeOK
<1>12. CASE ForwardOpen
  <2>1. Open(forwarded + 1) \in Frames /\ writer_rx \in Seq(Frames)
    BY <1>12, <1>t, FramesFacts DEF ForwardOpen, HeldFrames, QueueType, OpensType
  <2>2. /\ Append(writer_rx, Open(forwarded + 1)) \in Seq(Frames) /\ Len(writer_rx) \in Nat
      /\ Len(Append(writer_rx, Open(forwarded + 1))) = Len(writer_rx) + 1
    BY <2>1, AddOne
  <2>3. LoopType'
    BY <1>12, <1>t DEF ForwardOpen, Send, Break, LoopType, agentVars
  <2>4. WriterType'
    BY <1>12, <1>t, <2>1, <2>2 DEF ForwardOpen, Send, Break, WriterType, relayVars
  <2>5. QueueType'
    BY <1>12, <1>t, <2>1, <2>2 DEF ForwardOpen, Send, Break, QueueType, relayVars
  <2>6. OpensType'
    BY <1>12, <1>t, <2>1, <2>2 DEF ForwardOpen, Send, Break, OpensType, agentVars, relayVars, netVars
  <2>7. UNCHANGED <<reader, in_hand, frame_rx, wire, parts, write_age, stopped, lost, lost_age, forwarded_before, reset>>
    BY <1>12 DEF ForwardOpen, agentVars, relayVars, readerVars, writeVars, netVars
  <2> QED
    BY <2>3, <2>4, <2>5, <2>6, <2>7, <1>b, <1>c, <1>d, <1>e, <1>i DEF TypeOK
<1>13. CASE RelayReceive
  <2>1. Pong \in Frames /\ writer_rx \in Seq(Frames)
    BY <1>13, <1>t, FramesFacts DEF RelayReceive, HeldFrames, QueueType, OpensType
  <2>2. /\ Append(writer_rx, Pong) \in Seq(Frames) /\ Len(writer_rx) \in Nat
      /\ Len(Append(writer_rx, Pong)) = Len(writer_rx) + 1
    BY <2>1, AddOne
  <2>3. frame_rx["relay"] \in Seq(Frames) /\ frame_rx["relay"] # <<>> /\ "agent" \in Ends /\ "relay" \in Ends
    BY <1>13, <1>t, FramesFacts DEF RelayReceive, ChannelType, Ends
  <2>4. /\ Head(frame_rx["relay"]) \in Frames /\ Tail(frame_rx["relay"]) \in Seq(Frames)
      /\ Len(Tail(frame_rx["relay"])) = Len(frame_rx["relay"]) - 1 /\ Len(frame_rx["relay"]) \in Nat
    BY <2>3, TakeOne
  <2>5. frame_age' = [frame_age EXCEPT !["relay"] = 0] /\ frame_age \in [Ends -> 0..DeadAfter]
    BY <1>13, <1>t DEF RelayReceive, LoopType
  <2>6. 0 \in 0..DeadAfter
    OBVIOUS
  <2>7. frame_age' \in [Ends -> 0..DeadAfter]
    BY <2>5, <2>6, Zenon
  <2>8. LoopType'
    BY <1>13, <1>t, <2>7 DEF RelayReceive, Send, Break, LoopType, agentVars
  <2>9. ChannelType'
    BY <1>13, <1>t, <2>1, <2>2, <2>3, <2>4 DEF RelayReceive, Send, Break, ChannelType
  <2>10. WriterType'
    BY <1>13, <1>t, <2>1, <2>2, <2>3, <2>4 DEF RelayReceive, Send, Break, WriterType, relayVars
  <2>11. QueueType'
    BY <1>13, <1>t, <2>1, <2>2, <2>3, <2>4, SMTT(30) DEF RelayReceive, Send, Break, QueueType, relayVars
  <2>12. UNCHANGED <<reader, in_hand, wire, parts, write_age, asked, forwarded, started, stopped, lost, lost_age, forwarded_before, reset>>
    BY <1>13 DEF RelayReceive, agentVars, relayVars, readerVars, writeVars, netVars
  <2> QED
    BY <2>8, <2>9, <2>10, <2>11, <2>12, <1>b, <1>d, <1>e, <1>h, <1>i DEF TypeOK
<1>14. CASE Sent
  <2>1. sending \in Frames /\ writer_rx \in Seq(Frames)
    BY <1>14, <1>t, FramesFacts DEF Sent, HeldFrames, QueueType, OpensType
  <2>2. /\ Append(writer_rx, sending) \in Seq(Frames) /\ Len(writer_rx) \in Nat
      /\ Len(Append(writer_rx, sending)) = Len(writer_rx) + 1
    BY <2>1, AddOne
  <2>3. LoopType'
    BY <1>14, <1>t DEF Sent, Break, LoopType, agentVars
  <2>4. WriterType'
    BY <1>14, <1>t, <2>1, <2>2 DEF Sent, Break, WriterType, relayVars
  <2>5. QueueType'
    BY <1>14, <1>t, <2>1, <2>2 DEF Sent, Break, QueueType, relayVars
  <2>6. UNCHANGED <<reader, in_hand, frame_rx, wire, parts, write_age, asked, forwarded, started, stopped, lost, lost_age, forwarded_before, reset>>
    BY <1>14 DEF Sent, agentVars, relayVars, readerVars, writeVars, netVars
  <2> QED
    BY <2>3, <2>4, <2>5, <2>6, <1>b, <1>c, <1>d, <1>e, <1>h, <1>i DEF TypeOK
<1>15. CASE WriterGone
  <2>1. LoopType'
    BY <1>15, <1>t DEF WriterGone, Break, LoopType, agentVars
  <2>2. UNCHANGED <<reader, in_hand, frame_rx, wire, parts, write_age, sending, writer, writing, writer_rx, asked, forwarded, started, stopped, lost, lost_age, forwarded_before, reset>>
    BY <1>15 DEF WriterGone, agentVars, relayVars, readerVars, writeVars, netVars
  <2> QED
    BY <2>1, <2>2, <1>b, <1>c, <1>d, <1>e, <1>f, <1>g, <1>h, <1>i DEF TypeOK
<1>16. CASE Replaced
  <2>1. LoopType'
    BY <1>16, <1>t DEF Replaced, Break, LoopType, agentVars
  <2>2. UNCHANGED <<reader, in_hand, frame_rx, wire, parts, write_age, sending, writer, writing, writer_rx, asked, forwarded, started, stopped, lost, lost_age, forwarded_before, reset>>
    BY <1>16 DEF Replaced, agentVars, relayVars, readerVars, writeVars, netVars
  <2> QED
    BY <2>1, <2>2, <1>b, <1>c, <1>d, <1>e, <1>f, <1>g, <1>h, <1>i DEF TypeOK
<1>17. CASE TakeFrame
  <2>1. writer_rx \in Seq(Frames) /\ writer_rx # <<>>
    BY <1>17, <1>t, FramesFacts DEF TakeFrame, QueueType, Ends
  <2>2. /\ Head(writer_rx) \in Frames /\ Tail(writer_rx) \in Seq(Frames)
      /\ Len(Tail(writer_rx)) = Len(writer_rx) - 1 /\ Len(writer_rx) \in Nat
    BY <2>1, TakeOne
  <2>3. WriterType'
    BY <1>17, <1>t, <2>1, <2>2 DEF TakeFrame, WriterType, relayVars
  <2>4. QueueType'
    BY <1>17, <1>t, <2>1, <2>2 DEF TakeFrame, QueueType, relayVars
  <2>5. UNCHANGED <<heartbeat, loop, frame_age, ping_age, reader, in_hand, frame_rx, wire, parts, write_age, asked, forwarded, started, stopped, lost, lost_age, forwarded_before, reset>>
    BY <1>17 DEF TakeFrame, agentVars, relayVars, readerVars, writeVars, netVars
  <2> QED
    BY <2>3, <2>4, <2>5, <1>a, <1>b, <1>c, <1>d, <1>e, <1>h, <1>i DEF TypeOK
<1>18. CASE WriteFrame
  <2>1. WireType' /\ WriteType'
    BY <1>18, <1>t, FramesFacts, PutPartType DEF WriteFrame, HeldFrames, Ends
  <2>2. WriterType'
    BY <1>18, <1>t, <2>1 DEF WriteFrame, PutPart, Room, WriterType, relayVars
  <2>3. UNCHANGED <<heartbeat, loop, frame_age, ping_age, reader, in_hand, frame_rx, writer_rx, asked, forwarded, started, stopped, lost, lost_age, forwarded_before, reset>>
    BY <1>18 DEF WriteFrame, agentVars, relayVars, readerVars, writeVars, netVars
  <2> QED
    BY <2>1, <2>2, <2>3, <1>a, <1>b, <1>c, <1>g, <1>h, <1>i DEF TypeOK
<1>19. CASE WriterFails
  <2>1. WriterType'
    BY <1>19, <1>t DEF WriterFails, WriterType, relayVars
  <2>2. UNCHANGED <<heartbeat, loop, frame_age, ping_age, reader, in_hand, frame_rx, wire, parts, write_age, writer_rx, asked, forwarded, started, stopped, lost, lost_age, forwarded_before, reset>>
    BY <1>19 DEF WriterFails, agentVars, relayVars, readerVars, writeVars, netVars
  <2> QED
    BY <2>1, <2>2, <1>a, <1>b, <1>c, <1>d, <1>e, <1>g, <1>h, <1>i DEF TypeOK
<1>20. CASE AskOpen
  <2>1. OpensType'
    BY <1>20, <1>t DEF AskOpen, OpensType, agentVars, relayVars, netVars
  <2>2. UNCHANGED <<heartbeat, loop, frame_age, ping_age, reader, in_hand, frame_rx, wire, parts, write_age, sending, writer, writing, writer_rx, stopped, lost, lost_age, forwarded_before, reset>>
    BY <1>20 DEF AskOpen, agentVars, relayVars, readerVars, writeVars, netVars
  <2> QED
    BY <2>1, <2>2, <1>a, <1>b, <1>c, <1>d, <1>e, <1>f, <1>g, <1>i DEF TypeOK
<1>21. CASE StopDevice
  <2>1. NetType'
    BY <1>21, <1>t DEF StopDevice, NetType, netVars
  <2>2. UNCHANGED <<heartbeat, loop, frame_age, ping_age, reader, in_hand, frame_rx, wire, parts, write_age, sending, writer, writing, writer_rx, asked, forwarded, forwarded_before, started>>
    BY <1>21 DEF StopDevice, agentVars, relayVars, readerVars, writeVars, netVars
  <2> QED
    BY <2>1, <2>2, <1>a, <1>b, <1>c, <1>d, <1>e, <1>f, <1>g, <1>h DEF TypeOK
<1>22. CASE Reset
  <2>1. WireType'
    BY <1>22, <1>t, EmptySeq DEF Reset, WireType
  <2>2. NetType'
    BY <1>22, <1>t DEF Reset, NetType, netVars
  <2>3. UNCHANGED <<heartbeat, loop, frame_age, ping_age, reader, in_hand, frame_rx, parts, write_age, sending, writer, writing, writer_rx, asked, forwarded, forwarded_before, started>>
    BY <1>22 DEF Reset, agentVars, relayVars, readerVars, writeVars, netVars
  <2> QED
    BY <2>1, <2>2, <2>3, <1>a, <1>b, <1>c, <1>e, <1>f, <1>g, <1>h DEF TypeOK
<1>23. CASE Tick
  <2>1. ASSUME NEW e \in Ends
      PROVE  wire'[e] \in Seq(Part) /\ Len(wire'[e]) <= WireSize
    <3> DEFINE aged == [i \in 1..Len(wire[e]) |->
                           [wire[e][i] EXCEPT !.age = Upto(Latency, @ + 1)]]
    <3>1. wire[e] \in Seq(Part) /\ Len(wire[e]) <= WireSize /\ Len(wire[e]) \in Nat
      BY <1>t, LenProperties DEF WireType
    <3>2. ASSUME NEW i \in 1..Len(wire[e])
          PROVE  aged[i] \in Part
      <4>1. wire[e][i] \in Part
        BY <3>1, ElementOfSeq
      <4>2. wire[e][i].age \in 0..Latency /\ Upto(Latency, wire[e][i].age + 1) \in 0..Latency
        BY <4>1 DEF Part, Upto
      <4>3. aged[i] = [wire[e][i] EXCEPT !.age = Upto(Latency, @ + 1)]
        OBVIOUS
      <4> QED
        BY <4>1, <4>2, <4>3 DEF Part
    <3>6. aged \in [1..Len(wire[e]) -> Part]
      BY <3>2
    <3>5. wire'[e] = aged
      BY <1>23 DEF Tick
    <3> HIDE DEF aged
    <3>3. aged \in Seq(Part)
      BY <3>1, <3>6
    <3>4. Len(aged) = Len(wire[e])
      BY <3>1, <3>3, <3>6, LenProperties
    <3> QED
      BY <3>1, <3>3, <3>4, <3>5
  <2>2. LoopType'
    BY <1>23, <1>t, SMTT(30) DEF Tick, Upto, LoopType, agentVars
  <2>3. WireType'
    BY <1>23, <1>t, <2>1 DEF Tick, Upto, WireType
  <2>4. WriteType'
    BY <1>23, <1>t, <2>1 DEF Tick, Upto, WriteType, writeVars
  <2>5. NetType'
    BY <1>23, <1>t DEF Tick, Upto, NetType, netVars
  <2>6. UNCHANGED <<reader, in_hand, frame_rx, sending, writer, writing, writer_rx, asked, forwarded, forwarded_before, started>>
    BY <1>23 DEF Tick, agentVars, relayVars, readerVars, writeVars, netVars
  <2> QED
    BY <2>2, <2>3, <2>4, <2>5, <2>6, <1>b, <1>c, <1>f, <1>g, <1>h DEF TypeOK
<1> QED
  BY <1>0, <1>1, <1>2, <1>3, <1>4, <1>5, <1>6, <1>7, <1>8, <1>9, <1>10, <1>11, <1>12, <1>13, <1>14, <1>15, <1>16, <1>17, <1>18, <1>19, <1>20, <1>21, <1>22, <1>23
     DEF Next, TaskStep, NetStep, Environment

-----------------------------------------------------------------------------
(* Frames in hand.                                                         *)

LEMMA HeldStep == TypeOK /\ HeldFrames /\ [Next]_vars => HeldFrames'
<1> SUFFICES ASSUME TypeOK, HeldFrames, [Next]_vars
             PROVE  HeldFrames'
  OBVIOUS
<1>t. /\ LoopType /\ ReaderType /\ WireType /\ WriterType /\ QueueType /\ OpensType
  BY DEF TypeOK
<1>a. ASSUME UNCHANGED readerVars
      PROVE  (\A e \in Ends : reader[e] = "full" => in_hand[e] \in Frames)'
  BY <1>a DEF HeldFrames, readerVars
<1>b. ASSUME UNCHANGED sending, loop'["relay"] = "send" => loop["relay"] = "send"
      PROVE  (loop["relay"] = "send" => sending \in Frames)'
  BY <1>b DEF HeldFrames
<1>c. ASSUME UNCHANGED writing, writer' = "writing" => writer = "writing"
      PROVE  (writer = "writing" => writing \in Frames)'
  BY <1>c DEF HeldFrames
<1>1. ASSUME NEW e \in Ends, CleanUp(e)
      PROVE  HeldFrames'
  <2>1. (\A i \in Ends : reader[i] = "full" => in_hand[i] \in Frames)'
    BY <1>1, <1>t DEF CleanUp, HeldFrames, ReaderType, readerVars
  <2>2. (loop["relay"] = "send" => sending \in Frames)'
    BY <1>1, <1>t, Peers DEF CleanUp, HeldFrames, LoopType, relayVars, Ends
  <2>3. (writer = "writing" => writing \in Frames)'
    BY <1>1, <1>t DEF CleanUp, HeldFrames, WriterType, QueueType, relayVars
  <2> QED
    BY <2>1, <2>2, <2>3 DEF HeldFrames
<1>2. ASSUME NEW e \in Ends, HandOver(e)
      PROVE  HeldFrames'
  <2>1. (\A i \in Ends : reader[i] = "full" => in_hand[i] \in Frames)'
    BY <1>2, <1>t DEF HandOver, HeldFrames, ReaderType, readerVars
  <2>2. UNCHANGED sending /\ (loop'["relay"] = "send" => loop["relay"] = "send")
    BY <1>2, <1>t DEF HandOver, relayVars, readerVars, Break, LoopType
  <2>3. UNCHANGED writing /\ (writer' = "writing" => writer = "writing")
    BY <1>2, <1>t DEF HandOver, relayVars, readerVars
  <2> QED
    BY <2>1, <2>2, <2>3, <1>b, <1>c DEF HeldFrames
<1>3. ASSUME NEW e \in Ends, ReaderGone(e)
      PROVE  HeldFrames'
  <2>1. UNCHANGED readerVars
    BY <1>3, <1>t DEF ReaderGone, relayVars, readerVars
  <2>2. UNCHANGED sending /\ (loop'["relay"] = "send" => loop["relay"] = "send")
    BY <1>3, <1>t DEF ReaderGone, relayVars, readerVars, Break, LoopType
  <2>3. UNCHANGED writing /\ (writer' = "writing" => writer = "writing")
    BY <1>3, <1>t DEF ReaderGone, relayVars, readerVars
  <2> QED
    BY <2>1, <2>2, <2>3, <1>a, <1>b, <1>c DEF HeldFrames
<1>4. ASSUME NEW e \in Ends, HeartbeatMissed(e)
      PROVE  HeldFrames'
  <2>1. UNCHANGED readerVars
    BY <1>4, <1>t DEF HeartbeatMissed, relayVars, readerVars
  <2>2. UNCHANGED sending /\ (loop'["relay"] = "send" => loop["relay"] = "send")
    BY <1>4, <1>t DEF HeartbeatMissed, relayVars, readerVars, Break, LoopType
  <2>3. UNCHANGED writing /\ (writer' = "writing" => writer = "writing")
    BY <1>4, <1>t DEF HeartbeatMissed, relayVars, readerVars
  <2> QED
    BY <2>1, <2>2, <2>3, <1>a, <1>b, <1>c DEF HeldFrames
<1>5. ASSUME NEW e \in Ends, Read(e)
      PROVE  HeldFrames'
  <2>1. (\A i \in Ends : reader[i] = "full" => in_hand[i] \in Frames)'
    BY <1>5, <1>t, WireHead DEF Read, HeldFrames, ReaderType, readerVars
  <2>2. UNCHANGED sending /\ (loop'["relay"] = "send" => loop["relay"] = "send")
    BY <1>5, <1>t DEF Read, relayVars, readerVars, Break, LoopType
  <2>3. UNCHANGED writing /\ (writer' = "writing" => writer = "writing")
    BY <1>5, <1>t DEF Read, relayVars, readerVars
  <2> QED
    BY <2>1, <2>2, <2>3, <1>b, <1>c DEF HeldFrames
<1>6. ASSUME NEW e \in Ends, ReadFails(e)
      PROVE  HeldFrames'
  <2>1. (\A i \in Ends : reader[i] = "full" => in_hand[i] \in Frames)'
    BY <1>6, <1>t DEF ReadFails, HeldFrames, ReaderType, readerVars
  <2>2. UNCHANGED sending /\ (loop'["relay"] = "send" => loop["relay"] = "send")
    BY <1>6, <1>t DEF ReadFails, relayVars, readerVars, Break, LoopType
  <2>3. UNCHANGED writing /\ (writer' = "writing" => writer = "writing")
    BY <1>6, <1>t DEF ReadFails, relayVars, readerVars
  <2> QED
    BY <2>1, <2>2, <2>3, <1>b, <1>c DEF HeldFrames
<1>7. ASSUME NEW e \in Ends, Lose(e)
      PROVE  HeldFrames'
  <2>1. UNCHANGED readerVars
    BY <1>7, <1>t DEF Lose, relayVars, readerVars
  <2>2. UNCHANGED sending /\ (loop'["relay"] = "send" => loop["relay"] = "send")
    BY <1>7, <1>t DEF Lose, relayVars, readerVars, Break, LoopType
  <2>3. UNCHANGED writing /\ (writer' = "writing" => writer = "writing")
    BY <1>7, <1>t DEF Lose, relayVars, readerVars
  <2> QED
    BY <2>1, <2>2, <2>3, <1>a, <1>b, <1>c DEF HeldFrames
<1>8. CASE StartPing
  <2>1. UNCHANGED readerVars
    BY <1>8, <1>t DEF StartPing, relayVars, readerVars
  <2>2. UNCHANGED sending /\ (loop'["relay"] = "send" => loop["relay"] = "send")
    BY <1>8, <1>t DEF StartPing, relayVars, readerVars, Break, LoopType
  <2>3. UNCHANGED writing /\ (writer' = "writing" => writer = "writing")
    BY <1>8, <1>t DEF StartPing, relayVars, readerVars
  <2> QED
    BY <2>1, <2>2, <2>3, <1>a, <1>b, <1>c DEF HeldFrames
<1>9. CASE WritePing
  <2>1. UNCHANGED readerVars
    BY <1>9, <1>t DEF WritePing, relayVars, readerVars
  <2>2. UNCHANGED sending /\ (loop'["relay"] = "send" => loop["relay"] = "send")
    BY <1>9, <1>t DEF WritePing, relayVars, readerVars, Break, LoopType
  <2>3. UNCHANGED writing /\ (writer' = "writing" => writer = "writing")
    BY <1>9, <1>t DEF WritePing, relayVars, readerVars
  <2> QED
    BY <2>1, <2>2, <2>3, <1>a, <1>b, <1>c DEF HeldFrames
<1>10. CASE PingFails
  <2>1. UNCHANGED readerVars
    BY <1>10, <1>t DEF PingFails, relayVars, readerVars
  <2>2. UNCHANGED sending /\ (loop'["relay"] = "send" => loop["relay"] = "send")
    BY <1>10, <1>t DEF PingFails, relayVars, readerVars, Break, LoopType
  <2>3. UNCHANGED writing /\ (writer' = "writing" => writer = "writing")
    BY <1>10, <1>t DEF PingFails, relayVars, readerVars
  <2> QED
    BY <2>1, <2>2, <2>3, <1>a, <1>b, <1>c DEF HeldFrames
<1>11. CASE AgentReceive
  <2>1. UNCHANGED readerVars
    BY <1>11, <1>t DEF AgentReceive, relayVars, readerVars
  <2>2. UNCHANGED sending /\ (loop'["relay"] = "send" => loop["relay"] = "send")
    BY <1>11, <1>t DEF AgentReceive, relayVars, readerVars, Break, LoopType
  <2>3. UNCHANGED writing /\ (writer' = "writing" => writer = "writing")
    BY <1>11, <1>t DEF AgentReceive, relayVars, readerVars
  <2> QED
    BY <2>1, <2>2, <2>3, <1>a, <1>b, <1>c DEF HeldFrames
<1>12. CASE ForwardOpen
  <2>0. Open(forwarded + 1) \in Frames
    BY <1>12, <1>t, FramesFacts, Sizes DEF ForwardOpen, OpensType
  <2>1. (loop["relay"] = "send" => sending \in Frames)'
    BY <1>12, <1>t, <2>0, Peers DEF ForwardOpen, Send, Break, HeldFrames, LoopType
  <2>2. UNCHANGED readerVars
    BY <1>12, <1>t DEF ForwardOpen, relayVars, readerVars
  <2>3. UNCHANGED writing /\ (writer' = "writing" => writer = "writing")
    BY <1>12, <1>t DEF ForwardOpen, relayVars, readerVars
  <2> QED
    BY <2>1, <2>2, <2>3, <1>a, <1>c DEF HeldFrames
<1>13. CASE RelayReceive
  <2>1. (loop["relay"] = "send" => sending \in Frames)'
    BY <1>13, <1>t, FramesFacts DEF RelayReceive, Send, Break, HeldFrames, LoopType
  <2>2. UNCHANGED readerVars
    BY <1>13, <1>t DEF RelayReceive, relayVars, readerVars
  <2>3. UNCHANGED writing /\ (writer' = "writing" => writer = "writing")
    BY <1>13, <1>t DEF RelayReceive, relayVars, readerVars
  <2> QED
    BY <2>1, <2>2, <2>3, <1>a, <1>c DEF HeldFrames
<1>14. CASE Sent
  <2>1. (loop["relay"] = "send" => sending \in Frames)'
    BY <1>14, <1>t, Peers DEF Sent, Break, HeldFrames, LoopType
  <2>2. UNCHANGED readerVars
    BY <1>14, <1>t DEF Sent, relayVars, readerVars
  <2>3. UNCHANGED writing /\ (writer' = "writing" => writer = "writing")
    BY <1>14, <1>t DEF Sent, relayVars, readerVars
  <2> QED
    BY <2>1, <2>2, <2>3, <1>a, <1>c DEF HeldFrames
<1>15. CASE WriterGone
  <2>1. UNCHANGED readerVars
    BY <1>15, <1>t DEF WriterGone, relayVars, readerVars
  <2>2. UNCHANGED sending /\ (loop'["relay"] = "send" => loop["relay"] = "send")
    BY <1>15, <1>t DEF WriterGone, relayVars, readerVars, Break, LoopType
  <2>3. UNCHANGED writing /\ (writer' = "writing" => writer = "writing")
    BY <1>15, <1>t DEF WriterGone, relayVars, readerVars
  <2> QED
    BY <2>1, <2>2, <2>3, <1>a, <1>b, <1>c DEF HeldFrames
<1>16. CASE Replaced
  <2>1. UNCHANGED readerVars
    BY <1>16, <1>t DEF Replaced, relayVars, readerVars
  <2>2. UNCHANGED sending /\ (loop'["relay"] = "send" => loop["relay"] = "send")
    BY <1>16, <1>t DEF Replaced, relayVars, readerVars, Break, LoopType
  <2>3. UNCHANGED writing /\ (writer' = "writing" => writer = "writing")
    BY <1>16, <1>t DEF Replaced, relayVars, readerVars
  <2> QED
    BY <2>1, <2>2, <2>3, <1>a, <1>b, <1>c DEF HeldFrames
<1>17. CASE TakeFrame
  <2>1. (writer = "writing" => writing \in Frames)'
    BY <1>17, <1>t, TakeOne DEF TakeFrame, HeldFrames, WriterType, QueueType, relayVars
  <2>2. UNCHANGED readerVars
    BY <1>17, <1>t DEF TakeFrame, relayVars, readerVars
  <2>3. UNCHANGED sending /\ (loop'["relay"] = "send" => loop["relay"] = "send")
    BY <1>17, <1>t DEF TakeFrame, relayVars, readerVars, Break, LoopType
  <2> QED
    BY <2>1, <2>2, <2>3, <1>a, <1>b DEF HeldFrames
<1>18. CASE WriteFrame
  <2>1. (writer = "writing" => writing \in Frames)'
    BY <1>18, <1>t DEF WriteFrame, HeldFrames, WriterType, QueueType, relayVars
  <2>2. UNCHANGED readerVars
    BY <1>18, <1>t DEF WriteFrame, relayVars, readerVars
  <2>3. UNCHANGED sending /\ (loop'["relay"] = "send" => loop["relay"] = "send")
    BY <1>18, <1>t DEF WriteFrame, relayVars, readerVars, Break, LoopType
  <2> QED
    BY <2>1, <2>2, <2>3, <1>a, <1>b DEF HeldFrames
<1>19. CASE WriterFails
  <2>1. (writer = "writing" => writing \in Frames)'
    BY <1>19, <1>t DEF WriterFails, HeldFrames, WriterType, QueueType, relayVars
  <2>2. UNCHANGED readerVars
    BY <1>19, <1>t DEF WriterFails, relayVars, readerVars
  <2>3. UNCHANGED sending /\ (loop'["relay"] = "send" => loop["relay"] = "send")
    BY <1>19, <1>t DEF WriterFails, relayVars, readerVars, Break, LoopType
  <2> QED
    BY <2>1, <2>2, <2>3, <1>a, <1>b DEF HeldFrames
<1>20. CASE AskOpen
  <2>1. UNCHANGED readerVars
    BY <1>20, <1>t DEF AskOpen, relayVars, readerVars
  <2>2. UNCHANGED sending /\ (loop'["relay"] = "send" => loop["relay"] = "send")
    BY <1>20, <1>t DEF AskOpen, relayVars, readerVars, Break, LoopType
  <2>3. UNCHANGED writing /\ (writer' = "writing" => writer = "writing")
    BY <1>20, <1>t DEF AskOpen, relayVars, readerVars
  <2> QED
    BY <2>1, <2>2, <2>3, <1>a, <1>b, <1>c DEF HeldFrames
<1>21. CASE StopDevice
  <2>1. UNCHANGED readerVars
    BY <1>21, <1>t DEF StopDevice, relayVars, readerVars
  <2>2. UNCHANGED sending /\ (loop'["relay"] = "send" => loop["relay"] = "send")
    BY <1>21, <1>t DEF StopDevice, relayVars, readerVars, Break, LoopType
  <2>3. UNCHANGED writing /\ (writer' = "writing" => writer = "writing")
    BY <1>21, <1>t DEF StopDevice, relayVars, readerVars
  <2> QED
    BY <2>1, <2>2, <2>3, <1>a, <1>b, <1>c DEF HeldFrames
<1>22. CASE Reset
  <2>1. UNCHANGED readerVars
    BY <1>22, <1>t DEF Reset, relayVars, readerVars
  <2>2. UNCHANGED sending /\ (loop'["relay"] = "send" => loop["relay"] = "send")
    BY <1>22, <1>t DEF Reset, relayVars, readerVars, Break, LoopType
  <2>3. UNCHANGED writing /\ (writer' = "writing" => writer = "writing")
    BY <1>22, <1>t DEF Reset, relayVars, readerVars
  <2> QED
    BY <2>1, <2>2, <2>3, <1>a, <1>b, <1>c DEF HeldFrames
<1>23. CASE Tick
  <2>1. UNCHANGED readerVars
    BY <1>23, <1>t DEF Tick, relayVars, readerVars
  <2>2. UNCHANGED sending /\ (loop'["relay"] = "send" => loop["relay"] = "send")
    BY <1>23, <1>t DEF Tick, relayVars, readerVars, Break, LoopType
  <2>3. UNCHANGED writing /\ (writer' = "writing" => writer = "writing")
    BY <1>23, <1>t DEF Tick, relayVars, readerVars
  <2> QED
    BY <2>1, <2>2, <2>3, <1>a, <1>b, <1>c DEF HeldFrames
<1>0. CASE UNCHANGED vars
  BY <1>0, <1>a, <1>b, <1>c DEF HeldFrames, vars, readerVars, relayVars
<1> QED
  BY <1>0, <1>1, <1>2, <1>3, <1>4, <1>5, <1>6, <1>7, <1>8, <1>9, <1>10, <1>11, <1>12, <1>13, <1>14, <1>15, <1>16, <1>17, <1>18, <1>19, <1>20, <1>21, <1>22, <1>23
     DEF Next, TaskStep, NetStep, Environment

-----------------------------------------------------------------------------
(* Lengths and payloads alternate.                                         *)

\* Taking the part the reader expects keeps the alternation, and whether a
\* payload is missing at the end.
LEMMA TakeAlternates ==
    ASSUME NEW q \in Seq(Part), q # <<>>, NEW r, NEW r2,
           Alternate(q, r), Expected(r2) # Expected(r)
    PROVE  Alternate(Tail(q), r2) /\ (HalfWritten(Tail(q), r2) <=> HalfWritten(q, r))
<1>1. /\ Tail(q) \in Seq(Part) /\ Len(q) \in Nat \ {0} /\ Len(Tail(q)) = Len(q) - 1
      /\ \A i \in 1 .. Len(q) - 1 : Tail(q)[i] = q[i + 1]
  BY HeadTailProperties, LenProperties, EmptySeq
<1>2. \A i \in 1 .. Len(q) : q[i].part \in {"length", "payload"}
  <2>1. \A i \in 1 .. Len(q) : q[i] \in Part
    BY ElementOfSeq
  <2> QED
    BY <2>1 DEF Part
<1>3. Tail(q) = <<>> <=> Len(q) = 1
  <2>1. Tail(q) = <<>> <=> Len(Tail(q)) = 0
    BY <1>1, EmptySeq
  <2> QED
    BY <2>1, <1>1
<1>4. q[1].part = Expected(r) /\ \A i \in 1 .. Len(q) - 1 : q[i].part # q[i + 1].part
  BY DEF Alternate
<1>5. Expected(r) \in {"length", "payload"} /\ Expected(r2) \in {"length", "payload"}
  BY DEF Expected
<1>6. Alternate(Tail(q), r2)
  <2>1. ASSUME Tail(q) # <<>>
        PROVE  Tail(q)[1].part = Expected(r2)
    <3>1. 1 \in 1 .. Len(q) - 1 /\ 2 \in 1 .. Len(q)
      BY <1>1, <1>3, <2>1
    <3>2. Tail(q)[1] = q[2] /\ q[2].part # Expected(r) /\ q[2].part \in {"length", "payload"}
      BY <3>1, <1>1, <1>2, <1>4
    <3> QED
      BY <3>2, <1>5
  <2>2. ASSUME NEW i \in 1 .. Len(Tail(q)) - 1
        PROVE  Tail(q)[i].part # Tail(q)[i + 1].part
    <3>1. i \in 1 .. Len(q) - 1 /\ i + 1 \in 1 .. Len(q) - 1
      BY <1>1
    <3>2. Tail(q)[i] = q[i + 1] /\ Tail(q)[i + 1] = q[(i + 1) + 1]
      BY <3>1, <1>1
    <3>3. q[i + 1].part # q[(i + 1) + 1].part
      BY <3>1, <1>4
    <3> QED
      BY <3>2, <3>3
  <2> QED
    BY <2>1, <2>2 DEF Alternate
<1>7. CASE Len(q) = 1
  <2>1. Tail(q) = <<>>
    BY <1>3, <1>7
  <2>2. HalfWritten(q, r) <=> Expected(r) = "length"
    BY <1>4, <1>7 DEF HalfWritten
  <2>3. HalfWritten(Tail(q), r2) <=> Expected(r2) = "payload"
    BY <2>1 DEF HalfWritten
  <2> QED
    BY <2>2, <2>3, <1>5, <1>6
<1>8. CASE Len(q) # 1
  <2>1. Tail(q) # <<>>
    BY <1>3, <1>8
  <2>2. Len(Tail(q)) \in 1 .. Len(q) - 1 /\ Len(Tail(q)) + 1 = Len(q)
    BY <1>1, <1>8
  <2>3. Tail(q)[Len(Tail(q))] = q[Len(q)]
    BY <2>2, <1>1
  <2> QED
    BY <2>1, <2>3, <1>6 DEF HalfWritten
<1> QED
  BY <1>7, <1>8

\* Adding the part that is due keeps the alternation.
LEMMA PutAlternates ==
    ASSUME NEW q \in Seq(Part), NEW r, NEW x \in Part, Alternate(q, r),
           x.part = IF HalfWritten(q, r) THEN "payload" ELSE "length"
    PROVE  Alternate(Append(q, x), r) /\ (HalfWritten(Append(q, x), r) <=> ~HalfWritten(q, r))
<1> DEFINE p == Append(q, x)
<1>1. /\ p \in Seq(Part) /\ Len(q) \in Nat /\ Len(p) = Len(q) + 1 /\ p # <<>>
      /\ \A i \in 1 .. Len(q) : p[i] = q[i]
      /\ p[Len(q) + 1] = x
  BY AppendProperties, LenProperties, EmptySeq
<1>2. q = <<>> <=> Len(q) = 0
  BY EmptySeq
<1>3. \A i \in 1 .. Len(q) : q[i].part \in {"length", "payload"}
  <2>1. \A i \in 1 .. Len(q) : q[i] \in Part
    BY ElementOfSeq
  <2> QED
    BY <2>1 DEF Part
<1>4. Expected(r) \in {"length", "payload"}
  BY DEF Expected
<1> HIDE DEF p
<1>5. HalfWritten(p, r) <=> x.part = "length"
  BY <1>1 DEF HalfWritten
<1>6. HalfWritten(p, r) <=> ~HalfWritten(q, r)
  BY <1>5
<1>7. CASE Len(q) = 0
  <2>1. HalfWritten(q, r) <=> Expected(r) = "payload"
    BY <1>2, <1>7 DEF HalfWritten
  <2>2. p[1].part = Expected(r)
    BY <2>1, <1>1, <1>4, <1>7
  <2>3. \A i \in 1 .. Len(p) - 1 : p[i].part # p[i + 1].part
    BY <1>1, <1>7
  <2>4. Alternate(p, r)
    BY <2>2, <2>3 DEF Alternate
  <2> QED
    BY <2>4, <1>6 DEF p
<1>8. CASE Len(q) # 0
  <2>1. Len(q) \in 1 .. Len(q) /\ 1 \in 1 .. Len(q)
    BY <1>1, <1>8
  <2>2. HalfWritten(q, r) <=> q[Len(q)].part = "length"
    BY <1>2, <1>8 DEF HalfWritten
  <2>3. q[Len(q)].part # x.part
    BY <2>1, <2>2, <1>3
  <2>4. p[1].part = Expected(r)
    BY <2>1, <1>1, <1>2, <1>8 DEF Alternate
  <2>5. ASSUME NEW i \in 1 .. Len(p) - 1
        PROVE  p[i].part # p[i + 1].part
    <3>1. CASE i = Len(q)
      BY <3>1, <2>1, <2>3, <1>1
    <3>2. CASE i # Len(q)
      <4>1. i \in 1 .. Len(q) - 1 /\ i \in 1 .. Len(q) /\ i + 1 \in 1 .. Len(q)
        BY <3>2, <1>1
      <4>2. q[i].part # q[i + 1].part
        BY <4>1 DEF Alternate
      <4> QED
        BY <4>1, <4>2, <1>1
    <3> QED
      BY <3>1, <3>2
  <2>6. Alternate(p, r)
    BY <2>4, <2>5 DEF Alternate
  <2> QED
    BY <2>6, <1>6 DEF p
<1> QED
  BY <1>7, <1>8, <1>1

\* Growing older changes nothing about it.
LEMMA AgeAlternates ==
    ASSUME NEW q \in Seq(Part), NEW q2 \in Seq(Part), NEW r, Len(q2) = Len(q),
           \A i \in 1 .. Len(q) : q2[i].part = q[i].part
    PROVE  (Alternate(q2, r) <=> Alternate(q, r)) /\ (HalfWritten(q2, r) <=> HalfWritten(q, r))
<1>1. Len(q) \in Nat /\ (q = <<>> <=> Len(q) = 0) /\ (q2 = <<>> <=> Len(q) = 0)
  BY LenProperties, EmptySeq
<1>2. CASE Len(q) = 0
  BY <1>1, <1>2 DEF Alternate, HalfWritten
<1>3. CASE Len(q) # 0
  <2>1. 1 \in 1 .. Len(q) /\ Len(q) \in 1 .. Len(q)
    BY <1>1, <1>3
  <2>2. \A i \in 1 .. Len(q) - 1 : i \in 1 .. Len(q) /\ i + 1 \in 1 .. Len(q)
    BY <1>1
  <2>3. Alternate(q2, r) <=> Alternate(q, r)
    BY <2>1, <2>2, <1>1, <1>3 DEF Alternate
  <2>4. HalfWritten(q2, r) <=> HalfWritten(q, r)
    BY <2>1, <1>1, <1>3 DEF HalfWritten
  <2> QED
    BY <2>3, <2>4
<1> QED
  BY <1>2, <1>3

\* The alternation at end i lasts while its wire, its reader and the write of
\* its peer stay as they are.
LEMMA AlignmentLasts ==
    ASSUME Alignment, NEW i \in Ends,
           Running(i)' => Running(i), i \in lost => i \in lost', reset => reset',
           Running(Peer(i))' => Running(Peer(i)),
           wire'[i] = wire[i], parts'[Peer(i)] = parts[Peer(i)],
           \/ reader'[i] \in {reader[i], "ended"}
           \/ reader[i] = "full" /\ reader'[i] = "length"
    PROVE  Running(i)' /\ i \notin lost' /\ ~reset' /\ reader'[i] # "ended" => Aligned(i)'
<1> SUFFICES ASSUME Running(i)', i \notin lost', ~reset', reader'[i] # "ended"
             PROVE  Aligned(i)'
  OBVIOUS
<1>1. reader[i] # "ended" /\ Expected(reader'[i]) = Expected(reader[i])
  BY DEF Expected
<1>2. Aligned(i)
  BY <1>1 DEF Alignment
<1>3. /\ Alternate(wire'[i], reader'[i]) <=> Alternate(wire[i], reader[i])
      /\ HalfWritten(wire'[i], reader'[i]) <=> HalfWritten(wire[i], reader[i])
  BY <1>1 DEF Alternate, HalfWritten
<1> QED
  BY <1>2, <1>3 DEF Aligned

\* No step takes an end back that has ended, or heals the connection.
LEMMA Onward ==
    ASSUME LoopType, [Next]_vars
    PROVE  /\ \A e \in Ends : Running(e)' => Running(e)
           /\ lost \subseteq lost' /\ (reset => reset')
<1> USE DEF Running, agentVars, relayVars, readerVars, writeVars, netVars
<1>1. ASSUME NEW e \in Ends, CleanUp(e)
      PROVE  /\ \A i \in Ends : Running(i)' => Running(i)
             /\ lost \subseteq lost' /\ (reset => reset')
  BY <1>1 DEF CleanUp, LoopType
<1>2. ASSUME NEW e \in Ends, HandOver(e)
      PROVE  /\ \A i \in Ends : Running(i)' => Running(i)
             /\ lost \subseteq lost' /\ (reset => reset')
  BY <1>2 DEF HandOver, LoopType
<1>3. ASSUME NEW e \in Ends, ReaderGone(e)
      PROVE  /\ \A i \in Ends : Running(i)' => Running(i)
             /\ lost \subseteq lost' /\ (reset => reset')
  BY <1>3 DEF ReaderGone, LoopType, Break
<1>4. ASSUME NEW e \in Ends, HeartbeatMissed(e)
      PROVE  /\ \A i \in Ends : Running(i)' => Running(i)
             /\ lost \subseteq lost' /\ (reset => reset')
  BY <1>4 DEF HeartbeatMissed, LoopType, Break
<1>5. ASSUME NEW e \in Ends, Read(e)
      PROVE  /\ \A i \in Ends : Running(i)' => Running(i)
             /\ lost \subseteq lost' /\ (reset => reset')
  BY <1>5 DEF Read, LoopType
<1>6. ASSUME NEW e \in Ends, ReadFails(e)
      PROVE  /\ \A i \in Ends : Running(i)' => Running(i)
             /\ lost \subseteq lost' /\ (reset => reset')
  BY <1>6 DEF ReadFails, LoopType
<1>7. ASSUME NEW e \in Ends, Lose(e)
      PROVE  /\ \A i \in Ends : Running(i)' => Running(i)
             /\ lost \subseteq lost' /\ (reset => reset')
  BY <1>7 DEF Lose, LoopType
<1>8. ASSUME StartPing
      PROVE  /\ \A i \in Ends : Running(i)' => Running(i)
             /\ lost \subseteq lost' /\ (reset => reset')
  BY <1>8 DEF StartPing, LoopType
<1>9. ASSUME WritePing
      PROVE  /\ \A i \in Ends : Running(i)' => Running(i)
             /\ lost \subseteq lost' /\ (reset => reset')
  BY <1>9 DEF WritePing, LoopType
<1>10. ASSUME PingFails
      PROVE  /\ \A i \in Ends : Running(i)' => Running(i)
             /\ lost \subseteq lost' /\ (reset => reset')
  BY <1>10 DEF PingFails, LoopType, Break
<1>11. ASSUME AgentReceive
      PROVE  /\ \A i \in Ends : Running(i)' => Running(i)
             /\ lost \subseteq lost' /\ (reset => reset')
  BY <1>11 DEF AgentReceive, LoopType
<1>12. ASSUME ForwardOpen
      PROVE  /\ \A i \in Ends : Running(i)' => Running(i)
             /\ lost \subseteq lost' /\ (reset => reset')
  BY <1>12 DEF ForwardOpen, LoopType, Send, Break
<1>13. ASSUME RelayReceive
      PROVE  /\ \A i \in Ends : Running(i)' => Running(i)
             /\ lost \subseteq lost' /\ (reset => reset')
  BY <1>13 DEF RelayReceive, LoopType, Send, Break
<1>14. ASSUME Sent
      PROVE  /\ \A i \in Ends : Running(i)' => Running(i)
             /\ lost \subseteq lost' /\ (reset => reset')
  BY <1>14 DEF Sent, LoopType, Break
<1>15. ASSUME WriterGone
      PROVE  /\ \A i \in Ends : Running(i)' => Running(i)
             /\ lost \subseteq lost' /\ (reset => reset')
  BY <1>15 DEF WriterGone, LoopType, Break
<1>16. ASSUME Replaced
      PROVE  /\ \A i \in Ends : Running(i)' => Running(i)
             /\ lost \subseteq lost' /\ (reset => reset')
  BY <1>16 DEF Replaced, LoopType, Break
<1>17. ASSUME TakeFrame
      PROVE  /\ \A i \in Ends : Running(i)' => Running(i)
             /\ lost \subseteq lost' /\ (reset => reset')
  BY <1>17 DEF TakeFrame, LoopType
<1>18. ASSUME WriteFrame
      PROVE  /\ \A i \in Ends : Running(i)' => Running(i)
             /\ lost \subseteq lost' /\ (reset => reset')
  BY <1>18 DEF WriteFrame, LoopType
<1>19. ASSUME WriterFails
      PROVE  /\ \A i \in Ends : Running(i)' => Running(i)
             /\ lost \subseteq lost' /\ (reset => reset')
  BY <1>19 DEF WriterFails, LoopType
<1>20. ASSUME AskOpen
      PROVE  /\ \A i \in Ends : Running(i)' => Running(i)
             /\ lost \subseteq lost' /\ (reset => reset')
  BY <1>20 DEF AskOpen, LoopType
<1>21. ASSUME StopDevice
      PROVE  /\ \A i \in Ends : Running(i)' => Running(i)
             /\ lost \subseteq lost' /\ (reset => reset')
  BY <1>21 DEF StopDevice, LoopType
<1>22. ASSUME Reset
      PROVE  /\ \A i \in Ends : Running(i)' => Running(i)
             /\ lost \subseteq lost' /\ (reset => reset')
  BY <1>22 DEF Reset, LoopType
<1>23. ASSUME Tick
      PROVE  /\ \A i \in Ends : Running(i)' => Running(i)
             /\ lost \subseteq lost' /\ (reset => reset')
  BY <1>23 DEF Tick, LoopType
<1>0. ASSUME UNCHANGED vars
      PROVE  /\ \A i \in Ends : Running(i)' => Running(i)
             /\ lost \subseteq lost' /\ (reset => reset')
  BY <1>0 DEF vars
<1> QED
  BY <1>0, <1>1, <1>2, <1>3, <1>4, <1>5, <1>6, <1>7, <1>8, <1>9, <1>10, <1>11, <1>12, <1>13, <1>14, <1>15, <1>16, <1>17, <1>18, <1>19, <1>20, <1>21, <1>22, <1>23
     DEF Next, TaskStep, NetStep, Environment


AlignedIfWorking(i) ==
    Running(i) /\ i \notin lost /\ ~reset /\ reader[i] # "ended" => Aligned(i)

\* A read at end e: the part is the one the reader expects, and the
\* alternation goes on behind it.
LEMMA ReadAligned ==
    ASSUME TypeOK, FramesStayAligned, Alignment, NEW e \in Ends, Read(e)
    PROVE  reader'[e] # "garbled" /\ AlignedIfWorking(e)'
<1> DEFINE r == reader[e]
           q == wire[e]
           r2 == IF r = "length" THEN "payload" ELSE "full"
<1>1. /\ Running(e) /\ r \in {"length", "payload"} /\ q # <<>> /\ e \notin lost /\ ~reset
      /\ wire' = [wire EXCEPT ![e] = Tail(q)] /\ UNCHANGED <<loop, parts>>
  BY DEF Read, writeVars
<1>2. q \in Seq(Part) /\ wire'[e] = Tail(q)
  BY <1>1 DEF TypeOK, WireType
<1>3. Aligned(e)
  BY <1>1 DEF Alignment
<1>4. Alternate(q, r) /\ q[1].part = r /\ Head(q) = q[1]
  BY <1>1, <1>2, <1>3, HeadTailProperties DEF Aligned, Alternate, Expected
<1>5. reader'[e] = r2
  BY <1>1, <1>4 DEF Read, TypeOK, ReaderType
<1>6. Expected(r2) # Expected(r)
  BY <1>1 DEF Expected
<1>7. Alternate(Tail(q), r2) /\ (HalfWritten(Tail(q), r2) <=> HalfWritten(q, r))
  BY <1>1, <1>2, <1>4, <1>6, TakeAlternates
<1>8. Aligned(e)'
  BY <1>1, <1>2, <1>3, <1>5, <1>7 DEF Aligned, Running
<1> QED
  BY <1>5, <1>8 DEF AlignedIfWorking

\* A part put by end e is the one that is due at its peer.
LEMMA PutAligned ==
    ASSUME TypeOK, Alignment, NEW e \in Ends, NEW frame \in Frames, PutPart(e, frame),
           Running(e), \A i \in Ends : Running(i)' => Running(i),
           UNCHANGED <<reader, lost, reset>>
    PROVE  AlignedIfWorking(Peer(e))'
<1> DEFINE i == Peer(e)
           q == wire[i]
           r == reader[i]
           x == [part |-> IF parts[e] = 0 THEN "length" ELSE "payload", frame |-> frame, age |-> 0]
<1> SUFFICES ASSUME Running(i)', i \notin lost', ~reset', reader'[i] # "ended"
             PROVE  Aligned(i)'
  BY DEF AlignedIfWorking
<1>1. i \in Ends /\ Peer(i) = e /\ i # e
  BY Peers
<1>2. Aligned(i) /\ Running(i) /\ i \notin lost
  BY <1>1 DEF Alignment
<1>3. q \in Seq(Part) /\ x \in Part /\ parts[e] \in 0..1
  <2>1. q \in Seq(Part) /\ parts[e] \in 0..1
    BY <1>1 DEF TypeOK, WireType, WriteType
  <2>2. 0 \in 0..Latency
    BY Sizes
  <2>3. x \in Part
    BY <2>2 DEF Part
  <2> QED
    BY <2>1, <2>3
<1>4. wire'[i] = Append(q, x) /\ parts'[e] = 1 - parts[e]
  BY <1>1, <1>2 DEF PutPart, TypeOK, WireType, WriteType
<1>5. Alternate(q, r) /\ (parts[e] = 1 <=> HalfWritten(q, r))
  BY <1>1, <1>2 DEF Aligned
<1>6. x.part = IF HalfWritten(q, r) THEN "payload" ELSE "length"
  BY <1>3, <1>5
<1>7. Alternate(Append(q, x), r) /\ (HalfWritten(Append(q, x), r) <=> ~HalfWritten(q, r))
  BY <1>3, <1>5, <1>6, PutAlternates
<1>8. parts'[e] = 1 <=> HalfWritten(Append(q, x), r)
  BY <1>3, <1>4, <1>5, <1>7
<1> QED
  BY <1>1, <1>4, <1>7, <1>8 DEF Aligned

LEMMA AlignmentStep ==
    TypeOK /\ TypeOK' /\ HeldFrames /\ FramesStayAligned /\ Alignment /\ [Next]_vars
        => FramesStayAligned' /\ Alignment'
<1> SUFFICES ASSUME TypeOK, TypeOK', HeldFrames, FramesStayAligned, Alignment, [Next]_vars
             PROVE  FramesStayAligned' /\ Alignment'
  OBVIOUS
<1>n. LoopType /\ ReaderType /\ WireType /\ WriteType /\ WireType'
  BY DEF TypeOK
<1>o. /\ \A e \in Ends : Running(e)' => Running(e)
      /\ lost \subseteq lost' /\ (reset => reset')
  BY <1>n, Onward
<1>a. ASSUME \A i \in Ends : AlignedIfWorking(i)'
      PROVE  Alignment'
  BY <1>a DEF AlignedIfWorking, Alignment
<1>b. ASSUME NEW i \in Ends,
             wire'[i] = wire[i], parts'[Peer(i)] = parts[Peer(i)],
             \/ reader'[i] \in {reader[i], "ended"}
             \/ reader[i] = "full" /\ reader'[i] = "length"
      PROVE  AlignedIfWorking(i)'
  BY <1>b, <1>o, AlignmentLasts, Peers DEF AlignedIfWorking
<1>c. ASSUME UNCHANGED <<wire, parts, reader>>
      PROVE  FramesStayAligned' /\ Alignment'
  BY <1>a, <1>b, <1>c DEF FramesStayAligned
<1>0. CASE UNCHANGED vars
  BY <1>0, <1>c DEF vars, readerVars, writeVars
<1>1. ASSUME NEW e \in Ends, CleanUp(e)
      PROVE  FramesStayAligned' /\ Alignment'
  <2>1. reader' = [reader EXCEPT ![e] = IF @ = "garbled" THEN @ ELSE "ended"]
    BY <1>1 DEF CleanUp
  <2>2. FramesStayAligned'
    BY <2>1, <1>n DEF FramesStayAligned, ReaderType
  <2>3. ~Running(e)'
    BY <1>1, <1>n DEF CleanUp, Running, LoopType
  <2>4. AlignedIfWorking(e)'
    BY <2>3 DEF AlignedIfWorking
  <2>5. Peer(e) \in Ends /\ Peer(e) # e /\ Peer(Peer(e)) = e
    BY Peers
  <2>6. wire'[Peer(e)] = wire[Peer(e)] /\ reader'[Peer(e)] = reader[Peer(e)]
    BY <1>1, <2>5, <1>n DEF CleanUp, WireType, ReaderType
  <2>7. ASSUME Running(Peer(e))', Peer(e) \notin lost', ~reset', reader'[Peer(e)] # "ended"
        PROVE  Aligned(Peer(e))'
    <3>1. Aligned(Peer(e))
      BY <2>7, <2>5, <2>6, <1>o DEF Alignment
    <3> QED
      BY <3>1, <2>3, <2>5, <2>6 DEF Aligned
  <2>8. AlignedIfWorking(Peer(e))'
    BY <2>7 DEF AlignedIfWorking
  <2>9. \A i \in Ends : i = e \/ i = Peer(e)
    BY DEF Ends, Peer
  <2> QED
    BY <2>2, <2>4, <2>8, <2>9, <1>a
<1>2. ASSUME NEW e \in Ends, HandOver(e)
      PROVE  FramesStayAligned' /\ Alignment'
  <2>1. reader[e] = "full" /\ reader' = [reader EXCEPT ![e] = "length"] /\ UNCHANGED <<wire, parts>>
    BY <1>2 DEF HandOver, writeVars
  <2>2. FramesStayAligned'
    BY <2>1, <1>n DEF FramesStayAligned, ReaderType
  <2>3. \A i \in Ends : i # e => reader'[i] = reader[i]
    BY <2>1, <1>n DEF ReaderType
  <2>4. reader'[e] = "length"
    BY <2>1, <1>n DEF ReaderType
  <2> QED
    BY <2>1, <2>2, <2>3, <2>4, <1>a, <1>b
<1>3. ASSUME NEW e \in Ends, ReaderGone(e)
      PROVE  FramesStayAligned' /\ Alignment'
  BY <1>3, <1>c DEF ReaderGone, readerVars, writeVars
<1>4. ASSUME NEW e \in Ends, HeartbeatMissed(e)
      PROVE  FramesStayAligned' /\ Alignment'
  BY <1>4, <1>c DEF HeartbeatMissed, readerVars, writeVars
<1>5. ASSUME NEW e \in Ends, Read(e)
      PROVE  FramesStayAligned' /\ Alignment'
  <2>1. reader'[e] # "garbled" /\ AlignedIfWorking(e)'
    BY <1>5, ReadAligned
  <2>2. ASSUME NEW i \in Ends, i # e
        PROVE  reader'[i] = reader[i] /\ wire'[i] = wire[i] /\ UNCHANGED parts
    BY <1>5, <2>2, <1>n DEF Read, WireType, ReaderType, writeVars
  <2>3. FramesStayAligned'
    BY <2>1, <2>2 DEF FramesStayAligned
  <2>4. \A i \in Ends : AlignedIfWorking(i)'
    BY <2>1, <2>2, <1>b
  <2> QED
    BY <2>3, <2>4, <1>a
<1>6. ASSUME NEW e \in Ends, ReadFails(e)
      PROVE  FramesStayAligned' /\ Alignment'
  <2>1. reader' = [reader EXCEPT ![e] = "ended"] /\ UNCHANGED <<wire, parts>>
    BY <1>6 DEF ReadFails, writeVars
  <2>2. FramesStayAligned'
    BY <2>1, <1>n DEF FramesStayAligned, ReaderType
  <2>3. \A i \in Ends : reader'[i] \in {reader[i], "ended"}
    BY <2>1, <1>n DEF ReaderType
  <2> QED
    BY <2>1, <2>2, <2>3, <1>a, <1>b
<1>7. ASSUME NEW e \in Ends, Lose(e)
      PROVE  FramesStayAligned' /\ Alignment'
  <2>1. UNCHANGED <<reader, parts>> /\ e \in lost'
    BY <1>7 DEF Lose, readerVars, writeVars
  <2>2. \A i \in Ends : i # e => wire'[i] = wire[i]
    BY <1>7, <1>n DEF Lose, WireType
  <2>3. AlignedIfWorking(e)'
    BY <2>1 DEF AlignedIfWorking
  <2> QED
    BY <2>1, <2>2, <2>3, <1>a, <1>b DEF FramesStayAligned
<1>8. CASE StartPing
  BY <1>8, <1>c DEF StartPing, readerVars, writeVars
<1>9. CASE WritePing
  <2>1. PutPart("agent", Ping) /\ UNCHANGED <<reader, lost, reset>>
    BY <1>9 DEF WritePing, readerVars, netVars
  <2>2. Ping \in Frames /\ Running("agent") /\ Peer("agent") = "relay" /\ Peer("relay") = "agent"
    BY <1>9, FramesFacts DEF WritePing, HeldFrames, Peer, Running
  <2>3. AlignedIfWorking("relay")'
    BY <2>1, <2>2, <1>o, Peers, PutAligned
  <2>4. wire'["agent"] = wire["agent"] /\ parts'["relay"] = parts["relay"]
    BY <2>1, <2>2, <1>n DEF PutPart, WireType, WriteType, Ends
  <2>5. AlignedIfWorking("agent")'
    BY <2>1, <2>2, <2>4, <1>b, Peers
  <2> QED
    BY <2>1, <2>3, <2>5, <1>a DEF FramesStayAligned, Ends
<1>10. CASE PingFails
  BY <1>10, <1>c DEF PingFails, readerVars, writeVars
<1>11. CASE AgentReceive
  BY <1>11, <1>c DEF AgentReceive, readerVars, writeVars
<1>12. CASE ForwardOpen
  BY <1>12, <1>c DEF ForwardOpen, readerVars, writeVars
<1>13. CASE RelayReceive
  BY <1>13, <1>c DEF RelayReceive, readerVars, writeVars
<1>14. CASE Sent
  BY <1>14, <1>c DEF Sent, readerVars, writeVars
<1>15. CASE WriterGone
  BY <1>15, <1>c DEF WriterGone, readerVars, writeVars
<1>16. CASE Replaced
  BY <1>16, <1>c DEF Replaced, readerVars, writeVars
<1>17. CASE TakeFrame
  BY <1>17, <1>c DEF TakeFrame, readerVars, writeVars
<1>18. CASE WriteFrame
  <2>1. PutPart("relay", writing) /\ UNCHANGED <<reader, lost, reset>>
    BY <1>18 DEF WriteFrame, readerVars, netVars
  <2>2. writing \in Frames /\ Running("relay") /\ Peer("relay") = "agent" /\ Peer("agent") = "relay"
    BY <1>18, FramesFacts DEF WriteFrame, HeldFrames, Peer, Running
  <2>3. AlignedIfWorking("agent")'
    BY <2>1, <2>2, <1>o, Peers, PutAligned
  <2>4. wire'["relay"] = wire["relay"] /\ parts'["agent"] = parts["agent"]
    BY <2>1, <2>2, <1>n DEF PutPart, WireType, WriteType, Ends
  <2>5. AlignedIfWorking("relay")'
    BY <2>1, <2>2, <2>4, <1>b, Peers
  <2> QED
    BY <2>1, <2>3, <2>5, <1>a DEF FramesStayAligned, Ends
<1>19. CASE WriterFails
  BY <1>19, <1>c DEF WriterFails, readerVars, writeVars
<1>20. CASE AskOpen
  BY <1>20, <1>c DEF AskOpen, readerVars, writeVars
<1>21. CASE StopDevice
  BY <1>21, <1>c DEF StopDevice, readerVars, writeVars
<1>22. CASE Reset
  <2>1. reset' /\ UNCHANGED reader
    BY <1>22 DEF Reset, readerVars
  <2> QED
    BY <2>1, <1>a DEF FramesStayAligned, AlignedIfWorking
<1>23. CASE Tick
  <2>1. UNCHANGED <<loop, reader, parts, lost, reset>>
    BY <1>23 DEF Tick, readerVars
  <2>2. ASSUME NEW i \in Ends
        PROVE  AlignedIfWorking(i)'
    <3> DEFINE q == wire[i]
               q2 == wire'[i]
    <3>1. q \in Seq(Part) /\ q2 \in Seq(Part) /\ Len(q) \in Nat
      BY <1>n, LenProperties DEF WireType
    <3>2. q2 = [k \in 1..Len(q) |-> [q[k] EXCEPT !.age = Upto(Latency, @ + 1)]]
      BY <1>23 DEF Tick
    <3>3. \A k \in 1..Len(q) : q[k] \in Part
      BY <3>1, ElementOfSeq
    <3>4. \A k \in 1..Len(q) : q2[k].part = q[k].part
      BY <3>2, <3>3 DEF Part
    <3>5. Len(q2) = Len(q)
      BY <3>1, <3>2, LenProperties
    <3>6. /\ Alternate(q2, reader[i]) <=> Alternate(q, reader[i])
          /\ HalfWritten(q2, reader[i]) <=> HalfWritten(q, reader[i])
      BY <3>1, <3>4, <3>5, AgeAlternates
    <3> QED
      BY <2>1, <3>6 DEF AlignedIfWorking, Alignment, Aligned, Running
  <2> QED
    BY <2>1, <2>2, <1>a DEF FramesStayAligned
<1> QED
  BY <1>0, <1>1, <1>2, <1>3, <1>4, <1>5, <1>6, <1>7, <1>8, <1>9, <1>10, <1>11, <1>12, <1>13, <1>14, <1>15, <1>16, <1>17, <1>18, <1>19, <1>20, <1>21, <1>22, <1>23
     DEF Next, TaskStep, NetStep, Environment

-----------------------------------------------------------------------------
(* The agent notices in time.                                              *)

\* What AgentInTime reads at the agent has its type.
LEMMA AgentTypes ==
    TypeOK =>
        /\ loop["agent"] \in {"select", "ping", "send", "over", "ended"}
        /\ frame_age["agent"] \in 0..DeadAfter /\ write_age["agent"] \in 0..WriteTimeout
        /\ ping_age \in 0..PingInterval /\ lost_age["agent"] \in Nat
        /\ PingTime \in 0..WriteTimeout
<1> SUFFICES ASSUME TypeOK
             PROVE  /\ loop["agent"] \in {"select", "ping", "send", "over", "ended"}
                    /\ frame_age["agent"] \in 0..DeadAfter /\ write_age["agent"] \in 0..WriteTimeout
                    /\ ping_age \in 0..PingInterval /\ lost_age["agent"] \in Nat
                    /\ PingTime \in 0..WriteTimeout
  OBVIOUS
<1>1. /\ loop["agent"] \in {"select", "ping", "send", "over", "ended"}
      /\ frame_age["agent"] \in 0..DeadAfter /\ write_age["agent"] \in 0..WriteTimeout
      /\ ping_age \in 0..PingInterval /\ lost_age["agent"] \in Nat
  BY Peers, LostAges DEF TypeOK, LoopType, WriteType, NetType
<1> QED
  BY <1>1, Sizes DEF PingTime

\* An agent that is still reached, or was a moment ago, has all its time.
AgentIsFresh ==
    /\ lost_age["agent"] = 0 /\ loop["agent"] # "send"
    /\ loop["agent"] = "select" => write_age["agent"] = 0

LEMMA FreshInTime == TypeOK /\ AgentIsFresh => AgentInTime
BY AgentTypes, Sizes DEF AgentInTime, AgentIsFresh

LEMMA FreshNext == TypeOK' /\ AgentIsFresh' => AgentInTime'
BY FreshInTime, PTL

LEMMA PingTimeNext == TypeOK' => (PingTime \in 0..WriteTimeout)'
<1>1. TypeOK => PingTime \in 0..WriteTimeout
  BY AgentTypes
<1> QED
  BY <1>1, PTL

\* It leaves its loop in time, wherever it stands in it.
LEMMA LeavesInTime ==
    ASSUME TypeOK, AgentInTime, heartbeat["agent"], loop["agent"] \in {"select", "ping"}
    PROVE  lost_age["agent"] <= DeadAfter + 2 * WriteTimeout
BY AgentTypes, Sizes DEF AgentInTime

\* Time passes in the loop only when there is nothing to take and no deadline
\* is due, and in the write of a Ping only within its time.
LEMMA AgentIdles ==
    ASSUME TypeOK, Idle, heartbeat["agent"], Running("agent"), loop["agent"] # "send"
    PROVE  \/ /\ loop["agent"] = "select" /\ ~SignWaiting
              /\ frame_age["agent"] < DeadAfter /\ ping_age < PingInterval
           \/ loop["agent"] = "ping" /\ write_age["agent"] < WriteTimeout
<1>c. ~CanRun
  BY DEF Idle
<1>1. CASE loop["agent"] = "select"
  <2>1. frame_rx["agent"] = <<>> /\ frame_age["agent"] # DeadAfter /\ ping_age # PingInterval
    BY <1>c, <1>1, Peers DEF CanRun
  <2>2. reader["agent"] # "full"
    <3>1. Len(frame_rx["agent"]) < Capacity
      BY <2>1, EmptySeq, Sizes
    <3> QED
      BY <1>c, <3>1, Peers DEF CanRun
  <2> QED
    BY <1>1, <2>1, <2>2, AgentTypes, Sizes DEF SignWaiting
<1>2. CASE loop["agent"] = "ping"
  <2>1. ~Room("agent") /\ ~WriteFails("agent")
    BY <1>c, <1>2 DEF CanRun
  <2>2. write_age["agent"] # WriteTimeout
    BY <2>1 DEF WriteFails
  <2> QED
    BY <1>2, <2>2, AgentTypes, Sizes
<1>3. loop["agent"] # "over"
  BY <1>c, Peers DEF CanRun
<1> QED
  BY <1>1, <1>2, <1>3, AgentTypes DEF Running

LEMMA TickInTime ==
    ASSUME TypeOK, TypeOK', AgentInTime, Tick
    PROVE  AgentInTime'
<1>1. /\ UNCHANGED <<loop, heartbeat, frame_rx, reader, lost>>
      /\ Idle
  BY DEF Tick, readerVars
<1>2. /\ frame_age' = [e \in Ends |->
            IF heartbeat[e] /\ Running(e) THEN Upto(DeadAfter, frame_age[e] + 1) ELSE frame_age[e]]
      /\ write_age' = [e \in Ends |->
            IF Writing(e) THEN Upto(WriteTimeout, write_age[e] + 1) ELSE write_age[e]]
      /\ ping_age' = IF heartbeat["agent"] /\ Running("agent")
                     THEN Upto(PingInterval, ping_age + 1) ELSE ping_age
      /\ lost_age' = [e \in Ends |-> IF e \in lost /\ Running(e)
                                    THEN Upto(MaxLostAge, lost_age[e] + 1) ELSE 0]
  BY DEF Tick
<1>3. /\ frame_age'["agent"] = IF heartbeat["agent"] /\ Running("agent")
             THEN Upto(DeadAfter, frame_age["agent"] + 1) ELSE frame_age["agent"]
      /\ write_age'["agent"] = IF loop["agent"] = "ping"
             THEN Upto(WriteTimeout, write_age["agent"] + 1) ELSE write_age["agent"]
      /\ lost_age'["agent"] = IF "agent" \in lost /\ Running("agent")
             THEN Upto(MaxLostAge, lost_age["agent"] + 1) ELSE 0
  BY <1>2, Peers DEF Writing
<1>4. loop["agent"] # "send" /\ (loop["agent"] = "select" => write_age["agent"] = 0)
  BY DEF AgentInTime
<1>5. CASE ~("agent" \in lost /\ heartbeat["agent"] /\ Running("agent"))
  <2>1. CASE "agent" \notin lost \/ loop["agent"] = "ended"
    <3>1. AgentIsFresh'
      BY <1>1, <1>3, <1>4, <2>1 DEF AgentIsFresh, Running
    <3> QED
      BY <3>1, FreshNext
  <2>2. CASE "agent" \in lost /\ ~heartbeat["agent"]
    BY <1>1, <1>3, <1>4, <2>2 DEF AgentInTime
  <2> QED
    BY <1>5, <2>1, <2>2 DEF Running
<1>6. CASE "agent" \in lost /\ heartbeat["agent"] /\ Running("agent")
  <2>1. /\ lost_age'["agent"] \in Nat /\ frame_age'["agent"] \in Nat
        /\ lost_age'["agent"] <= lost_age["agent"] + 1
        /\ frame_age["agent"] < DeadAfter => frame_age'["agent"] = frame_age["agent"] + 1
        /\ frame_age["agent"] = DeadAfter => frame_age'["agent"] = DeadAfter
    BY <1>3, <1>6, AgentTypes, Sizes, LostAges DEF Upto
  <2>2. SignWaiting' <=> SignWaiting
    BY <1>1 DEF SignWaiting
  <2>3. CASE loop["agent"] = "select"
    <3>1. /\ ~SignWaiting /\ frame_age["agent"] < DeadAfter
          /\ lost_age["agent"] <= WriteTimeout + frame_age["agent"]
      BY <1>1, <1>4, <1>6, <2>3, AgentIdles DEF AgentInTime
    <3>2. PingTime' \in 0..WriteTimeout
      BY PingTimeNext
    <3> QED
      BY <1>1, <1>3, <1>4, <1>6, <2>1, <2>2, <2>3, <3>1, <3>2, AgentTypes, Sizes DEF AgentInTime
  <2>4. CASE loop["agent"] = "ping"
    <3>1. write_age["agent"] < WriteTimeout
      BY <1>1, <1>4, <1>6, <2>4, AgentIdles
    <3>2. PingTime = write_age["agent"] /\ PingTime' = write_age["agent"] + 1
      BY <1>1, <1>3, <2>4, <3>1, AgentTypes, Sizes DEF PingTime, Upto
    <3>3. lost_age["agent"] <=
              IF SignWaiting THEN PingTime
              ELSE IF frame_age["agent"] < DeadAfter THEN WriteTimeout + frame_age["agent"]
              ELSE WriteTimeout + DeadAfter + PingTime
      BY <1>6, <2>4 DEF AgentInTime
    <3>4. lost_age'["agent"] <=
              IF SignWaiting THEN PingTime'
              ELSE IF frame_age'["agent"] < DeadAfter THEN WriteTimeout + frame_age'["agent"]
              ELSE WriteTimeout + DeadAfter + PingTime'
      <4>1. CASE SignWaiting
        BY <2>1, <3>1, <3>2, <3>3, <4>1, AgentTypes, Sizes
      <4>2. CASE ~SignWaiting
        BY <2>1, <3>1, <3>2, <3>3, <4>2, AgentTypes, Sizes
      <4> QED
        BY <4>1, <4>2
    <3> QED
      BY <1>1, <1>3, <1>4, <1>6, <2>2, <2>4, <3>4 DEF AgentInTime
  <2>5. loop["agent"] \in {"select", "ping"}
    BY <1>1, <1>4, <1>6, AgentIdles
  <2> QED
    BY <2>3, <2>4, <2>5
<1> QED
  BY <1>5, <1>6

\* Every step keeps the agent in time.
LEMMA InTimeStep == TypeOK /\ TypeOK' /\ HeldFrames /\ AgentInTime /\ [Next]_vars => AgentInTime'
<1> SUFFICES ASSUME TypeOK, TypeOK', HeldFrames, AgentInTime, [Next]_vars
             PROVE  AgentInTime'
  OBVIOUS
<1> USE Peers
<1>n. LoopType /\ ReaderType /\ ChannelType /\ WriteType
  BY DEF TypeOK
<1>a. ASSUME loop'["agent"] = loop["agent"], heartbeat' = heartbeat,
             write_age'["agent"] = write_age["agent"], ping_age' = ping_age,
             frame_age'["agent"] = frame_age["agent"],
             frame_rx'["agent"] = frame_rx["agent"],
             reader'["agent"] = "full" <=> reader["agent"] = "full",
             lost_age' = lost_age, lost \subseteq lost'
      PROVE  AgentInTime'
  <2>1. (SignWaiting' <=> SignWaiting) /\ PingTime' = PingTime
    BY <1>a DEF SignWaiting, PingTime
  <2> QED
    BY <1>a, <2>1 DEF AgentInTime
<1>b. ASSUME loop["agent"] \in {"select", "ping"}, loop'["agent"] = "over",
             UNCHANGED <<heartbeat, lost, lost_age>>
      PROVE  AgentInTime'
  BY <1>b, LeavesInTime DEF AgentInTime
<1>1. ASSUME NEW e \in Ends, CleanUp(e)
      PROVE  AgentInTime'
  <2>1. CASE e = "agent"
    <3>1. loop'["agent"] = "ended" /\ UNCHANGED <<lost, lost_age>>
      BY <1>1, <1>n, <2>1 DEF CleanUp, netVars, LoopType
    <3> QED
      BY <3>1 DEF AgentInTime
  <2>2. CASE e = "relay"
    BY <1>1, <1>a, <1>n, <2>2 DEF CleanUp, agentVars, readerVars, writeVars, relayVars, netVars, LoopType, ReaderType, ChannelType, WriteType
  <2> QED
    BY <2>1, <2>2 DEF Ends
<1>2. ASSUME NEW e \in Ends, Read(e)
      PROVE  AgentInTime'
  <2>1. UNCHANGED <<heartbeat, loop, frame_age, ping_age, frame_rx, write_age, lost, lost_age>>
    BY <1>2 DEF Read, agentVars, readerVars, writeVars, relayVars, netVars
  <2>2. CASE e = "agent"
    <3>1. lost_age["agent"] = 0
      BY <1>2, <2>2 DEF Read, AgentInTime
    <3>2. AgentIsFresh'
      BY <2>1, <3>1 DEF AgentInTime, AgentIsFresh
    <3> QED
      BY <3>2, FreshNext
  <2>3. CASE e = "relay"
    <3>1. reader'["agent"] = reader["agent"]
      BY <1>2, <1>n, <2>3 DEF Read, ReaderType
    <3> QED
      BY <1>a, <2>1, <3>1
  <2> QED
    BY <2>2, <2>3 DEF Ends
<1>3. ASSUME NEW e \in Ends, HandOver(e)
      PROVE  AgentInTime'
  <2>1. UNCHANGED <<heartbeat, loop, frame_age, ping_age, write_age, lost, lost_age>>
    BY <1>3 DEF HandOver, agentVars, readerVars, writeVars, relayVars, netVars
  <2>2. CASE e = "agent"
    <3>1. SignWaiting
      BY <1>3, <2>2 DEF HandOver, SignWaiting
    <3>2. frame_rx'["agent"] # <<>>
      <4>1. /\ frame_rx["agent"] \in Seq(Frames)
            /\ frame_rx'["agent"] = Append(frame_rx["agent"], in_hand["agent"])
        BY <1>3, <1>n, <2>2 DEF HandOver, ChannelType
      <4>2. in_hand["agent"] \in Frames
        BY <1>3, <2>2 DEF HandOver, HeldFrames
      <4> QED
        BY <4>1, <4>2, AppendProperties
    <3>3. SignWaiting' /\ PingTime' = PingTime
      BY <2>1, <3>2 DEF SignWaiting, PingTime
    <3> QED
      BY <2>1, <3>1, <3>3 DEF AgentInTime
  <2>3. CASE e = "relay"
    <3>1. reader'["agent"] = reader["agent"] /\ frame_rx'["agent"] = frame_rx["agent"]
      BY <1>3, <1>n, <2>3 DEF HandOver, ReaderType, ChannelType
    <3> QED
      BY <1>a, <2>1, <3>1
  <2> QED
    BY <2>2, <2>3 DEF Ends
<1>4. ASSUME NEW e \in Ends, ReadFails(e)
      PROVE  AgentInTime'
  <2>1. /\ UNCHANGED <<heartbeat, loop, frame_age, ping_age, frame_rx, write_age, lost, lost_age>>
        /\ reader'["agent"] = "full" <=> reader["agent"] = "full"
    BY <1>4, <1>n DEF ReadFails, ReaderType, agentVars, readerVars, writeVars, relayVars, netVars
  <2> QED
    BY <1>a, <2>1
<1>5. ASSUME NEW e \in Ends, ReaderGone(e)
      PROVE  AgentInTime'
  <2>1. CASE e = "agent"
    BY <1>5, <1>b, <1>n, <2>1 DEF ReaderGone, Break, LoopType, netVars
  <2>2. CASE e = "relay"
    BY <1>5, <1>a, <1>n, <2>2 DEF ReaderGone, Break, LoopType, agentVars, readerVars, writeVars, relayVars, netVars
  <2> QED
    BY <2>1, <2>2 DEF Ends
<1>6. ASSUME NEW e \in Ends, HeartbeatMissed(e)
      PROVE  AgentInTime'
  <2>1. CASE e = "agent"
    BY <1>6, <1>b, <1>n, <2>1 DEF HeartbeatMissed, Break, LoopType, netVars
  <2>2. CASE e = "relay"
    BY <1>6, <1>a, <1>n, <2>2 DEF HeartbeatMissed, Break, LoopType, agentVars, readerVars, writeVars, relayVars, netVars
  <2> QED
    BY <2>1, <2>2 DEF Ends
<1>8. CASE StartPing
  <2>1. /\ loop["agent"] = "select" /\ ping_age = PingInterval /\ loop'["agent"] = "ping"
        /\ UNCHANGED <<heartbeat, frame_age, ping_age, frame_rx, reader, write_age, lost, lost_age>>
    BY <1>8, <1>n DEF StartPing, LoopType, agentVars, readerVars, writeVars, relayVars, netVars
  <2>2. write_age["agent"] = 0 /\ PingTime = 0 /\ PingTime' = 0
    BY <2>1, Sizes DEF AgentInTime, PingTime
  <2>3. SignWaiting' <=> SignWaiting
    BY <2>1 DEF SignWaiting
  <2> QED
    BY <2>1, <2>2, <2>3 DEF AgentInTime
<1>9. CASE WritePing
  <2>1. /\ loop["agent"] = "ping"
        /\ UNCHANGED <<heartbeat, frame_age, frame_rx, reader, lost, lost_age>>
    BY <1>9 DEF WritePing, agentVars, readerVars, writeVars, relayVars, netVars
  <2>2. CASE parts["agent"] = 1
    <3>1. loop'["agent"] = "select" /\ ping_age' = 0 /\ write_age'["agent"] = 0
      BY <1>9, <1>n, <2>2 DEF WritePing, PutPart, LoopType, WriteType
    <3>2. PingTime = write_age["agent"] /\ PingTime' = WriteTimeout
      BY <2>1, <3>1 DEF PingTime
    <3>3. SignWaiting' <=> SignWaiting
      BY <2>1 DEF SignWaiting
    <3> QED
      BY <2>1, <3>1, <3>2, <3>3, AgentTypes, Sizes DEF AgentInTime
  <2>3. CASE parts["agent"] # 1
    BY <1>9, <1>a, <2>1, <2>3 DEF WritePing, PutPart
  <2> QED
    BY <2>2, <2>3
<1>10. CASE PingFails
  BY <1>10, <1>b, <1>n DEF PingFails, Break, LoopType, netVars
<1>11. CASE AgentReceive
  <2>1. /\ loop["agent"] = "select" /\ frame_rx["agent"] # <<>> /\ frame_age'["agent"] = 0
        /\ UNCHANGED <<heartbeat, loop, ping_age, reader, write_age, lost, lost_age>>
    BY <1>11, <1>n DEF AgentReceive, LoopType, agentVars, readerVars, writeVars, relayVars, netVars
  <2>2. PingTime' = PingTime /\ PingTime \in 0..WriteTimeout
    BY <2>1, AgentTypes DEF PingTime
  <2>3. heartbeat["agent"] => lost_age["agent"] <= PingTime
    BY <2>1 DEF AgentInTime, SignWaiting
  <2> QED
    BY <2>1, <2>2, <2>3, AgentTypes, Sizes DEF AgentInTime
<1>12. CASE ForwardOpen
  BY <1>12, <1>a, <1>n DEF ForwardOpen, agentVars, readerVars, writeVars, relayVars, netVars, LoopType, ReaderType, ChannelType, WriteType, Running, Send, Break
<1>13. CASE RelayReceive
  BY <1>13, <1>a, <1>n DEF RelayReceive, agentVars, readerVars, writeVars, relayVars, netVars, LoopType, ReaderType, ChannelType, WriteType, Running, Send, Break
<1>14. CASE Sent
  BY <1>14, <1>a, <1>n DEF Sent, agentVars, readerVars, writeVars, relayVars, netVars, LoopType, ReaderType, ChannelType, WriteType, Running, Send, Break
<1>15. CASE WriterGone
  BY <1>15, <1>a, <1>n DEF WriterGone, agentVars, readerVars, writeVars, relayVars, netVars, LoopType, ReaderType, ChannelType, WriteType, Running, Send, Break
<1>16. CASE Replaced
  BY <1>16, <1>a, <1>n DEF Replaced, agentVars, readerVars, writeVars, relayVars, netVars, LoopType, ReaderType, ChannelType, WriteType, Running, Send, Break
<1>17. CASE TakeFrame
  BY <1>17, <1>a, <1>n DEF TakeFrame, agentVars, readerVars, writeVars, relayVars, netVars, LoopType, ReaderType, ChannelType, WriteType, Running
<1>18. CASE WriteFrame
  BY <1>18, <1>a, <1>n DEF WriteFrame, agentVars, readerVars, writeVars, relayVars, netVars, LoopType, ReaderType, ChannelType, WriteType, Running, PutPart
<1>19. CASE WriterFails
  BY <1>19, <1>a, <1>n DEF WriterFails, agentVars, readerVars, writeVars, relayVars, netVars, LoopType, ReaderType, ChannelType, WriteType, Running
<1>20. CASE AskOpen
  BY <1>20, <1>a, <1>n DEF AskOpen, agentVars, readerVars, writeVars, relayVars, netVars, LoopType, ReaderType, ChannelType, WriteType, Running
<1>21. CASE StopDevice
  BY <1>21, <1>a, <1>n DEF StopDevice, agentVars, readerVars, writeVars, relayVars, netVars, LoopType, ReaderType, ChannelType, WriteType, Running
<1>22. CASE Reset
  BY <1>22, <1>a, <1>n DEF Reset, agentVars, readerVars, writeVars, relayVars, netVars, LoopType, ReaderType, ChannelType, WriteType, Running
<1>7. ASSUME NEW e \in Ends, Lose(e)
      PROVE  AgentInTime'
  BY <1>7, <1>a, <1>n DEF Lose, agentVars, readerVars, writeVars, relayVars, netVars, LoopType, ReaderType, ChannelType, WriteType, Running
<1>23. CASE Tick
  BY <1>23, TickInTime
<1>0. CASE UNCHANGED vars
  BY <1>0, <1>a DEF vars, agentVars, readerVars, writeVars, relayVars, netVars
<1> QED
  BY <1>0, <1>1, <1>2, <1>3, <1>4, <1>5, <1>6, <1>7, <1>8, <1>9, <1>10, <1>11, <1>12, <1>13, <1>14, <1>15, <1>16, <1>17, <1>18, <1>19, <1>20, <1>21, <1>22, <1>23
     DEF Next, TaskStep, NetStep, Environment

-----------------------------------------------------------------------------
(* The relay notices in time.                                              *)

\* What RelayInTime reads at the relay has its type.
LEMMA RelayTypes ==
    TypeOK =>
        /\ loop["relay"] \in {"select", "ping", "send", "over", "ended"}
        /\ frame_age["relay"] \in 0..DeadAfter /\ write_age["relay"] \in 0..WriteTimeout
        /\ lost_age["relay"] \in Nat /\ Len(frame_rx["relay"]) \in 0..Capacity
        /\ Len(writer_rx) \in 0..Capacity
        /\ forwarded \in Nat /\ forwarded_before \in 0..forwarded
        /\ Signs \in 0..Capacity + 1 /\ SendTime \in 0..WriteTimeout
        /\ Spent \in Nat /\ Writes("relay") = Spent + Signs + 1
<1> SUFFICES ASSUME TypeOK
             PROVE  /\ loop["relay"] \in {"select", "ping", "send", "over", "ended"}
                    /\ frame_age["relay"] \in 0..DeadAfter /\ write_age["relay"] \in 0..WriteTimeout
                    /\ lost_age["relay"] \in Nat /\ Len(frame_rx["relay"]) \in 0..Capacity
                    /\ Len(writer_rx) \in 0..Capacity
                    /\ forwarded \in Nat /\ forwarded_before \in 0..forwarded
                    /\ Signs \in 0..Capacity + 1 /\ SendTime \in 0..WriteTimeout
                    /\ Spent \in Nat /\ Writes("relay") = Spent + Signs + 1
  OBVIOUS
<1>1. /\ loop["relay"] \in {"select", "ping", "send", "over", "ended"}
      /\ frame_age["relay"] \in 0..DeadAfter /\ write_age["relay"] \in 0..WriteTimeout
      /\ lost_age["relay"] \in Nat
  BY Peers, LostAges DEF TypeOK, LoopType, WriteType, NetType
<1>2. Len(frame_rx["relay"]) \in 0..Capacity
  <2>1. frame_rx["relay"] \in Seq(Frames) /\ Len(frame_rx["relay"]) <= Capacity
    BY Peers DEF TypeOK, ChannelType
  <2> QED
    BY <2>1, LenProperties, Sizes
<1>3. Len(writer_rx) \in 0..Capacity
  <2>1. writer_rx \in Seq(Frames) /\ Len(writer_rx) <= Capacity
    BY DEF TypeOK, QueueType
  <2> QED
    BY <2>1, LenProperties, Sizes
<1>4. forwarded \in Nat /\ forwarded_before \in 0..forwarded
  BY Sizes DEF TypeOK, OpensType
<1>5. Signs \in 0..Capacity + 1 /\ SendTime \in 0..WriteTimeout
  <2>1. SendTime \in 0..WriteTimeout
    BY <1>1, Sizes DEF SendTime
  <2>2. CASE reader["relay"] = "full"
    <3>1. Signs = Len(frame_rx["relay"]) + 1
      BY <2>2 DEF Signs
    <3> QED
      BY <1>2, <2>1, <3>1, Sizes
  <2>3. CASE reader["relay"] # "full"
    <3>1. Signs = Len(frame_rx["relay"]) + 0
      BY <2>3 DEF Signs
    <3> QED
      BY <1>2, <2>1, <3>1, Sizes
  <2> QED
    BY <2>2, <2>3
<1>6. Spent \in Nat /\ Writes("relay") = Spent + Signs + 1
  BY <1>4, <1>5, Sizes DEF Spent, Writes
<1> QED
  BY <1>1, <1>2, <1>3, <1>4, <1>5, <1>6

\* The time of the writes that may keep it in all.
WritesTime == WriteTimeout * Writes("relay")

LEMMA RelayCosts ==
    TypeOK => SpentTime \in Nat /\ WritesTime \in Nat /\ SpentTime + WriteTimeout <= WritesTime
<1> SUFFICES ASSUME TypeOK
             PROVE  SpentTime \in Nat /\ WritesTime \in Nat /\ SpentTime + WriteTimeout <= WritesTime
  OBVIOUS
<1> DEFINE s == Spent
           w == Writes("relay")
<1>1. s \in Nat /\ w \in Nat /\ s + 1 \in Nat /\ s + 1 <= w
  <2>1. s \in Nat /\ Signs \in 0..Capacity + 1 /\ w = s + Signs + 1
    BY RelayTypes
  <2>2. Signs \in Nat
    BY <2>1, Sizes
  <2> HIDE DEF s, w
  <2> QED
    BY <2>1, <2>2
<1> HIDE DEF s, w
<1>2. /\ WriteTimeout * s \in Nat /\ WriteTimeout * w \in Nat
      /\ WriteTimeout * (s + 1) <= WriteTimeout * w
      /\ WriteTimeout * (s + 1) = WriteTimeout * s + WriteTimeout
  BY <1>1, Costs
<1>3. SpentTime = WriteTimeout * s /\ WritesTime = WriteTimeout * w
  BY DEF SpentTime, WritesTime, s, w
<1> QED
  BY <1>2, <1>3

\* The numbers of RelayInTime, now and at the next step.
LEMMA RelayNumbers ==
    TypeOK => /\ lost_age["relay"] \in Nat /\ frame_age["relay"] \in 0..DeadAfter
              /\ Signs \in 0..Capacity + 1 /\ SendTime \in 0..WriteTimeout
              /\ SpentTime \in Nat /\ WritesTime \in Nat
              /\ SpentTime + WriteTimeout <= WritesTime
BY RelayTypes, RelayCosts

LEMMA RelayNumbersNext ==
    TypeOK' => (/\ lost_age["relay"] \in Nat /\ frame_age["relay"] \in 0..DeadAfter
                /\ Signs \in 0..Capacity + 1 /\ SendTime \in 0..WriteTimeout
                /\ SpentTime \in Nat /\ WritesTime \in Nat
                /\ SpentTime + WriteTimeout <= WritesTime)'
BY RelayNumbers, PTL

LEMMA AllowedIsLess ==
    TypeOK => Allowed \in Nat /\ Allowed <= WritesTime + DeadAfter
BY RelayNumbers, Sizes DEF Allowed

LEMMA AllowedNext == TypeOK' => (Allowed \in Nat /\ Allowed <= WritesTime + DeadAfter)'
BY AllowedIsLess, PTL

\* RelayInTime in these terms.
LEMMA InTimeIs ==
    RelayInTime <=>
        /\ loop["relay"] # "ping"
        /\ "relay" \notin lost => lost_age["relay"] = 0
        /\ heartbeat["relay"] =>
              /\ loop["relay"] = "over" => lost_age["relay"] <= DeadAfter + WritesTime
              /\ loop["relay"] \in {"select", "send"} => lost_age["relay"] <= Allowed
BY DEF RelayInTime, WritesTime

LEMMA InTimeIsNext ==
    RelayInTime' <=>
       (/\ loop["relay"] # "ping"
        /\ "relay" \notin lost => lost_age["relay"] = 0
        /\ heartbeat["relay"] =>
              /\ loop["relay"] = "over" => lost_age["relay"] <= DeadAfter + WritesTime
              /\ loop["relay"] \in {"select", "send"} => lost_age["relay"] <= Allowed)'
BY InTimeIs, PTL

\* A relay that is still reached, or was a moment ago, has all its time.
RelayIsFresh == lost_age["relay"] = 0 /\ loop["relay"] # "ping"

LEMMA RelayFreshInTime == TypeOK /\ RelayIsFresh => RelayInTime
<1> SUFFICES ASSUME TypeOK, RelayIsFresh
             PROVE  RelayInTime
  OBVIOUS
<1>1. 0 <= DeadAfter + WritesTime /\ 0 <= Allowed
  BY RelayNumbers, AllowedIsLess, Sizes
<1> QED
  BY <1>1, InTimeIs DEF RelayIsFresh

LEMMA RelayFreshNext == TypeOK' /\ RelayIsFresh' => RelayInTime'
BY RelayFreshInTime, PTL

\* It leaves its loop in time, wherever it stands in it.
LEMMA RelayLeavesInTime ==
    ASSUME TypeOK, RelayInTime, heartbeat["relay"], loop["relay"] \in {"select", "send"}
    PROVE  lost_age["relay"] <= DeadAfter + WritesTime
<1>1. lost_age["relay"] <= Allowed
  BY InTimeIs
<1> QED
  BY <1>1, RelayNumbers, AllowedIsLess, Sizes

\* Time passes in the loop only when there is nothing to take and no deadline
\* is due, or while a write that has not timed out keeps it waiting.
LEMMA RelayIdles ==
    ASSUME TypeOK, Idle, heartbeat["relay"], Running("relay"), loop["relay"] # "ping"
    PROVE  \/ loop["relay"] = "select" /\ Signs = 0 /\ frame_age["relay"] < DeadAfter
           \/ /\ loop["relay"] = "send" /\ writer = "writing" /\ Len(writer_rx) = Capacity
              /\ write_age["relay"] < WriteTimeout
<1>c. ~CanRun
  BY DEF Idle
<1>1. CASE loop["relay"] = "select"
  <2>1. frame_rx["relay"] = <<>> /\ frame_age["relay"] # DeadAfter
    BY <1>c, <1>1, Peers DEF CanRun
  <2>2. reader["relay"] # "full"
    <3>1. Len(frame_rx["relay"]) < Capacity
      BY <2>1, EmptySeq, Sizes
    <3> QED
      BY <1>c, <3>1, Peers DEF CanRun
  <2>3. Len(frame_rx["relay"]) = 0
    BY <2>1, EmptySeq
  <2> QED
    BY <1>1, <2>1, <2>2, <2>3, RelayTypes, Sizes DEF Signs
<1>2. CASE loop["relay"] = "send"
  <2>1. ~(Len(writer_rx) < Capacity) /\ writer # "ended"
    BY <1>c, <1>2 DEF CanRun
  <2>2. Len(writer_rx) = Capacity
    BY <2>1, RelayTypes, Sizes
  <2>3. writer_rx # <<>>
    BY <2>2, EmptySeq, Sizes
  <2>4. writer = "writing"
    BY <1>c, <2>1, <2>3 DEF CanRun, TypeOK, WriterType
  <2>5. ~Room("relay") /\ ~WriteFails("relay")
    BY <1>c, <2>4 DEF CanRun
  <2>6. write_age["relay"] # WriteTimeout
    BY <2>5 DEF WriteFails
  <2> QED
    BY <1>2, <2>2, <2>4, <2>6, RelayTypes, Sizes
<1>3. loop["relay"] # "over"
  BY <1>c, Peers DEF CanRun
<1> QED
  BY <1>1, <1>2, <1>3, RelayTypes DEF Running

LEMMA RelayTickInTime ==
    ASSUME TypeOK, TypeOK', RelayInTime, Tick
    PROVE  RelayInTime'
<1>1. /\ UNCHANGED <<loop, heartbeat, frame_rx, reader, lost, writer, writer_rx,
                     forwarded, forwarded_before>>
      /\ Idle
  BY DEF Tick, readerVars, relayVars
<1>2. /\ frame_age' = [e \in Ends |->
            IF heartbeat[e] /\ Running(e) THEN Upto(DeadAfter, frame_age[e] + 1) ELSE frame_age[e]]
      /\ write_age' = [e \in Ends |->
            IF Writing(e) THEN Upto(WriteTimeout, write_age[e] + 1) ELSE write_age[e]]
      /\ lost_age' = [e \in Ends |-> IF e \in lost /\ Running(e)
                                    THEN Upto(MaxLostAge, lost_age[e] + 1) ELSE 0]
  BY DEF Tick
<1>3. /\ frame_age'["relay"] = IF heartbeat["relay"] /\ Running("relay")
             THEN Upto(DeadAfter, frame_age["relay"] + 1) ELSE frame_age["relay"]
      /\ write_age'["relay"] = IF writer = "writing" /\ Running("relay")
             THEN Upto(WriteTimeout, write_age["relay"] + 1) ELSE write_age["relay"]
      /\ lost_age'["relay"] = IF "relay" \in lost /\ Running("relay")
             THEN Upto(MaxLostAge, lost_age["relay"] + 1) ELSE 0
  BY <1>2, Peers DEF Writing
<1>4. loop["relay"] # "ping"
  BY DEF RelayInTime
<1>5. CASE "relay" \notin lost \/ loop["relay"] = "ended"
  <2>1. RelayIsFresh'
    BY <1>1, <1>3, <1>4, <1>5 DEF RelayIsFresh, Running
  <2> QED
    BY <2>1, RelayFreshNext
<1>6. CASE "relay" \in lost /\ ~heartbeat["relay"]
  BY <1>1, <1>3, <1>4, <1>6 DEF RelayInTime
<1>7. CASE "relay" \in lost /\ heartbeat["relay"] /\ Running("relay")
  <2>1. /\ lost_age'["relay"] \in Nat /\ frame_age'["relay"] \in Nat
        /\ lost_age'["relay"] <= lost_age["relay"] + 1
        /\ frame_age["relay"] < DeadAfter => frame_age'["relay"] = frame_age["relay"] + 1
        /\ frame_age["relay"] = DeadAfter => frame_age'["relay"] = DeadAfter
    BY <1>3, <1>7, RelayNumbers, Sizes, LostAges DEF Upto
  <2>2. Signs' = Signs /\ SpentTime' = SpentTime
    BY <1>1 DEF Signs, Spent, SpentTime
  <2>3. SpentTime \in Nat /\ SendTime' \in 0..WriteTimeout
    BY RelayNumbers, RelayNumbersNext
  <2>4. loop["relay"] \in {"select", "send"} /\ lost_age["relay"] <= Allowed
    BY <1>1, <1>4, <1>7, RelayIdles, InTimeIs
  <2>5. lost_age'["relay"] <= Allowed'
    <3>1. CASE loop["relay"] = "select"
      <4>1. Signs = 0 /\ frame_age["relay"] < DeadAfter
        BY <1>1, <1>4, <1>7, <3>1, RelayIdles
      <4>2. lost_age["relay"] <= SpentTime + frame_age["relay"]
        BY <2>4, <4>1 DEF Allowed
      <4>3. Signs' = 0
        BY <2>2, <4>1
      <4>4. CASE frame_age'["relay"] < DeadAfter
        <5>1. Allowed' = SpentTime + frame_age'["relay"]
          BY <2>2, <4>3, <4>4 DEF Allowed
        <5> QED
          BY <2>1, <2>3, <4>1, <4>2, <5>1, RelayNumbers, Sizes
      <4>5. CASE ~(frame_age'["relay"] < DeadAfter)
        <5>1. Allowed' = SpentTime + DeadAfter + SendTime'
          BY <2>2, <4>3, <4>5 DEF Allowed
        <5>2. frame_age'["relay"] = DeadAfter
          BY <2>1, <4>1, <4>5, RelayNumbers, Sizes
        <5> QED
          BY <2>1, <2>3, <4>1, <4>2, <5>1, <5>2, RelayNumbers, Sizes
      <4> QED
        BY <4>4, <4>5
    <3>2. CASE loop["relay"] = "send"
      <4>1. /\ writer = "writing" /\ Len(writer_rx) = Capacity
            /\ write_age["relay"] < WriteTimeout
        BY <1>1, <1>4, <1>7, <3>2, RelayIdles
      <4>2. SendTime = write_age["relay"] /\ SendTime' = write_age["relay"] + 1
        <5>1. SendTime = write_age["relay"]
          BY <3>2, <4>1 DEF SendTime
        <5>2. Upto(WriteTimeout, write_age["relay"] + 1) = write_age["relay"] + 1
          <6>1. write_age["relay"] \in Nat
            BY RelayTypes, Sizes
          <6> QED
            BY <4>1, <6>1, Sizes DEF Upto
        <5>3. write_age'["relay"] = write_age["relay"] + 1
          BY <1>3, <1>7, <4>1, <5>2
        <5>4. SendTime' = write_age'["relay"]
          BY <1>1, <3>2, <4>1 DEF SendTime
        <5> QED
          BY <5>1, <5>3, <5>4
      <4>3. CASE Signs > 0
        <5>1. Allowed = SpentTime + SendTime /\ Allowed' = SpentTime + SendTime'
          BY <2>2, <4>3 DEF Allowed
        <5> QED
          BY <2>1, <2>3, <2>4, <4>2, <5>1, RelayNumbers
      <4>4. CASE ~(Signs > 0) /\ frame_age["relay"] < DeadAfter
        <5>1. Allowed = SpentTime + frame_age["relay"]
          BY <4>4 DEF Allowed
        <5>2. CASE frame_age'["relay"] < DeadAfter
          <6>1. Allowed' = SpentTime + frame_age'["relay"]
            BY <2>2, <4>4, <5>2 DEF Allowed
          <6> QED
            BY <2>1, <2>3, <2>4, <4>4, <5>1, <6>1, RelayNumbers
        <5>3. CASE ~(frame_age'["relay"] < DeadAfter)
          <6>1. Allowed' = SpentTime + DeadAfter + SendTime'
            BY <2>2, <4>4, <5>3 DEF Allowed
          <6>2. frame_age'["relay"] = DeadAfter
            BY <2>1, <4>4, <5>3, RelayNumbers, Sizes
          <6> QED
            BY <2>1, <2>3, <2>4, <4>4, <5>1, <6>1, <6>2, RelayNumbers, Sizes
        <5> QED
          BY <5>2, <5>3
      <4>5. CASE ~(Signs > 0) /\ ~(frame_age["relay"] < DeadAfter)
        <5>1. frame_age["relay"] = DeadAfter /\ frame_age'["relay"] = DeadAfter
          BY <2>1, <4>5, RelayNumbers, Sizes
        <5>2. ~(frame_age'["relay"] < DeadAfter)
          BY <5>1, Sizes
        <5>3. /\ Allowed = SpentTime + DeadAfter + SendTime
              /\ Allowed' = SpentTime + DeadAfter + SendTime'
          BY <2>2, <4>5, <5>2 DEF Allowed
        <5> QED
          BY <2>1, <2>3, <2>4, <4>2, <5>3, RelayNumbers, Sizes
      <4> QED
        BY <4>3, <4>4, <4>5
    <3> QED
      BY <2>4, <3>1, <3>2
  <2> QED
    BY <1>1, <1>4, <1>7, <2>4, <2>5, InTimeIsNext
<1> QED
  BY <1>5, <1>6, <1>7 DEF Running

\* Every step keeps the relay in time.
LEMMA RelayInTimeStep == TypeOK /\ TypeOK' /\ HeldFrames /\ RelayInTime /\ [Next]_vars => RelayInTime'
<1> SUFFICES ASSUME TypeOK, TypeOK', HeldFrames, RelayInTime, [Next]_vars
             PROVE  RelayInTime'
  OBVIOUS
<1> USE Peers
<1>n. LoopType /\ ReaderType /\ ChannelType /\ WriteType
  BY DEF TypeOK
<1>l. /\ loop["relay"] # "ping"
      /\ "relay" \notin lost => lost_age["relay"] = 0
      /\ heartbeat["relay"] /\ loop["relay"] \in {"select", "send"} =>
            lost_age["relay"] <= Allowed
  BY InTimeIs
<1>g. ASSUME heartbeat' = heartbeat, lost_age' = lost_age, lost \subseteq lost',
             loop["relay"] \in {"select", "send"}, loop'["relay"] \in {"select", "send"},
             heartbeat["relay"] => lost_age["relay"] <= Allowed'
      PROVE  RelayInTime'
  BY <1>g, <1>l, InTimeIsNext
<1>a. ASSUME heartbeat' = heartbeat, lost_age' = lost_age, lost \subseteq lost',
             \/ loop'["relay"] = loop["relay"]
             \/ {loop["relay"], loop'["relay"]} \subseteq {"select", "send"},
             frame_age'["relay"] = frame_age["relay"],
             frame_rx'["relay"] = frame_rx["relay"],
             reader'["relay"] = "full" <=> reader["relay"] = "full",
             forwarded' = forwarded, forwarded_before' = forwarded_before,
             SendTime' >= SendTime
      PROVE  RelayInTime'
  <2>1. Signs' = Signs
    BY <1>a DEF Signs
  <2>2. SpentTime' = SpentTime /\ Writes("relay")' = Writes("relay")
    BY <1>a, <2>1 DEF Spent, SpentTime, Writes
  <2>3. CASE loop["relay"] \in {"select", "send"}
    <3>1. Allowed' >= Allowed
      BY <1>a, <2>1, <2>2, RelayNumbers, RelayNumbersNext, Sizes DEF Allowed
    <3>2. heartbeat["relay"] => lost_age["relay"] <= Allowed'
      BY <1>l, <2>3, <3>1, RelayNumbers, AllowedIsLess, AllowedNext
    <3> QED
      BY <1>a, <1>g, <2>3, <3>2
  <2>4. CASE loop["relay"] \notin {"select", "send"}
    BY <1>a, <1>l, <2>2, <2>4 DEF RelayInTime
  <2> QED
    BY <2>3, <2>4
<1>b. ASSUME loop["relay"] \in {"select", "send"}, loop'["relay"] = "over",
             UNCHANGED <<heartbeat, lost, lost_age, forwarded_before>>,
             forwarded' \in {forwarded, forwarded + 1}
      PROVE  RelayInTime'
  <2>1. CASE heartbeat["relay"]
    <3>1. lost_age["relay"] <= DeadAfter + WritesTime
      BY <1>b, <2>1, RelayLeavesInTime
    <3>2. Writes("relay") \in Nat /\ Writes("relay")' \in Nat /\ Writes("relay") <= Writes("relay")'
      <4>1. forwarded \in Nat /\ forwarded_before \in 0..forwarded
        BY RelayTypes
      <4>2. Writes("relay") = forwarded - forwarded_before + Capacity + 2
        BY DEF Writes
      <4>3. Writes("relay")' = forwarded' - forwarded_before + Capacity + 2
        BY <1>b DEF Writes
      <4>4. CASE forwarded' = forwarded
        BY <4>1, <4>2, <4>3, <4>4, Sizes
      <4>5. CASE forwarded' = forwarded + 1
        BY <4>1, <4>2, <4>3, <4>5, Sizes
      <4> QED
        BY <1>b, <4>4, <4>5
    <3>3. WriteTimeout * Writes("relay") <= WriteTimeout * Writes("relay")'
      BY <3>2, Costs
    <3>4. WritesTime <= WritesTime'
      BY <3>3 DEF WritesTime
    <3>5. lost_age'["relay"] <= DeadAfter + WritesTime'
      BY <1>b, <3>1, <3>4, RelayNumbers, RelayNumbersNext, Sizes
    <3> QED
      BY <1>b, <1>l, <3>5, InTimeIsNext
  <2>2. CASE ~heartbeat["relay"]
    BY <1>b, <1>l, <2>2 DEF RelayInTime
  <2> QED
    BY <2>1, <2>2
<1>s. ASSUME loop'["relay"] = loop["relay"], UNCHANGED <<writer, writer_rx>>,
             write_age'["relay"] = write_age["relay"]
      PROVE  SendTime' >= SendTime
  <2>1. SendTime' = SendTime
    BY <1>s DEF SendTime
  <2> QED
    BY <2>1, RelayTypes, Sizes
<1>w. ASSUME SendTime' = WriteTimeout
      PROVE  SendTime' >= SendTime
  BY <1>w, RelayTypes, Sizes
<1>1. ASSUME NEW e \in Ends, CleanUp(e)
      PROVE  RelayInTime'
  <2>2. CASE e = "agent"
    <3>1. /\ heartbeat' = heartbeat /\ lost_age' = lost_age /\ lost \subseteq lost'
          /\ loop'["relay"] = loop["relay"] /\ frame_age'["relay"] = frame_age["relay"]
          /\ frame_rx'["relay"] = frame_rx["relay"]
          /\ reader'["relay"] = "full" <=> reader["relay"] = "full"
          /\ UNCHANGED <<forwarded, forwarded_before, writer, writer_rx>>
          /\ write_age'["relay"] = write_age["relay"]
      BY <1>1, <1>n, <2>2 DEF CleanUp, agentVars, readerVars, writeVars, relayVars, netVars, LoopType, ReaderType, ChannelType, WriteType, Running
    <3>2. SendTime' >= SendTime
      BY <3>1, <1>s
    <3> QED
      BY <3>1, <3>2, <1>a
  <2>3. CASE e = "relay"
    <3>1. loop'["relay"] = "ended" /\ UNCHANGED <<lost, lost_age>>
      BY <1>1, <1>n, <2>3 DEF CleanUp, netVars, LoopType
    <3> QED
      BY <3>1, <1>l DEF RelayInTime
  <2> QED
    BY <2>2, <2>3 DEF Ends
<1>2. ASSUME NEW e \in Ends, Read(e)
      PROVE  RelayInTime'
  <2>2. CASE e = "agent"
    <3>1. /\ heartbeat' = heartbeat /\ lost_age' = lost_age /\ lost \subseteq lost'
          /\ loop'["relay"] = loop["relay"] /\ frame_age'["relay"] = frame_age["relay"]
          /\ frame_rx'["relay"] = frame_rx["relay"]
          /\ reader'["relay"] = "full" <=> reader["relay"] = "full"
          /\ UNCHANGED <<forwarded, forwarded_before, writer, writer_rx>>
          /\ write_age'["relay"] = write_age["relay"]
      BY <1>2, <1>n, <2>2 DEF Read, agentVars, readerVars, writeVars, relayVars, netVars, LoopType, ReaderType, ChannelType, WriteType, Running
    <3>2. SendTime' >= SendTime
      BY <3>1, <1>s
    <3> QED
      BY <3>1, <3>2, <1>a
  <2>3. CASE e = "relay"
    <3>1. lost_age["relay"] = 0 /\ UNCHANGED <<loop, lost_age>>
      BY <1>2, <1>l, <2>3 DEF Read, netVars
    <3>2. RelayIsFresh'
      BY <1>l, <3>1 DEF RelayIsFresh
    <3> QED
      BY <3>2, RelayFreshNext
  <2> QED
    BY <2>2, <2>3 DEF Ends
<1>3. ASSUME NEW e \in Ends, HandOver(e)
      PROVE  RelayInTime'
  <2>2. CASE e = "agent"
    <3>1. /\ heartbeat' = heartbeat /\ lost_age' = lost_age /\ lost \subseteq lost'
          /\ loop'["relay"] = loop["relay"] /\ frame_age'["relay"] = frame_age["relay"]
          /\ frame_rx'["relay"] = frame_rx["relay"]
          /\ reader'["relay"] = "full" <=> reader["relay"] = "full"
          /\ UNCHANGED <<forwarded, forwarded_before, writer, writer_rx>>
          /\ write_age'["relay"] = write_age["relay"]
      BY <1>3, <1>n, <2>2 DEF HandOver, agentVars, readerVars, writeVars, relayVars, netVars, LoopType, ReaderType, ChannelType, WriteType, Running
    <3>2. SendTime' >= SendTime
      BY <3>1, <1>s
    <3> QED
      BY <3>1, <3>2, <1>a
  <2>3. CASE e = "relay"
    <3>1. /\ UNCHANGED <<heartbeat, loop, frame_age, lost, lost_age, forwarded, forwarded_before,
                       writer, writer_rx, write_age>>
          /\ reader["relay"] = "full" /\ reader'["relay"] = "length"
          /\ frame_rx'["relay"] = Append(frame_rx["relay"], in_hand["relay"])
      BY <1>3, <1>n, <2>3 DEF HandOver, agentVars, readerVars, writeVars, relayVars, netVars, ReaderType, ChannelType
    <3>2. frame_rx["relay"] \in Seq(Frames) /\ in_hand["relay"] \in Frames
      BY <1>n, <3>1 DEF ChannelType, HeldFrames
    <3>3. Len(frame_rx'["relay"]) = Len(frame_rx["relay"]) + 1 /\ Len(frame_rx["relay"]) \in Nat
      BY <3>1, <3>2, AppendProperties, LenProperties
    <3>4. Signs' = Signs
      <4>1. Signs = Len(frame_rx["relay"]) + 1 /\ Signs' = Len(frame_rx'["relay"]) + 0
        BY <3>1 DEF Signs
      <4> QED
        BY <3>3, <4>1
    <3>5. SpentTime' = SpentTime /\ SendTime' = SendTime /\ Writes("relay")' = Writes("relay")
      BY <3>1, <3>4 DEF Spent, SpentTime, SendTime, Writes
    <3>6. Allowed' = Allowed
      BY <3>1, <3>4, <3>5 DEF Allowed
    <3> QED
      BY <3>1, <3>5, <3>6 DEF RelayInTime
  <2> QED
    BY <2>2, <2>3 DEF Ends
<1>4. ASSUME NEW e \in Ends, ReadFails(e)
      PROVE  RelayInTime'
  <2>1. /\ heartbeat' = heartbeat /\ lost_age' = lost_age /\ lost \subseteq lost'
        /\ loop'["relay"] = loop["relay"] /\ frame_age'["relay"] = frame_age["relay"]
        /\ frame_rx'["relay"] = frame_rx["relay"]
        /\ reader'["relay"] = "full" <=> reader["relay"] = "full"
        /\ UNCHANGED <<forwarded, forwarded_before, writer, writer_rx>>
        /\ write_age'["relay"] = write_age["relay"]
    BY <1>4, <1>n DEF ReadFails, agentVars, readerVars, writeVars, relayVars, netVars, LoopType, ReaderType, ChannelType, WriteType, Running
  <2>2. SendTime' >= SendTime
    BY <2>1, <1>s
  <2> QED
    BY <2>1, <2>2, <1>a
<1>5. ASSUME NEW e \in Ends, ReaderGone(e)
      PROVE  RelayInTime'
  <2>2. CASE e = "agent"
    <3>1. /\ heartbeat' = heartbeat /\ lost_age' = lost_age /\ lost \subseteq lost'
          /\ loop'["relay"] = loop["relay"] /\ frame_age'["relay"] = frame_age["relay"]
          /\ frame_rx'["relay"] = frame_rx["relay"]
          /\ reader'["relay"] = "full" <=> reader["relay"] = "full"
          /\ UNCHANGED <<forwarded, forwarded_before, writer, writer_rx>>
          /\ write_age'["relay"] = write_age["relay"]
      BY <1>5, <1>n, <2>2 DEF ReaderGone, agentVars, readerVars, writeVars, relayVars, netVars, LoopType, ReaderType, ChannelType, WriteType, Running, Break
    <3>2. SendTime' >= SendTime
      BY <3>1, <1>s
    <3> QED
      BY <3>1, <3>2, <1>a
  <2>3. CASE e = "relay"
    BY <1>5, <1>b, <1>n, <2>3 DEF ReaderGone, Break, LoopType, netVars, relayVars
  <2> QED
    BY <2>2, <2>3 DEF Ends
<1>6. ASSUME NEW e \in Ends, HeartbeatMissed(e)
      PROVE  RelayInTime'
  <2>2. CASE e = "agent"
    <3>1. /\ heartbeat' = heartbeat /\ lost_age' = lost_age /\ lost \subseteq lost'
          /\ loop'["relay"] = loop["relay"] /\ frame_age'["relay"] = frame_age["relay"]
          /\ frame_rx'["relay"] = frame_rx["relay"]
          /\ reader'["relay"] = "full" <=> reader["relay"] = "full"
          /\ UNCHANGED <<forwarded, forwarded_before, writer, writer_rx>>
          /\ write_age'["relay"] = write_age["relay"]
      BY <1>6, <1>n, <2>2 DEF HeartbeatMissed, agentVars, readerVars, writeVars, relayVars, netVars, LoopType, ReaderType, ChannelType, WriteType, Running, Break
    <3>2. SendTime' >= SendTime
      BY <3>1, <1>s
    <3> QED
      BY <3>1, <3>2, <1>a
  <2>3. CASE e = "relay"
    BY <1>6, <1>b, <1>n, <2>3 DEF HeartbeatMissed, Break, LoopType, netVars, relayVars
  <2> QED
    BY <2>2, <2>3 DEF Ends
<1>7. ASSUME NEW e \in Ends, Lose(e)
      PROVE  RelayInTime'
  <2>2. CASE e = "agent"
    <3>1. /\ heartbeat' = heartbeat /\ lost_age' = lost_age /\ lost \subseteq lost'
          /\ loop'["relay"] = loop["relay"] /\ frame_age'["relay"] = frame_age["relay"]
          /\ frame_rx'["relay"] = frame_rx["relay"]
          /\ reader'["relay"] = "full" <=> reader["relay"] = "full"
          /\ UNCHANGED <<forwarded, forwarded_before, writer, writer_rx>>
          /\ write_age'["relay"] = write_age["relay"]
      BY <1>7, <1>n, <2>2 DEF Lose, agentVars, readerVars, writeVars, relayVars, netVars, LoopType, ReaderType, ChannelType, WriteType, Running
    <3>2. SendTime' >= SendTime
      BY <3>1, <1>s
    <3> QED
      BY <3>1, <3>2, <1>a
  <2>3. CASE e = "relay"
    <3>1. lost_age["relay"] = 0 /\ UNCHANGED <<loop, lost_age>>
      BY <1>7, <1>l, <2>3 DEF Lose
    <3>2. RelayIsFresh'
      BY <1>l, <3>1 DEF RelayIsFresh
    <3> QED
      BY <3>2, RelayFreshNext
  <2> QED
    BY <2>2, <2>3 DEF Ends
<1>8. CASE StartPing
  <2>1. /\ heartbeat' = heartbeat /\ lost_age' = lost_age /\ lost \subseteq lost'
        /\ loop'["relay"] = loop["relay"] /\ frame_age'["relay"] = frame_age["relay"]
        /\ frame_rx'["relay"] = frame_rx["relay"]
        /\ reader'["relay"] = "full" <=> reader["relay"] = "full"
        /\ UNCHANGED <<forwarded, forwarded_before, writer, writer_rx>>
        /\ write_age'["relay"] = write_age["relay"]
    BY <1>8, <1>n DEF StartPing, agentVars, readerVars, writeVars, relayVars, netVars, LoopType, ReaderType, ChannelType, WriteType, Running
  <2>2. SendTime' >= SendTime
    BY <2>1, <1>s
  <2> QED
    BY <2>1, <2>2, <1>a
<1>9. CASE WritePing
  <2>1. /\ heartbeat' = heartbeat /\ lost_age' = lost_age /\ lost \subseteq lost'
        /\ loop'["relay"] = loop["relay"] /\ frame_age'["relay"] = frame_age["relay"]
        /\ frame_rx'["relay"] = frame_rx["relay"]
        /\ reader'["relay"] = "full" <=> reader["relay"] = "full"
        /\ UNCHANGED <<forwarded, forwarded_before, writer, writer_rx>>
        /\ write_age'["relay"] = write_age["relay"]
    BY <1>9, <1>n DEF WritePing, agentVars, readerVars, writeVars, relayVars, netVars, LoopType, ReaderType, ChannelType, WriteType, Running, PutPart
  <2>2. SendTime' >= SendTime
    BY <2>1, <1>s
  <2> QED
    BY <2>1, <2>2, <1>a
<1>10. CASE PingFails
  <2>1. /\ heartbeat' = heartbeat /\ lost_age' = lost_age /\ lost \subseteq lost'
        /\ loop'["relay"] = loop["relay"] /\ frame_age'["relay"] = frame_age["relay"]
        /\ frame_rx'["relay"] = frame_rx["relay"]
        /\ reader'["relay"] = "full" <=> reader["relay"] = "full"
        /\ UNCHANGED <<forwarded, forwarded_before, writer, writer_rx>>
        /\ write_age'["relay"] = write_age["relay"]
    BY <1>10, <1>n DEF PingFails, agentVars, readerVars, writeVars, relayVars, netVars, LoopType, ReaderType, ChannelType, WriteType, Running, Break
  <2>2. SendTime' >= SendTime
    BY <2>1, <1>s
  <2> QED
    BY <2>1, <2>2, <1>a
<1>11. CASE AgentReceive
  <2>1. /\ heartbeat' = heartbeat /\ lost_age' = lost_age /\ lost \subseteq lost'
        /\ loop'["relay"] = loop["relay"] /\ frame_age'["relay"] = frame_age["relay"]
        /\ frame_rx'["relay"] = frame_rx["relay"]
        /\ reader'["relay"] = "full" <=> reader["relay"] = "full"
        /\ UNCHANGED <<forwarded, forwarded_before, writer, writer_rx>>
        /\ write_age'["relay"] = write_age["relay"]
    BY <1>11, <1>n DEF AgentReceive, agentVars, readerVars, writeVars, relayVars, netVars, LoopType, ReaderType, ChannelType, WriteType, Running
  <2>2. SendTime' >= SendTime
    BY <2>1, <1>s
  <2> QED
    BY <2>1, <2>2, <1>a
<1>12. CASE ForwardOpen
  <2>1. /\ loop["relay"] = "select" /\ loop'["relay"] \in {"select", "send", "over"}
        /\ UNCHANGED <<heartbeat, frame_age, frame_rx, reader, lost, lost_age, forwarded_before>>
        /\ forwarded' = forwarded + 1
    BY <1>12, <1>n DEF ForwardOpen, Send, Break, agentVars, readerVars, writeVars, relayVars, netVars, LoopType
  <2>2. CASE loop'["relay"] = "over"
    BY <1>b, <2>1, <2>2
  <2>3. CASE loop'["relay"] # "over"
    <3>1. Signs' = Signs /\ Spent' = Spent + 1
      <4>1. Signs' = Signs
        BY <2>1 DEF Signs
      <4>2. forwarded \in Nat /\ forwarded_before \in 0..forwarded /\ Signs \in 0..Capacity + 1
        BY RelayTypes
      <4> QED
        BY <2>1, <4>1, <4>2, Sizes DEF Spent
    <3>2. SpentTime' = SpentTime + WriteTimeout
      BY <3>1, RelayTypes, Costs DEF SpentTime
    <3>3. SendTime = WriteTimeout
      BY <2>1 DEF SendTime
    <3>4. Allowed' >= Allowed
      BY <2>1, <3>1, <3>2, <3>3, RelayNumbers, RelayNumbersNext, Sizes DEF Allowed
    <3>5. heartbeat["relay"] => lost_age["relay"] <= Allowed'
      BY <1>l, <2>1, <3>4, RelayNumbers, AllowedIsLess, AllowedNext
    <3> QED
      BY <1>g, <2>1, <2>3, <3>5
  <2> QED
    BY <2>2, <2>3
<1>13. CASE RelayReceive
  <2>1. /\ loop["relay"] = "select" /\ loop'["relay"] \in {"select", "send", "over"}
        /\ UNCHANGED <<heartbeat, reader, lost, lost_age, forwarded, forwarded_before>>
        /\ frame_rx["relay"] # <<>> /\ frame_rx'["relay"] = Tail(frame_rx["relay"])
        /\ frame_age'["relay"] = 0
    BY <1>13, <1>n DEF RelayReceive, Send, Break, agentVars, readerVars, writeVars, relayVars, netVars, LoopType, ChannelType
  <2>2. CASE loop'["relay"] = "over"
    BY <1>b, <2>1, <2>2
  <2>3. CASE loop'["relay"] # "over"
    <3>1. /\ frame_rx["relay"] \in Seq(Frames) /\ Len(frame_rx["relay"]) \in Nat \ {0}
          /\ Len(frame_rx'["relay"]) = Len(frame_rx["relay"]) - 1
      BY <1>n, <2>1, TakeOne DEF ChannelType
    <3>2. Signs > 0 /\ Signs' = Signs - 1
      <4>1. CASE reader["relay"] = "full"
        <5>1. Signs = Len(frame_rx["relay"]) + 1 /\ Signs' = Len(frame_rx'["relay"]) + 1
          BY <2>1, <4>1 DEF Signs
        <5> QED
          BY <3>1, <5>1
      <4>2. CASE reader["relay"] # "full"
        <5>1. Signs = Len(frame_rx["relay"]) + 0 /\ Signs' = Len(frame_rx'["relay"]) + 0
          BY <2>1, <4>2 DEF Signs
        <5> QED
          BY <3>1, <5>1
      <4> QED
        BY <4>1, <4>2
    <3>3. Spent' = Spent + 1
      <4>1. forwarded \in Nat /\ forwarded_before \in 0..forwarded /\ Signs \in 0..Capacity + 1
        BY RelayTypes
      <4> QED
        BY <2>1, <3>2, <4>1, Sizes DEF Spent
    <3>4. SpentTime' = SpentTime + WriteTimeout
      BY <3>3, RelayTypes, Costs DEF SpentTime
    <3>5. SendTime = WriteTimeout
      BY <2>1 DEF SendTime
    <3>6. Allowed = SpentTime + WriteTimeout
      BY <3>2, <3>5 DEF Allowed
    <3>7. Allowed' >= SpentTime'
      BY <2>1, RelayNumbersNext, Sizes DEF Allowed
    <3>8. heartbeat["relay"] => lost_age["relay"] <= Allowed'
      <4>1. Allowed <= Allowed'
        BY <3>4, <3>6, <3>7
      <4> QED
        BY <1>l, <2>1, <4>1, RelayNumbers, AllowedIsLess, AllowedNext
    <3> QED
      BY <1>g, <2>1, <2>3, <3>8
  <2> QED
    BY <2>2, <2>3
<1>14. CASE Sent
  <2>1. /\ loop["relay"] = "send" /\ loop'["relay"] \in {"select", "over"}
        /\ UNCHANGED <<heartbeat, frame_age, frame_rx, reader, lost, lost_age, forwarded, forwarded_before>>
    BY <1>14, <1>n DEF Sent, Break, agentVars, readerVars, writeVars, relayVars, netVars, LoopType
  <2>2. CASE loop'["relay"] = "over"
    BY <1>b, <2>1, <2>2
  <2>3. CASE loop'["relay"] = "select"
    <3>1. SendTime' >= SendTime
      BY <1>w, <2>3 DEF SendTime
    <3> QED
      BY <1>a, <2>1, <2>3, <3>1
  <2> QED
    BY <2>1, <2>2, <2>3
<1>15. CASE WriterGone
  BY <1>15, <1>b, <1>n DEF WriterGone, Break, LoopType, netVars, relayVars
<1>16. CASE Replaced
  BY <1>16, <1>b, <1>n DEF Replaced, Break, LoopType, netVars, relayVars
<1>17. CASE TakeFrame
  <2>1. UNCHANGED <<heartbeat, loop, frame_age, frame_rx, reader, lost, lost_age, forwarded, forwarded_before>>
    BY <1>17 DEF TakeFrame, agentVars, readerVars, writeVars, relayVars, netVars
  <2>2. SendTime' >= SendTime
    <3>1. writer_rx \in Seq(Frames) /\ writer_rx # <<>> /\ writer_rx' = Tail(writer_rx)
      BY <1>17 DEF TakeFrame, TypeOK, QueueType
    <3>2. Len(writer_rx') = Len(writer_rx) - 1
      BY <3>1, TakeOne
    <3>3. Len(writer_rx') # Capacity
      BY <3>2, RelayTypes, Sizes
    <3> QED
      BY <1>w, <3>3 DEF SendTime
  <2> QED
    BY <1>a, <2>1, <2>2
<1>18. CASE WriteFrame
  <2>1. UNCHANGED <<heartbeat, loop, frame_age, frame_rx, reader, lost, lost_age, forwarded, forwarded_before>>
    BY <1>18 DEF WriteFrame, agentVars, readerVars, writeVars, relayVars, netVars
  <2>2. SendTime' >= SendTime
    <3>1. CASE parts["relay"] = 1
      <4>1. writer' # "writing"
        BY <1>18, <3>1 DEF WriteFrame
      <4> QED
        BY <1>w, <4>1 DEF SendTime
    <3>2. CASE parts["relay"] # 1
      <4>1. UNCHANGED <<writer, writer_rx, write_age>>
        BY <1>18, <3>2 DEF WriteFrame, PutPart
      <4> QED
        BY <1>s, <2>1, <4>1
    <3> QED
      BY <3>1, <3>2
  <2> QED
    BY <1>a, <2>1, <2>2
<1>19. CASE WriterFails
  <2>1. UNCHANGED <<heartbeat, loop, frame_age, frame_rx, reader, lost, lost_age, forwarded, forwarded_before>>
    BY <1>19 DEF WriterFails, agentVars, readerVars, writeVars, relayVars, netVars
  <2>2. SendTime' >= SendTime
    <3>1. writer' # "writing"
      BY <1>19 DEF WriterFails
    <3> QED
      BY <1>w, <3>1 DEF SendTime
  <2> QED
    BY <1>a, <2>1, <2>2
<1>20. CASE AskOpen
  <2>1. /\ heartbeat' = heartbeat /\ lost_age' = lost_age /\ lost \subseteq lost'
        /\ loop'["relay"] = loop["relay"] /\ frame_age'["relay"] = frame_age["relay"]
        /\ frame_rx'["relay"] = frame_rx["relay"]
        /\ reader'["relay"] = "full" <=> reader["relay"] = "full"
        /\ UNCHANGED <<forwarded, forwarded_before, writer, writer_rx>>
        /\ write_age'["relay"] = write_age["relay"]
    BY <1>20, <1>n DEF AskOpen, agentVars, readerVars, writeVars, relayVars, netVars, LoopType, ReaderType, ChannelType, WriteType, Running
  <2>2. SendTime' >= SendTime
    BY <2>1, <1>s
  <2> QED
    BY <2>1, <2>2, <1>a
<1>21. CASE StopDevice
  <2>1. /\ heartbeat' = heartbeat /\ lost_age' = lost_age /\ lost \subseteq lost'
        /\ loop'["relay"] = loop["relay"] /\ frame_age'["relay"] = frame_age["relay"]
        /\ frame_rx'["relay"] = frame_rx["relay"]
        /\ reader'["relay"] = "full" <=> reader["relay"] = "full"
        /\ UNCHANGED <<forwarded, forwarded_before, writer, writer_rx>>
        /\ write_age'["relay"] = write_age["relay"]
    BY <1>21, <1>n DEF StopDevice, agentVars, readerVars, writeVars, relayVars, netVars, LoopType, ReaderType, ChannelType, WriteType, Running
  <2>2. SendTime' >= SendTime
    BY <2>1, <1>s
  <2> QED
    BY <2>1, <2>2, <1>a
<1>22. CASE Reset
  <2>1. /\ heartbeat' = heartbeat /\ lost_age' = lost_age /\ lost \subseteq lost'
        /\ loop'["relay"] = loop["relay"] /\ frame_age'["relay"] = frame_age["relay"]
        /\ frame_rx'["relay"] = frame_rx["relay"]
        /\ reader'["relay"] = "full" <=> reader["relay"] = "full"
        /\ UNCHANGED <<forwarded, forwarded_before, writer, writer_rx>>
        /\ write_age'["relay"] = write_age["relay"]
    BY <1>22, <1>n DEF Reset, agentVars, readerVars, writeVars, relayVars, netVars, LoopType, ReaderType, ChannelType, WriteType, Running
  <2>2. SendTime' >= SendTime
    BY <2>1, <1>s
  <2> QED
    BY <2>1, <2>2, <1>a
<1>23. CASE Tick
  BY <1>23, RelayTickInTime
<1>0. CASE UNCHANGED vars
  <2>1. /\ heartbeat' = heartbeat /\ lost_age' = lost_age /\ lost \subseteq lost'
        /\ loop'["relay"] = loop["relay"] /\ frame_age'["relay"] = frame_age["relay"]
        /\ frame_rx'["relay"] = frame_rx["relay"]
        /\ reader'["relay"] = "full" <=> reader["relay"] = "full"
        /\ UNCHANGED <<forwarded, forwarded_before, writer, writer_rx>>
        /\ write_age'["relay"] = write_age["relay"]
    BY <1>0, <1>n DEF vars, agentVars, readerVars, writeVars, relayVars, netVars, LoopType, ReaderType, ChannelType, WriteType, Running
  <2>2. SendTime' >= SendTime
    BY <2>1, <1>s
  <2> QED
    BY <2>1, <2>2, <1>a
<1> QED
  BY <1>0, <1>1, <1>2, <1>3, <1>4, <1>5, <1>6, <1>7, <1>8, <1>9, <1>10, <1>11, <1>12, <1>13, <1>14, <1>15, <1>16, <1>17, <1>18, <1>19, <1>20, <1>21, <1>22, <1>23
     DEF Next, TaskStep, NetStep, Environment

-----------------------------------------------------------------------------

\* A new connection satisfies the inductive invariant.
LEMMA InvariantInit == Init => IInv
<1> SUFFICES ASSUME Init
             PROVE  IInv
  OBVIOUS
<1>1. /\ <<>> \in Seq(Frames) /\ <<>> \in Seq(Part) /\ <<>> \in Seq(1..MaxOpens)
      /\ Len(<<>>) = 0
  BY EmptySeq
<1>2. LoopType
  BY Sizes DEF Init, Negotiate, LoopType
<1>3. ReaderType /\ WriterType
  BY DEF Init, ReaderType, WriterType
<1>4. ChannelType /\ WireType /\ QueueType
  BY <1>1, Sizes DEF Init, ChannelType, WireType, QueueType
<1>5. WriteType /\ NetType
  <2>1. 0 \in 0..WriteTimeout /\ 0 \in 0..MaxLostAge
    BY Sizes, LostAges
  <2>2. WriteType
    BY <2>1 DEF Init, WriteType
  <2>3. stopped = FALSE /\ lost = {} /\ reset = FALSE /\ lost_age = [e \in Ends |-> 0]
    BY DEF Init
  <2>4. lost_age \in [Ends -> 0..MaxLostAge]
    BY <2>1, <2>3, Zenon
  <2> QED
    BY <2>2, <2>3, <2>4 DEF NetType
<1>6. OpensType
  BY <1>1, Sizes DEF Init, OpensType
<1>7. HeldFrames /\ FramesStayAligned
  BY Peers DEF Init, HeldFrames, FramesStayAligned
<1>8. Alignment
  BY <1>1, Peers DEF Init, Alignment, Aligned, Alternate, HalfWritten, Expected
<1>10. RelayInTime
  <2>1. TypeOK
    BY <1>2, <1>3, <1>4, <1>5, <1>6 DEF TypeOK
  <2>2. RelayIsFresh
    BY Peers DEF Init, RelayIsFresh
  <2> QED
    BY <2>1, <2>2, RelayFreshInTime
<1>9. AgentInTime
  <2>1. TypeOK
    BY <1>2, <1>3, <1>4, <1>5, <1>6 DEF TypeOK
  <2>2. AgentIsFresh
    BY Peers DEF Init, AgentIsFresh
  <2> QED
    BY <2>1, <2>2, FreshInTime
<1> QED
  BY <1>2, <1>3, <1>4, <1>5, <1>6, <1>7, <1>8, <1>9, <1>10 DEF IInv, TypeOK

\* The inductive invariant of a control connection, for every interval,
\* latency and capacity.
THEOREM Invariant == Spec => []IInv
<1>1. IInv /\ [Next]_vars => IInv'
  BY TypeStep, HeldStep, AlignmentStep, InTimeStep, RelayInTimeStep DEF IInv
<1> QED
  BY InvariantInit, <1>1, PTL DEF Spec

\* Every channel of a control connection stays within its capacity and every
\* age within its deadline, whatever the order of timers, frames and losses.
THEOREM TypeCorrect == Spec => []TypeOK
BY Invariant, PTL DEF IInv

\* No reader task ever takes a payload for a length: heartbeats, timeouts of
\* writes, replacement and loss never cut a frame that is still read, because
\* only the reader tasks read and only one task writes at each end
\* (FramesStayAligned).
THEOREM AlwaysAligned == Spec => []FramesStayAligned
BY Invariant, PTL DEF IInv

\* An end that nothing reaches any more leaves the channel, for any intervals,
\* deadlines, latency and capacities: the agent DeadAfter and two write timeouts
\* later, the relay DeadAfter and one write timeout for each frame that it may
\* still send, whatever is read, written or waited for in between
\* (DeadPeerIsNoticed; run_control_stream, agent.rs 243-300, handle_agent,
\* server.rs 503-560).
THEOREM DeadPeersAreNoticed == Spec => []DeadPeerIsNoticed
<1>1. IInv => DeadPeerIsNoticed
  <2> SUFFICES ASSUME IInv
               PROVE  NoticedBy("agent") /\ NoticedBy("relay")
    BY DEF DeadPeerIsNoticed, Ends
  <2>1. TypeOK /\ AgentInTime /\ RelayInTime
    BY DEF IInv
  <2>2. NoticedBy("agent")
    <3>1. Writes("agent") = 2 /\ WriteTimeout * 2 = 2 * WriteTimeout
      BY Sizes DEF Writes
    <3>2. ASSUME heartbeat["agent"], Running("agent")
          PROVE  lost_age["agent"] <= DeadAfter + 2 * WriteTimeout
      <4>1. CASE loop["agent"] = "over"
        BY <2>1, <3>2, <4>1 DEF AgentInTime
      <4>2. CASE loop["agent"] \in {"select", "ping"}
        BY <2>1, <3>2, <4>2, LeavesInTime
      <4> QED
        BY <2>1, <3>2, <4>1, <4>2, AgentTypes DEF AgentInTime, Running
    <3> QED
      BY <2>1, <3>1, <3>2, AgentTypes, Sizes DEF NoticedBy
  <2>3. NoticedBy("relay")
    <3>1. ASSUME heartbeat["relay"], Running("relay")
          PROVE  lost_age["relay"] <= DeadAfter + WritesTime
      <4>1. CASE loop["relay"] = "over"
        BY <2>1, <3>1, <4>1, InTimeIs
      <4>2. CASE loop["relay"] \in {"select", "send"}
        BY <2>1, <3>1, <4>2, RelayLeavesInTime
      <4> QED
        BY <2>1, <3>1, <4>1, <4>2, RelayTypes, InTimeIs DEF Running
    <3> QED
      BY <2>1, <3>1, RelayNumbers, Sizes DEF NoticedBy, WritesTime
  <2> QED
    BY <2>2, <2>3
<1> QED
  BY Invariant, <1>1, PTL

-----------------------------------------------------------------------------
(* A connection that works, and on which neither end gives up.             *)

Works == lost = {} /\ ~reset /\ ~stopped

TasksRun ==
    /\ loop["agent"] \in {"select", "ping"} /\ loop["relay"] \in {"select", "send"}
    /\ \A e \in Ends : reader[e] \in {"length", "payload", "full"}
    /\ writer \in {"idle", "writing"}
    /\ heartbeat["agent"] = heartbeat["relay"]

\* The parts in q came one after the other, and but for the length of the frame
\* being written they were there when its write began, age ago; p tells whether
\* that length is.
Ordered(q, p, age) ==
    /\ \A i, j \in 1..Len(q) : i <= j => q[j].age <= q[i].age
    /\ \A i \in 1..Len(q) : p = 0 \/ i < Len(q) => age <= q[i].age

\* The relay's writer only waits for parts that are at least as old as its
\* wait.
RelayWrites ==
    /\ writer # "writing" => write_age["relay"] = 0 /\ parts["relay"] = 0
    /\ write_age["relay"] <= Latency
    /\ Ordered(wire["agent"], parts["relay"], write_age["relay"])

\* The agent has written a Ping of which parts are under way.
PingUnderWay == loop["agent"] = "select" /\ wire["relay"] # <<>>

Aged(q, age) == \A i \in 1..Len(q) : q[i].age = age

\* A Ping is read before the next is due, so its write never waits.
AgentWrites ==
    /\ loop["agent"] = "ping" =>
          /\ heartbeat["agent"] /\ ping_age = PingInterval /\ write_age["agent"] = 0
          /\ Len(wire["relay"]) <= parts["agent"] /\ Aged(wire["relay"], 0)
    /\ loop["agent"] = "select" => parts["agent"] = 0 /\ Len(wire["relay"]) <= 2
    /\ PingUnderWay =>
          heartbeat["agent"] /\ ping_age <= Latency /\ Aged(wire["relay"], ping_age)

\* The relay has something to write, or will have.
Busy == writer_rx # <<>> \/ writer = "writing" \/ loop["relay"] = "send" \/ Signs > 0

\* Where the first payload of q is, for a reader in state r.
FirstPayload(r) == IF r = "payload" THEN 1 ELSE 2

\* The last frame before the first in q came PingInterval and Latency before it
\* was written.
Heard(q, r, age) ==
    /\ Len(q) >= FirstPayload(r) => age <= PingInterval + Latency + q[FirstPayload(r)].age
    /\ Len(q) < FirstPayload(r) => age <= PingInterval + Latency

\* The agent hears at least the Pongs: one comes for each Ping, and what is
\* written before it counts as well.
AgentHears ==
    /\ frame_age["agent"] <= PingInterval + Latency + Latency
    /\ ~SignWaiting => Heard(wire["agent"], reader["agent"], frame_age["agent"])
    /\ ~SignWaiting /\ wire["agent"] = <<>> /\ ~Busy =>
          /\ frame_age["agent"] <= PingInterval + ping_age
          /\ ~PingUnderWay => frame_age["agent"] <= ping_age

\* The Pings that the relay has not answered yet, and when the oldest but one
\* of them, or the last that it has answered, was written.
Pings == Signs + IF PingUnderWay THEN 1 ELSE 0
Silence == PingInterval * Pings + ping_age

BlockTime ==
    IF loop["relay"] = "send" /\ writer = "writing" /\ Len(writer_rx) = Capacity
    THEN write_age["relay"] ELSE Latency

\* A Ping waits for the write of each Open that was forwarded, and of one Pong.
MostSilence == PingInterval + Latency * (forwarded + 1) + BlockTime

RelayHears ==
    /\ frame_age["relay"] <= Silence
    /\ Pings > 0 => Silence <= MostSilence

SteadyInv ==
    Works => /\ TasksRun /\ RelayWrites /\ AgentWrites
             /\ heartbeat["agent"] => AgentHears /\ RelayHears

LEMMA Ages ==
    ASSUME NEW q \in Seq(Part)
    PROVE  /\ Len(q) \in Nat /\ (q = <<>> <=> Len(q) = 0)
           /\ \A i \in 1..Len(q) : q[i] \in Part /\ q[i].age \in 0..Latency
<1>1. \A i \in 1..Len(q) : q[i] \in Part
  BY ElementOfSeq
<1>2. Len(q) \in Nat /\ (q = <<>> <=> Len(q) = 0)
  BY LenProperties, EmptySeq
<1> QED
  BY <1>1, <1>2 DEF Part

LEMMA TailIs ==
    ASSUME NEW q \in Seq(Part), q # <<>>
    PROVE  /\ Tail(q) \in Seq(Part) /\ Len(Tail(q)) = Len(q) - 1 /\ Len(q) \in Nat \ {0}
           /\ \A i \in 1..Len(Tail(q)) : i + 1 \in 1..Len(q) /\ Tail(q)[i] = q[i + 1]
           /\ Head(q) = q[1]
<1>1. /\ Tail(q) \in Seq(Part) /\ Len(Tail(q)) = Len(q) - 1 /\ Head(q) = q[1]
      /\ \A i \in 1 .. Len(q) - 1 : Tail(q)[i] = q[i + 1]
  BY HeadTailProperties
<1>2. Len(q) \in Nat \ {0}
  BY LenProperties, EmptySeq
<1> QED
  BY <1>1, <1>2

LEMMA MoreIs ==
    ASSUME NEW q \in Seq(Part), NEW x \in Part
    PROVE  /\ Append(q, x) \in Seq(Part) /\ Len(Append(q, x)) = Len(q) + 1 /\ Len(q) \in Nat
           /\ Append(q, x)[Len(q) + 1] = x /\ Append(q, x) # <<>>
           /\ \A i \in 1..Len(Append(q, x)) :
                 \/ i \in 1..Len(q) /\ Append(q, x)[i] = q[i]
                 \/ i = Len(q) + 1
<1>1. /\ Append(q, x) \in Seq(Part) /\ Len(Append(q, x)) = Len(q) + 1 /\ Len(q) \in Nat
      /\ Append(q, x)[Len(q) + 1] = x
      /\ \A i \in 1..Len(q) : Append(q, x)[i] = q[i]
  BY AppendProperties, LenProperties
<1>2. Append(q, x) # <<>>
  BY <1>1, EmptySeq
<1> QED
  BY <1>1, <1>2

\* The parts in q after a tick that none of them has been waiting too long for.
Later(q) == [i \in 1..Len(q) |-> [q[i] EXCEPT !.age = Upto(Latency, @ + 1)]]

LEMMA LaterIs ==
    ASSUME NEW q \in Seq(Part)
    PROVE  /\ Later(q) \in Seq(Part) /\ Len(Later(q)) = Len(q)
           /\ \A i \in 1..Len(q) : Later(q)[i].age = Upto(Latency, q[i].age + 1)
<1>1. Len(q) \in Nat /\ \A i \in 1..Len(q) : q[i] \in Part /\ q[i].age \in 0..Latency
  BY Ages
<1>2. ASSUME NEW i \in 1..Len(q)
      PROVE  /\ [q[i] EXCEPT !.age = Upto(Latency, @ + 1)] \in Part
             /\ [q[i] EXCEPT !.age = Upto(Latency, @ + 1)].age = Upto(Latency, q[i].age + 1)
  <2>1. Upto(Latency, q[i].age + 1) \in 0..Latency
    BY <1>1, <1>2, Sizes DEF Upto
  <2> QED
    BY <1>1, <1>2, <2>1 DEF Part
<1>3. Later(q) \in Seq(Part)
  BY <1>1, <1>2 DEF Later
<1>4. Len(Later(q)) = Len(q)
  BY <1>1 DEF Later
<1>5. \A i \in 1..Len(q) : Later(q)[i] = [q[i] EXCEPT !.age = Upto(Latency, @ + 1)]
  BY DEF Later
<1> QED
  BY <1>2, <1>3, <1>4, <1>5

-----------------------------------------------------------------------------
LEMMA OrderedTake ==
    ASSUME NEW q \in Seq(Part), q # <<>>, NEW p, NEW age \in Nat, Ordered(q, p, age)
    PROVE  Ordered(Tail(q), p, age)
<1> DEFINE t == Tail(q)
<1>1. /\ Len(t) = Len(q) - 1 /\ Len(q) \in Nat \ {0}
      /\ \A i \in 1..Len(t) : i + 1 \in 1..Len(q) /\ t[i] = q[i + 1]
  BY TailIs
<1> HIDE DEF t
<1>2. \A i, j \in 1..Len(t) : i <= j => t[j].age <= t[i].age
  <2> SUFFICES ASSUME NEW i \in 1..Len(t), NEW j \in 1..Len(t), i <= j
               PROVE  t[j].age <= t[i].age
    OBVIOUS
  <2>1. i + 1 \in 1..Len(q) /\ j + 1 \in 1..Len(q) /\ i + 1 <= j + 1
    BY <1>1
  <2> QED
    BY <1>1, <2>1 DEF Ordered
<1>3. ASSUME NEW i \in 1..Len(t), p = 0 \/ i < Len(t)
      PROVE  age <= t[i].age
  <2>1. i + 1 \in 1..Len(q) /\ (p = 0 \/ i + 1 < Len(q))
    BY <1>1, <1>3
  <2> QED
    BY <1>1, <2>1 DEF Ordered
<1> QED
  BY <1>2, <1>3 DEF Ordered, t

LEMMA OrderedPut ==
    ASSUME NEW q \in Seq(Part), NEW x \in Part, x.age = 0, NEW p \in {0, 1},
           NEW age \in Nat, Ordered(q, p, age)
    PROVE  IF p = 0 THEN Ordered(Append(q, x), 1, age) ELSE Ordered(Append(q, x), 0, 0)
<1> DEFINE m == Append(q, x)
<1>1. /\ Len(m) = Len(q) + 1 /\ Len(q) \in Nat /\ m[Len(q) + 1] = x
      /\ \A i \in 1..Len(m) : (i \in 1..Len(q) /\ m[i] = q[i]) \/ i = Len(q) + 1
  BY MoreIs
<1>2. /\ \A i \in 1..Len(q) : q[i].age \in Nat
  BY Ages, Sizes
<1> HIDE DEF m
<1>3. \A i, j \in 1..Len(m) : i <= j => m[j].age <= m[i].age
  BY <1>1, <1>2 DEF Ordered
<1>4. \A i \in 1..Len(m) : m[i].age \in Nat
  BY <1>1, <1>2
<1>5. CASE p = 0
  <2>1. \A i \in 1..Len(m) : i < Len(m) => age <= m[i].age
    BY <1>1, <1>5 DEF Ordered
  <2> QED
    BY <1>3, <1>5, <2>1 DEF Ordered, m
<1>6. CASE p = 1
  BY <1>3, <1>4, <1>6 DEF Ordered, m
<1> QED
  BY <1>5, <1>6

LEMMA OrderedAge ==
    ASSUME NEW q \in Seq(Part), NEW p \in {0, 1}, NEW age \in Nat, Ordered(q, p, age),
           NEW later \in {age, age + 1}, later <= Latency
    PROVE  Ordered(Later(q), p, later)
<1>1. /\ Len(Later(q)) = Len(q) /\ Len(q) \in Nat
      /\ \A i \in 1..Len(q) : Later(q)[i].age = Upto(Latency, q[i].age + 1)
  BY LaterIs, Ages
<1>2. \A i \in 1..Len(q) : q[i].age \in 0..Latency
  BY Ages
<1>3. \A i, j \in 1..Len(q) : i <= j => Later(q)[j].age <= Later(q)[i].age
  <2> SUFFICES ASSUME NEW i \in 1..Len(q), NEW j \in 1..Len(q), i <= j
               PROVE  Later(q)[j].age <= Later(q)[i].age
    OBVIOUS
  <2>1. q[j].age <= q[i].age /\ q[i].age \in 0..Latency /\ q[j].age \in 0..Latency
    BY <1>2 DEF Ordered
  <2>2. Upto(Latency, q[j].age + 1) <= Upto(Latency, q[i].age + 1)
    BY <2>1, Sizes DEF Upto
  <2> QED
    BY <1>1, <2>2
<1>4. \A i \in 1..Len(q) : p = 0 \/ i < Len(q) => later <= Later(q)[i].age
  BY <1>1, <1>2, Sizes DEF Ordered, Upto
<1> QED
  BY <1>1, <1>3, <1>4 DEF Ordered

LEMMA AgedTake ==
    ASSUME NEW q \in Seq(Part), q # <<>>, NEW age, Aged(q, age)
    PROVE  Aged(Tail(q), age)
BY TailIs DEF Aged

LEMMA AgedPut ==
    ASSUME NEW q \in Seq(Part), NEW x \in Part, x.age = 0, Aged(q, 0)
    PROVE  Aged(Append(q, x), 0)
<1> DEFINE m == Append(q, x)
<1>1. /\ m[Len(q) + 1] = x
      /\ \A i \in 1..Len(m) : (i \in 1..Len(q) /\ m[i] = q[i]) \/ i = Len(q) + 1
  BY MoreIs
<1> HIDE DEF m
<1>2. Aged(m, 0)
  BY <1>1 DEF Aged
<1> QED
  BY <1>2 DEF m

LEMMA AgedAge ==
    ASSUME NEW q \in Seq(Part), NEW age \in Nat, age < Latency, Aged(q, age)
    PROVE  Aged(Later(q), age + 1)
BY LaterIs, Sizes DEF Aged, Upto

LEMMA HeardTake ==
    ASSUME NEW q \in Seq(Part), q # <<>>, NEW age, Heard(q, "length", age)
    PROVE  Heard(Tail(q), "payload", age)
<1>1. /\ Len(Tail(q)) = Len(q) - 1 /\ Len(q) \in Nat \ {0}
      /\ 1 \in 1..Len(Tail(q)) => Tail(q)[1] = q[2]
  BY TailIs
<1> QED
  BY <1>1 DEF Heard, FirstPayload

LEMMA HeardPut ==
    ASSUME NEW q \in Seq(Part), NEW x \in Part, x.age = 0, NEW r, NEW age \in Nat, Heard(q, r, age)
    PROVE  Heard(Append(q, x), r, age)
<1> DEFINE m == Append(q, x)
<1>1. /\ Len(m) = Len(q) + 1 /\ Len(q) \in Nat /\ m[Len(q) + 1] = x
      /\ \A i \in 1..Len(m) : (i \in 1..Len(q) /\ m[i] = q[i]) \/ i = Len(q) + 1
  BY MoreIs
<1>2. FirstPayload(r) \in {1, 2}
  BY DEF FirstPayload
<1> HIDE DEF m
<1>3. CASE Len(q) >= FirstPayload(r)
  <2>1. m[FirstPayload(r)] = q[FirstPayload(r)]
    BY <1>1, <1>2, <1>3
  <2> QED
    BY <1>1, <1>2, <1>3, <2>1 DEF Heard, m
<1>4. CASE Len(q) < FirstPayload(r)
  <2>1. age <= PingInterval + Latency
    BY <1>4 DEF Heard
  <2>2. Len(m) >= FirstPayload(r) => m[FirstPayload(r)] = x
    BY <1>1, <1>2, <1>4
  <2>3. PingInterval + Latency + 0 = PingInterval + Latency
    BY Sizes
  <2> QED
    BY <2>1, <2>2, <2>3 DEF Heard, m
<1> QED
  BY <1>1, <1>2, <1>3, <1>4

\* What time passes while the first payload is under way.
LEMMA HeardAge ==
    ASSUME NEW q \in Seq(Part), NEW r, NEW age \in Nat, Heard(q, r, age),
           Len(q) >= FirstPayload(r), q[FirstPayload(r)].age < Latency
    PROVE  Heard(Later(q), r, age + 1) /\ age + 1 <= PingInterval + Latency + Latency
<1>1. FirstPayload(r) \in 1..Len(q)
  BY Ages DEF FirstPayload
<1>2. /\ q[FirstPayload(r)].age \in 0..Latency
      /\ Later(q)[FirstPayload(r)].age = Upto(Latency, q[FirstPayload(r)].age + 1)
      /\ Len(Later(q)) = Len(q) /\ Len(q) \in Nat
  BY <1>1, Ages, LaterIs
<1>3. Later(q)[FirstPayload(r)].age = q[FirstPayload(r)].age + 1
  BY <1>2, Sizes DEF Upto
<1>4. age <= PingInterval + Latency + q[FirstPayload(r)].age
  BY DEF Heard
<1>5. age + 1 <= PingInterval + Latency + Later(q)[FirstPayload(r)].age
  BY <1>2, <1>3, <1>4, Sizes
<1> QED
  BY <1>1, <1>2, <1>3, <1>4, <1>5, Sizes DEF Heard

-----------------------------------------------------------------------------
\* A connection that works, in which every part of the invariant holds.
Steady ==
    /\ TypeOK /\ HeldFrames /\ FramesStayAligned /\ Alignment /\ AgentInTime
    /\ Works /\ TasksRun /\ RelayWrites /\ AgentWrites
    /\ heartbeat["agent"] => AgentHears /\ RelayHears

\* The time of n Pings, and of n parts under way.
LEMMA Times ==
    /\ \A n \in Nat : /\ PingInterval * n \in Nat /\ Latency * n \in Nat
                     /\ PingInterval * (n + 1) = PingInterval * n + PingInterval
                     /\ Latency * (n + 1) = Latency * n + Latency
    /\ \A m, n \in Nat : m <= n => /\ PingInterval * m <= PingInterval * n
                                  /\ Latency * m <= Latency * n
<1> DEFINE P == PingInterval
           L == Latency
<1>1. P \in Nat /\ L \in Nat
  BY Sizes
<1> HIDE DEF P, L
<1>2. \A n \in Nat : /\ P * n \in Nat /\ L * n \in Nat
                    /\ P * (n + 1) = P * n + P /\ L * (n + 1) = L * n + L
  BY <1>1
<1>3. ASSUME NEW m \in Nat, NEW n \in Nat, m <= n
      PROVE  P * m <= P * n /\ L * m <= L * n
  <2>1. n - m \in Nat /\ P * (n - m) \in Nat /\ L * (n - m) \in Nat
    BY <1>2, <1>3
  <2>2. /\ P * (n - m) = P * n - P * m /\ L * (n - m) = L * n - L * m
        /\ P * n \in Nat /\ P * m \in Nat /\ L * n \in Nat /\ L * m \in Nat
    BY <1>1, <1>2
  <2> QED
    BY <2>1, <2>2
<1> QED
  BY <1>2, <1>3 DEF P, L

LEMMA SteadyTypes ==
    ASSUME TypeOK
    PROVE  /\ loop["agent"] \in {"select", "ping", "send", "over", "ended"}
           /\ frame_age["agent"] \in 0..DeadAfter /\ frame_age["relay"] \in 0..DeadAfter
           /\ write_age["agent"] \in 0..WriteTimeout /\ write_age["relay"] \in 0..WriteTimeout
           /\ parts["agent"] \in {0, 1} /\ parts["relay"] \in {0, 1}
           /\ ping_age \in 0..PingInterval
           /\ Len(frame_rx["relay"]) \in 0..Capacity /\ Len(writer_rx) \in 0..Capacity
           /\ forwarded \in 0..MaxOpens /\ Signs \in 0..Capacity + 1 /\ Pings \in 0..Capacity + 2
           /\ wire["agent"] \in Seq(Part) /\ wire["relay"] \in Seq(Part)
           /\ Len(wire["agent"]) \in 0..WireSize /\ Len(wire["relay"]) \in 0..WireSize
           /\ heartbeat["agent"] \in BOOLEAN /\ heartbeat["relay"] \in BOOLEAN
<1>1. /\ loop["agent"] \in {"select", "ping", "send", "over", "ended"}
      /\ frame_age["agent"] \in 0..DeadAfter /\ frame_age["relay"] \in 0..DeadAfter
      /\ write_age["agent"] \in 0..WriteTimeout /\ write_age["relay"] \in 0..WriteTimeout
      /\ ping_age \in 0..PingInterval
      /\ heartbeat["agent"] \in BOOLEAN /\ heartbeat["relay"] \in BOOLEAN
  BY Peers DEF TypeOK, LoopType, WriteType
<1>2. parts["agent"] \in {0, 1} /\ parts["relay"] \in {0, 1}
  <2>1. parts["agent"] \in 0..1 /\ parts["relay"] \in 0..1
    BY Peers DEF TypeOK, WriteType
  <2> QED
    BY <2>1
<1>3. /\ Len(frame_rx["relay"]) \in 0..Capacity /\ Len(writer_rx) \in 0..Capacity
      /\ Signs \in 0..Capacity + 1
  BY RelayTypes
<1>4. Pings \in 0..Capacity + 2
  BY <1>3, Sizes DEF Pings
<1>5. forwarded \in 0..MaxOpens
  <2>1. asked \in 0..MaxOpens /\ forwarded \in 0..asked
    BY DEF TypeOK, OpensType
  <2> QED
    BY <2>1, Sizes
<1>6. /\ wire["agent"] \in Seq(Part) /\ wire["relay"] \in Seq(Part)
      /\ Len(wire["agent"]) <= WireSize /\ Len(wire["relay"]) <= WireSize
  BY Peers DEF TypeOK, WireType
<1>7. Len(wire["agent"]) \in Nat /\ Len(wire["relay"]) \in Nat
  BY <1>6, Ages
<1> QED
  BY <1>1, <1>2, <1>3, <1>4, <1>5, <1>6, <1>7, Sizes

LEMMA SteadyTypesNext == TypeOK' =>
           (/\ frame_age["agent"] \in 0..DeadAfter /\ frame_age["relay"] \in 0..DeadAfter
            /\ ping_age \in 0..PingInterval /\ write_age["relay"] \in 0..WriteTimeout
            /\ forwarded \in 0..MaxOpens /\ Signs \in 0..Capacity + 1 /\ Pings \in 0..Capacity + 2
            /\ Len(frame_rx["relay"]) \in 0..Capacity /\ Len(writer_rx) \in 0..Capacity
            /\ wire["agent"] \in Seq(Part) /\ wire["relay"] \in Seq(Part))'
<1>1. TypeOK =>
           /\ frame_age["agent"] \in 0..DeadAfter /\ frame_age["relay"] \in 0..DeadAfter
           /\ ping_age \in 0..PingInterval /\ write_age["relay"] \in 0..WriteTimeout
           /\ forwarded \in 0..MaxOpens /\ Signs \in 0..Capacity + 1 /\ Pings \in 0..Capacity + 2
           /\ Len(frame_rx["relay"]) \in 0..Capacity /\ Len(writer_rx) \in 0..Capacity
           /\ wire["agent"] \in Seq(Part) /\ wire["relay"] \in Seq(Part)
  BY SteadyTypes
<1> QED
  BY <1>1, PTL

LEMMA SteadyConditions ==
    ASSUME SteadyTiming
    PROVE  /\ WireSize \in Nat /\ WireSize >= 2
           /\ Latency < PingInterval /\ Latency < WriteTimeout
           /\ Latency * (MaxOpens + 2) < PingInterval * (Capacity + 1)
           /\ PingInterval + Latency * (MaxOpens + 2) < DeadAfter
           /\ PingInterval + Latency + Latency < DeadAfter
<1>1. 2 \in Nat /\ MaxOpens + 2 \in Nat /\ 2 <= MaxOpens + 2
  BY Sizes
<1>2. Latency * 2 <= Latency * (MaxOpens + 2) /\ Latency * (MaxOpens + 2) \in Nat
  BY <1>1, Times
<1>3. Latency * 2 = Latency + Latency
  BY Sizes
<1> QED
  BY <1>2, <1>3, Sizes DEF SteadyTiming, LongestWait

\* Neither end misses heartbeats, as far as they are counted.
LEMMA RelayIsHeard ==
    ASSUME SteadyTiming, TypeOK, RelayHears, write_age["relay"] <= Latency
    PROVE  /\ frame_age["relay"] < DeadAfter
           /\ Pings > 0 => Silence <= PingInterval + Latency * (MaxOpens + 2)
           /\ Pings <= Capacity + 1
<1> DEFINE S == PingInterval * Pings
           F == Latency * (forwarded + 1)
           M == Latency * (MaxOpens + 2)
<1>1. /\ frame_age["relay"] \in Nat /\ ping_age \in 0..PingInterval /\ Pings \in 0..Capacity + 2
      /\ forwarded \in 0..MaxOpens /\ write_age["relay"] \in Nat
  BY SteadyTypes
<1>2. BlockTime \in Nat /\ BlockTime <= Latency
  BY <1>1, Sizes DEF BlockTime
<1>3. S \in Nat /\ F \in Nat /\ M \in Nat /\ F + Latency <= M
  <2>1. forwarded + 1 \in Nat /\ forwarded + 2 \in Nat /\ MaxOpens + 2 \in Nat /\ forwarded + 2 <= MaxOpens + 2
    BY <1>1, Sizes
  <2>2. Latency * ((forwarded + 1) + 1) = F + Latency /\ F \in Nat /\ M \in Nat
    BY <2>1, Times
  <2>3. (forwarded + 1) + 1 = forwarded + 2
    BY <1>1
  <2>4. Latency * (forwarded + 2) <= M
    BY <2>1, Times
  <2>5. Pings \in Nat
    BY <1>1
  <2> QED
    BY <2>2, <2>3, <2>4, <2>5, Times
<1>4. Pings = 0 => S = 0
  BY Sizes
<1>5. /\ frame_age["relay"] <= S + ping_age
      /\ Pings > 0 => S + ping_age <= PingInterval + F + BlockTime
  BY DEF RelayHears, Silence, MostSilence
<1>6. PingInterval + M < DeadAfter /\ M < PingInterval * (Capacity + 1)
  BY SteadyConditions
<1>7. ASSUME Pings = Capacity + 2
      PROVE  FALSE
  <2>1. Pings = (Capacity + 1) + 1 /\ Capacity + 1 \in Nat
    BY <1>7, Sizes
  <2>2. S = PingInterval * (Capacity + 1) + PingInterval /\ PingInterval * (Capacity + 1) \in Nat
    BY <2>1, Times
  <2>3. S + ping_age <= PingInterval + F + BlockTime
    BY <1>5, <1>7, Sizes
  <2> HIDE DEF S, F, M
  <2>4. DEFINE C == PingInterval * (Capacity + 1)
  <2>5. C \in Nat /\ S = C + PingInterval /\ M < C
    BY <2>2, <1>6
  <2> HIDE DEF C
  <2> QED
    BY <2>3, <2>5, <1>1, <1>2, <1>3, Sizes
<1>8. Pings > 0 => S + ping_age <= PingInterval + M
  <2> HIDE DEF S, F, M
  <2> QED
    BY <1>1, <1>2, <1>3, <1>5, Sizes
<1>9. frame_age["relay"] < DeadAfter
  <2> HIDE DEF S, F, M
  <2>1. CASE Pings = 0
    BY <2>1, <1>1, <1>3, <1>4, <1>5, <1>6, Sizes
  <2>2. CASE Pings > 0
    BY <2>2, <1>1, <1>3, <1>5, <1>6, <1>8, Sizes
  <2> QED
    BY <2>1, <2>2, <1>1
<1> QED
  BY <1>1, <1>7, <1>8, <1>9, Sizes DEF Silence

LEMMA SteadyRunning ==
    ASSUME Alignment, Works, TasksRun
    PROVE  /\ \A e \in Ends : Running(e) /\ e \notin lost
           /\ ~reset /\ ~stopped
           /\ Alternate(wire["agent"], reader["agent"]) /\ Alternate(wire["relay"], reader["relay"])
           /\ parts["relay"] = 1 <=> HalfWritten(wire["agent"], reader["agent"])
           /\ parts["agent"] = 1 <=> HalfWritten(wire["relay"], reader["relay"])
<1>1. \A e \in Ends : Running(e) /\ e \notin lost /\ reader[e] # "ended"
  <2>1. loop["agent"] # "ended" /\ loop["relay"] # "ended" /\ lost = {}
    BY DEF TasksRun, Works
  <2>2. \A e \in Ends : reader[e] \in {"length", "payload", "full"}
    BY DEF TasksRun
  <2> QED
    BY <2>1, <2>2 DEF Running, Ends
<1>2. ~reset /\ ~stopped
  BY DEF Works
<1>3. \A e \in Ends : Aligned(e)
  BY <1>1, <1>2 DEF Alignment
<1>4. ASSUME NEW e \in Ends
      PROVE  /\ Alternate(wire[e], reader[e])
             /\ parts[Peer(e)] = 1 <=> HalfWritten(wire[e], reader[e])
  BY <1>1, <1>3, Peers DEF Aligned
<1>5. Peer("agent") = "relay" /\ Peer("relay") = "agent"
  BY DEF Peer
<1>6. /\ Alternate(wire["agent"], reader["agent"])
      /\ parts["relay"] = 1 <=> HalfWritten(wire["agent"], reader["agent"])
  <2>1. /\ Alternate(wire["agent"], reader["agent"])
        /\ parts[Peer("agent")] = 1 <=> HalfWritten(wire["agent"], reader["agent"])
    BY <1>4, Peers
  <2> QED
    BY <2>1, <1>5
<1>7. /\ Alternate(wire["relay"], reader["relay"])
      /\ parts["agent"] = 1 <=> HalfWritten(wire["relay"], reader["relay"])
  <2>1. /\ Alternate(wire["relay"], reader["relay"])
        /\ parts[Peer("relay")] = 1 <=> HalfWritten(wire["relay"], reader["relay"])
    BY <1>4, Peers
  <2> QED
    BY <2>1, <1>5
<1> QED
  BY <1>1, <1>2, <1>6, <1>7

\* What the agent's loop finds when a Ping is due, or being written: room.
LEMMA PingHasRoom ==
    ASSUME SteadyTiming, Steady, loop["agent"] = "ping"
    PROVE  Room("agent") /\ ~WriteFails("agent")
<1>1. Len(wire["relay"]) <= parts["agent"] /\ parts["agent"] \in {0, 1} /\ Len(wire["relay"]) \in Nat
  BY SteadyTypes, Ages DEF Steady, AgentWrites
<1>2. Len(wire["relay"]) < WireSize
  BY <1>1, SteadyConditions
<1>3. Room("agent")
  BY <1>2, SteadyRunning DEF Room, Peer, Steady
<1>4. Running(Peer("agent"))
  BY SteadyRunning, Peers DEF Steady
<1> QED
  BY <1>3, <1>4 DEF WriteFails

LEMMA WriterIsPatient ==
    ASSUME SteadyTiming, Steady
    PROVE  ~WriteFails("relay")
<1>1. write_age["relay"] # WriteTimeout
  BY SteadyTypes, SteadyConditions, Sizes DEF Steady, RelayWrites
<1>2. Running(Peer("relay")) /\ ~reset
  BY SteadyRunning, Peers DEF Steady
<1> QED
  BY <1>1, <1>2 DEF WriteFails

LEMMA NothingIsMissed ==
    ASSUME SteadyTiming, Steady, NEW e \in Ends, heartbeat[e]
    PROVE  frame_age[e] # DeadAfter
<1>1. AgentHears /\ RelayHears /\ write_age["relay"] <= Latency
  BY DEF Steady, TasksRun, RelayWrites, Ends
<1>2. frame_age["relay"] < DeadAfter
  BY <1>1, RelayIsHeard DEF Steady
<1>t. frame_age["agent"] \in Nat /\ frame_age["relay"] \in Nat
  <2>1. TypeOK
    BY DEF Steady
  <2> QED
    BY <2>1, SteadyTypes
<1>3. frame_age["agent"] <= PingInterval + Latency + Latency
  BY <1>1 DEF AgentHears
<1>4. frame_age["agent"] < DeadAfter
  BY <1>3, <1>t, SteadyConditions, Sizes
<1> QED
  BY <1>2, <1>4, <1>t, Sizes DEF Ends

\* When time passes, the agent has read what it could, and the relay may wait
\* for room in writer_tx only while its writer waits for the agent.
LEMMA SteadyIdles ==
    ASSUME SteadyTiming, Steady, Idle
    PROVE  /\ loop["agent"] = "select" /\ ~SignWaiting
           /\ heartbeat["agent"] => ping_age < PingInterval
           /\ \/ loop["relay"] = "select" /\ Signs = 0
              \/ loop["relay"] = "send" /\ writer = "writing" /\ Len(writer_rx) = Capacity
           /\ writer = "writing" => Len(wire["agent"]) = WireSize
           /\ writer # "writing" => writer_rx = <<>>
           /\ wire["agent"] # <<>> => wire["agent"][1].age < Latency
<1>c. ~CanRun
  BY DEF Idle
<1>r. Running("agent") /\ Running("relay") /\ TypeOK /\ TasksRun
  BY SteadyRunning, Peers DEF Steady, Steady
<1>1. loop["agent"] = "select"
  <2>1. loop["agent"] # "ping"
    BY <1>c, PingHasRoom DEF CanRun
  <2> QED
    BY <1>r, <2>1 DEF TasksRun
<1>2. frame_rx["agent"] = <<>> /\ (heartbeat["agent"] => ping_age # PingInterval)
  BY <1>c, <1>1, Peers DEF CanRun
<1>3. reader["agent"] # "full"
  <2>1. Len(frame_rx["agent"]) < Capacity
    BY <1>2, EmptySeq, Sizes
  <2> QED
    BY <1>c, <1>r, <2>1, Peers DEF CanRun
<1>4. heartbeat["agent"] => ping_age < PingInterval
  BY <1>2, <1>r, SteadyTypes, Sizes
<1>5. ASSUME loop["relay"] = "select"
      PROVE  Signs = 0
  <2>1. frame_rx["relay"] = <<>>
    BY <1>c, <1>5, Peers DEF CanRun
  <2>2. Len(frame_rx["relay"]) = 0 /\ Len(frame_rx["relay"]) < Capacity
    BY <2>1, EmptySeq, Sizes
  <2>3. reader["relay"] # "full"
    BY <1>c, <1>r, <2>2, Peers DEF CanRun
  <2>4. Signs = 0
    BY <2>2, <2>3 DEF Signs
  <2> QED
    BY <1>5, <2>4
<1>6. writer # "writing" => writer_rx = <<>>
  <2>1. writer \in {"idle", "writing"}
    BY <1>r DEF TasksRun
  <2> QED
    BY <1>c, <1>r, <2>1 DEF CanRun
<1>7. ASSUME loop["relay"] = "send"
      PROVE  writer = "writing" /\ Len(writer_rx) = Capacity
  <2>1. ~(Len(writer_rx) < Capacity)
    BY <1>c, <1>7 DEF CanRun
  <2>2. Len(writer_rx) = Capacity
    BY <2>1, <1>r, RelayTypes, Sizes
  <2>3. writer_rx # <<>>
    BY <2>2, EmptySeq, Sizes
  <2> QED
    BY <1>7, <2>2, <2>3, <1>6
<1>8. writer = "writing" => Len(wire["agent"]) = WireSize
  <2>1. writer = "writing" => ~Room("relay")
    BY <1>c, <1>r DEF CanRun
  <2>2. writer = "writing" => ~(Len(wire["agent"]) < WireSize)
    BY <2>1, SteadyRunning DEF Room, Peer, Steady
  <2> QED
    BY <2>2, <1>r, SteadyTypes, Sizes
<1>9. wire["agent"] # <<>> => wire["agent"][1].age < Latency
  <2> SUFFICES ASSUME wire["agent"] # <<>>
               PROVE  wire["agent"][1].age < Latency
    OBVIOUS
  <2>1. reader["agent"] \in {"length", "payload"}
    BY <1>r, <1>3, Peers DEF TasksRun
  <2>2. CanRead("agent")
    BY <2>1, SteadyRunning, Peers DEF CanRead, Steady
  <2>3. Head(wire["agent"]).age # Latency
    BY <2>2, Peers DEF Idle
  <2>4. wire["agent"] \in Seq(Part)
    BY <1>r, SteadyTypes
  <2>5. Head(wire["agent"]) = wire["agent"][1] /\ 1 \in 1..Len(wire["agent"])
    BY <2>4, TailIs
  <2> QED
    BY <2>3, <2>4, <2>5, Ages, Sizes
<1>10. ~SignWaiting
  BY <1>2, <1>3 DEF SignWaiting
<1> QED
  BY <1>1, <1>4, <1>5, <1>6, <1>7, <1>8, <1>9, <1>10, <1>r DEF TasksRun

\* Then the first payload that is under way to the agent has time left, and the
\* relay has no Ping or Open that it keeps from the agent.
LEMMA PayloadsAreFresh ==
    ASSUME SteadyTiming, Steady, Idle
    PROVE  /\ wire["agent"] # <<>> =>
                 /\ Len(wire["agent"]) >= FirstPayload(reader["agent"])
                 /\ wire["agent"][FirstPayload(reader["agent"])].age < Latency
           /\ wire["agent"] = <<>> => ~Busy /\ reader["agent"] # "payload"
           /\ writer = "writing" => write_age["relay"] < Latency
<1> DEFINE q == wire["agent"]
           r == reader["agent"]
<1>t. /\ q \in Seq(Part) /\ Len(q) \in Nat /\ parts["relay"] \in {0, 1} /\ write_age["relay"] \in Nat
      /\ q = <<>> <=> Len(q) = 0
  BY SteadyTypes, Ages DEF Steady
<1>a. Alternate(q, r) /\ (parts["relay"] = 1 <=> HalfWritten(q, r))
  BY SteadyRunning DEF Steady
<1>o. Ordered(q, parts["relay"], write_age["relay"]) /\ (writer # "writing" => parts["relay"] = 0)
  BY DEF Steady, RelayWrites
<1>i. /\ loop["agent"] = "select" /\ ~SignWaiting
      /\ \/ loop["relay"] = "select" /\ Signs = 0
         \/ loop["relay"] = "send" /\ writer = "writing" /\ Len(writer_rx) = Capacity
      /\ writer = "writing" => Len(q) = WireSize
      /\ writer # "writing" => writer_rx = <<>>
      /\ q # <<>> => q[1].age < Latency
  BY SteadyIdles
<1>s. WireSize \in Nat /\ WireSize >= 2
  BY SteadyConditions
<1>g. \A i \in 1..Len(q) : q[i].age \in 0..Latency
  BY <1>t, Ages
<1> HIDE DEF q, r
<1>1. writer = "writing" => write_age["relay"] < Latency
  <2> SUFFICES ASSUME writer = "writing"
               PROVE  write_age["relay"] < Latency
    OBVIOUS
  <2>1. Len(q) >= 2 /\ 1 \in 1..Len(q) /\ 1 < Len(q)
    BY <1>i, <1>s, <1>t
  <2>2. write_age["relay"] <= q[1].age /\ q[1].age < Latency
    BY <2>1, <1>i, <1>o, <1>t DEF Ordered
  <2> QED
    BY <2>1, <2>2, <1>t, <1>g, Sizes
<1>2. ASSUME q # <<>>
      PROVE  Len(q) >= FirstPayload(r) /\ q[FirstPayload(r)].age < Latency
  <2>1. Len(q) >= 1 /\ 1 \in 1..Len(q)
    BY <1>2, <1>t
  <2>2. Len(q) >= FirstPayload(r)
    <3>0. Len(q) \in Nat /\ FirstPayload(r) \in {1, 2}
      BY <1>t DEF FirstPayload
    <3>1. CASE r = "payload"
      <4>1. FirstPayload(r) = 1
        BY <3>1 DEF FirstPayload
      <4> QED
        BY <2>1, <4>1
    <3>2. CASE r # "payload" /\ Len(q) = 1
      <4>1. q[Len(q)].part = "length"
        BY <3>2, <1>2, <1>a DEF Alternate, Expected
      <4>2. parts["relay"] = 1
        BY <4>1, <1>2, <1>a DEF HalfWritten
      <4> QED
        BY <4>2, <3>2, <1>o, <1>i, <1>s, <1>t
    <3>3. CASE r # "payload" /\ Len(q) # 1
      <4>1. FirstPayload(r) = 2
        BY <3>3 DEF FirstPayload
      <4>2. Len(q) >= 2
        <5>1. \A n \in Nat : n >= 1 /\ n # 1 => n >= 2
          OBVIOUS
        <5> QED
          BY <2>1, <3>0, <3>3, <5>1
      <4> QED
        BY <4>1, <4>2
    <3> QED
      BY <3>1, <3>2, <3>3
  <2>3. FirstPayload(r) \in 1..Len(q) /\ 1 <= FirstPayload(r)
    BY <2>2, <1>t DEF FirstPayload
  <2>4. q[FirstPayload(r)].age <= q[1].age
    BY <2>1, <2>3, <1>o DEF Ordered
  <2> QED
    BY <2>1, <2>2, <2>3, <2>4, <1>2, <1>g, <1>i, Sizes
<1>3. ASSUME q = <<>>
      PROVE  ~Busy /\ r # "payload"
  <2>1. writer # "writing"
    BY <1>3, <1>t, <1>i, <1>s
  <2>2. writer_rx = <<>> /\ loop["relay"] = "select" /\ Signs = 0
    BY <2>1, <1>i
  <2>3. r # "payload"
    BY <2>1, <1>3, <1>a, <1>o DEF HalfWritten, Expected
  <2> QED
    BY <2>1, <2>2, <2>3 DEF Busy
<1> QED
  BY <1>1, <1>2, <1>3 DEF q, r

\* And the relay's reader is not kept from a Ping under way.
LEMMA PingsAreFresh ==
    ASSUME SteadyTiming, Steady, Idle, heartbeat["agent"], PingUnderWay
    PROVE  ping_age < Latency
<1>1. TypeOK /\ RelayHears /\ write_age["relay"] <= Latency /\ TasksRun
  BY DEF Steady, RelayWrites
<1>2. Pings <= Capacity + 1 /\ Signs \in Nat /\ Capacity \in Nat
  BY <1>1, RelayIsHeard, SteadyTypes, Sizes
<1>3. Signs <= Capacity
  BY <1>2 DEF Pings
<1>4. reader["relay"] # "full"
  <2> SUFFICES ASSUME reader["relay"] = "full"
               PROVE  FALSE
    OBVIOUS
  <2>1. Len(frame_rx["relay"]) < Capacity
    BY <1>1, <1>2, <1>3, SteadyTypes DEF Signs
  <2> QED
    BY <2>1, SteadyRunning, Peers DEF Idle, CanRun, Steady
<1>5. reader["relay"] \in {"length", "payload"} /\ wire["relay"] # <<>>
  BY <1>1, <1>4, Peers DEF TasksRun, PingUnderWay
<1>6. CanRead("relay")
  BY <1>5, SteadyRunning, Peers DEF CanRead, Steady
<1>7. Head(wire["relay"]).age # Latency
  BY <1>6, Peers DEF Idle
<1>8. wire["relay"] \in Seq(Part)
  BY <1>1, SteadyTypes
<1>9. Head(wire["relay"]) = wire["relay"][1] /\ 1 \in 1..Len(wire["relay"])
  BY <1>5, <1>8, TailIs
<1>10. wire["relay"][1].age = ping_age /\ ping_age <= Latency
  BY <1>9 DEF Steady, AgentWrites, Aged
<1>11. ping_age \in Nat
  BY <1>1, SteadyTypes
<1>12. ping_age # Latency
  BY <1>7, <1>9, <1>10
<1> QED
  BY <1>10, <1>11, <1>12, Sizes

-----------------------------------------------------------------------------
\* The steps of a connection that works: none of the others can be taken.
SteadyMove ==
    \/ UNCHANGED vars
    \/ \E e \in Ends : HandOver(e) \/ Read(e)
    \/ StartPing \/ WritePing \/ AgentReceive
    \/ ForwardOpen \/ RelayReceive \/ Sent \/ TakeFrame \/ WriteFrame
    \/ AskOpen \/ Tick

LEMMA SteadyMoves ==
    ASSUME SteadyTiming, Steady, [Next]_vars, Works'
    PROVE  SteadyMove
<1>r. /\ \A e \in Ends : Running(e) /\ Running(Peer(e)) /\ loop[e] # "over"
      /\ \A e \in Ends : reader[e] \notin {"ended", "garbled"}
      /\ ~reset /\ ~stopped /\ writer # "ended"
  <2>1. TasksRun /\ Works /\ Alignment
    BY DEF Steady
  <2>2. loop["agent"] # "over" /\ loop["relay"] # "over" /\ writer # "ended"
    BY <2>1 DEF TasksRun
  <2>3. \A e \in Ends : reader[e] \notin {"ended", "garbled"}
    BY <2>1 DEF TasksRun
  <2>4. \A e \in Ends : Running(e) /\ Running(Peer(e))
    BY <2>1, SteadyRunning, Peers
  <2>5. ~reset /\ ~stopped
    BY <2>1 DEF Works
  <2> QED
    BY <2>2, <2>3, <2>4, <2>5 DEF Ends
<1>w. lost' = {} /\ ~reset' /\ ~stopped'
  BY DEF Works
<1>1. ASSUME NEW e \in Ends, CleanUp(e) \/ ReaderGone(e) \/ ReadFails(e)
      PROVE  FALSE
  BY <1>1, <1>r DEF CleanUp, ReaderGone, ReadFails
<1>2. ASSUME NEW e \in Ends, HeartbeatMissed(e)
      PROVE  FALSE
  BY <1>2, NothingIsMissed DEF HeartbeatMissed
<1>3. ~PingFails
  BY PingHasRoom DEF PingFails
<1>4. ~WriterGone /\ ~Replaced
  BY <1>r DEF WriterGone, Replaced
<1>5. ~WriterFails
  BY WriterIsPatient DEF WriterFails
<1>6. ~StopDevice /\ ~Reset
  BY <1>w DEF StopDevice, Reset
<1>7. ASSUME NEW e \in Ends, Lose(e)
      PROVE  FALSE
  BY <1>7, <1>w DEF Lose
<1>8. ~Over
  BY <1>r, Peers DEF Over
<1>9. TaskStep => SteadyMove
  BY <1>1, <1>2, <1>3, <1>4, <1>5 DEF TaskStep, SteadyMove
<1>10. NetStep => SteadyMove
  BY <1>1 DEF NetStep, SteadyMove
<1>11. Environment => SteadyMove
  BY <1>6, <1>7 DEF Environment, SteadyMove
<1> QED
  BY <1>8, <1>9, <1>10, <1>11 DEF Next, SteadyMove

\* A part that a step puts on the wire.
LEMMA SteadyPut ==
    ASSUME Steady, NEW e \in Ends, NEW frame \in Frames, PutPart(e, frame)
    PROVE  /\ \E x \in Part : x.age = 0 /\ wire'[Peer(e)] = Append(wire[Peer(e)], x)
           /\ wire'[e] = wire[e]
           /\ parts'[e] = 1 - parts[e] /\ parts'[Peer(e)] = parts[Peer(e)]
           /\ write_age'[e] = IF parts[e] = 1 THEN 0 ELSE write_age[e]
           /\ write_age'[Peer(e)] = write_age[Peer(e)]
<1>1. Peer(e) \in Ends /\ Peer(e) # e /\ Peer(e) \notin lost /\ Running(Peer(e))
  BY Peers, SteadyRunning DEF Steady
<1>2. wire \in [Ends -> Seq(Part)] /\ parts \in [Ends -> 0..1] /\ write_age \in [Ends -> 0..WriteTimeout]
  BY DEF Steady, TypeOK, WireType, WriteType
<1> DEFINE x == [part |-> IF parts[e] = 0 THEN "length" ELSE "payload",
                 frame |-> frame, age |-> 0]
<1>3. x \in Part /\ x.age = 0
  BY Sizes DEF Part
<1>4. wire' = [wire EXCEPT ![Peer(e)] = Append(@, x)]
  BY <1>1 DEF PutPart
<1>5. wire'[Peer(e)] = Append(wire[Peer(e)], x) /\ wire'[e] = wire[e]
  BY <1>1, <1>2, <1>4
<1>6. parts'[e] = 1 - parts[e] /\ parts'[Peer(e)] = parts[Peer(e)]
  BY <1>1, <1>2 DEF PutPart
<1>7. /\ write_age'[e] = IF parts[e] = 1 THEN 0 ELSE write_age[e]
      /\ write_age'[Peer(e)] = write_age[Peer(e)]
  BY <1>1, <1>2 DEF PutPart
<1> QED
  BY <1>3, <1>5, <1>6, <1>7

LEMMA PingPut ==
    ASSUME Steady, WritePing
    PROVE  /\ \E x \in Part : x.age = 0 /\ wire'["relay"] = Append(wire["relay"], x)
           /\ wire'["agent"] = wire["agent"]
           /\ parts'["agent"] = 1 - parts["agent"] /\ parts'["relay"] = parts["relay"]
           /\ write_age'["agent"] = IF parts["agent"] = 1 THEN 0 ELSE write_age["agent"]
           /\ write_age'["relay"] = write_age["relay"]
<1>1. PutPart("agent", Ping) /\ Ping \in Frames
  BY FramesFacts DEF WritePing
<1>2. Peer("agent") = "relay"
  BY DEF Peer
<1> QED
  BY <1>1, <1>2, SteadyPut, Peers

LEMMA FramePut ==
    ASSUME Steady, WriteFrame
    PROVE  /\ \E x \in Part : x.age = 0 /\ wire'["agent"] = Append(wire["agent"], x)
           /\ wire'["relay"] = wire["relay"]
           /\ parts'["relay"] = 1 - parts["relay"] /\ parts'["agent"] = parts["agent"]
           /\ write_age'["relay"] = IF parts["relay"] = 1 THEN 0 ELSE write_age["relay"]
           /\ write_age'["agent"] = write_age["agent"]
<1>1. PutPart("relay", writing) /\ writing \in Frames
  BY DEF WriteFrame, Steady, HeldFrames
<1>2. Peer("relay") = "agent"
  BY DEF Peer
<1> QED
  BY <1>1, <1>2, SteadyPut, Peers

\* What a tick does.
LEMMA SteadyTick ==
    ASSUME SteadyTiming, Steady, Tick
    PROVE  /\ Idle
           /\ wire'["agent"] = Later(wire["agent"]) /\ wire'["relay"] = Later(wire["relay"])
           /\ write_age'["agent"] = write_age["agent"]
           /\ write_age'["relay"] = IF writer = "writing" THEN write_age["relay"] + 1
                                                          ELSE write_age["relay"]
           /\ heartbeat["agent"] =>
                 /\ ping_age' = ping_age + 1
                 /\ frame_age'["agent"] = frame_age["agent"] + 1
                 /\ frame_age'["relay"] = frame_age["relay"] + 1
           /\ ~heartbeat["agent"] => ping_age' = ping_age
<1>1. Idle
  BY DEF Tick
<1>2. TypeOK /\ TasksRun /\ Running("agent") /\ Running("relay")
  BY SteadyRunning, Peers DEF Steady
<1>3. wire'["agent"] = Later(wire["agent"]) /\ wire'["relay"] = Later(wire["relay"])
  BY Peers DEF Tick, Later
<1>4. loop["agent"] = "select" /\ (heartbeat["agent"] => ping_age < PingInterval)
      /\ (writer = "writing" => write_age["relay"] < Latency)
  BY <1>1, SteadyIdles, PayloadsAreFresh
<1>5. write_age'["agent"] = write_age["agent"]
  BY <1>4, Peers DEF Tick, Writing
<1>6. /\ write_age["relay"] \in 0..WriteTimeout /\ ping_age \in 0..PingInterval
      /\ frame_age["agent"] \in 0..DeadAfter /\ frame_age["relay"] \in 0..DeadAfter
  BY <1>2, SteadyTypes
<1>7. write_age'["relay"] = IF writer = "writing" THEN write_age["relay"] + 1
                                                  ELSE write_age["relay"]
  <2>1. CASE writer = "writing"
    <3>1. write_age'["relay"] = Upto(WriteTimeout, write_age["relay"] + 1)
      BY <2>1, <1>2, Peers DEF Tick, Writing
    <3>2. write_age["relay"] + 1 < WriteTimeout \/ write_age["relay"] + 1 = WriteTimeout
      BY <2>1, <1>4, <1>6, SteadyConditions, Sizes
    <3> QED
      BY <2>1, <3>1, <3>2 DEF Upto
  <2>2. CASE writer # "writing"
    BY <2>2, Peers DEF Tick, Writing
  <2> QED
    BY <2>1, <2>2
<1>8. heartbeat["agent"] = heartbeat["relay"]
  BY <1>2 DEF TasksRun
<1>9. ASSUME heartbeat["agent"]
      PROVE  /\ ping_age' = ping_age + 1
             /\ frame_age'["agent"] = frame_age["agent"] + 1
             /\ frame_age'["relay"] = frame_age["relay"] + 1
  <2>1. frame_age["agent"] # DeadAfter /\ frame_age["relay"] # DeadAfter
    BY <1>8, <1>9, NothingIsMissed, Peers
  <2>2. /\ ping_age' = Upto(PingInterval, ping_age + 1)
        /\ frame_age'["agent"] = Upto(DeadAfter, frame_age["agent"] + 1)
        /\ frame_age'["relay"] = Upto(DeadAfter, frame_age["relay"] + 1)
    BY <1>2, <1>8, <1>9, Peers DEF Tick
  <2>3. ping_age' = ping_age + 1
    BY <2>2, <1>4, <1>6, <1>9, Sizes DEF Upto
  <2>4. frame_age'["agent"] = frame_age["agent"] + 1
    BY <2>1, <2>2, <1>6, Sizes DEF Upto
  <2>5. frame_age'["relay"] = frame_age["relay"] + 1
    BY <2>1, <2>2, <1>6, Sizes DEF Upto
  <2> QED
    BY <2>3, <2>4, <2>5
<1>10. ~heartbeat["agent"] => ping_age' = ping_age
  BY DEF Tick
<1> QED
  BY <1>1, <1>3, <1>5, <1>7, <1>9, <1>10

-----------------------------------------------------------------------------
LEMMA TasksStep ==
    ASSUME SteadyTiming, Steady, SteadyMove, TypeOK', FramesStayAligned'
    PROVE  TasksRun'
<1>t. /\ loop \in [Ends -> {"select", "ping", "send", "over", "ended"}]
      /\ reader \in [Ends -> {"length", "payload", "full", "ended", "garbled"}]
      /\ loop["agent"] \in {"select", "ping"} /\ loop["relay"] \in {"select", "send"}
      /\ \A e \in Ends : reader[e] \in {"length", "payload", "full"}
      /\ writer \in {"idle", "writing"}
      /\ heartbeat["agent"] = heartbeat["relay"]
  BY DEF Steady, TasksRun, TypeOK, LoopType, ReaderType
<1>h. UNCHANGED heartbeat
  BY DEF SteadyMove, vars, HandOver, Read, StartPing, WritePing, AgentReceive, ForwardOpen,
         RelayReceive, Sent, TakeFrame, WriteFrame, AskOpen, Tick
<1>a. ASSUME UNCHANGED <<loop, reader, writer>>
      PROVE  TasksRun'
  BY <1>a, <1>t, <1>h DEF TasksRun
<1>b. ASSUME UNCHANGED <<reader, writer>>, loop'["agent"] = loop["agent"],
             loop'["relay"] \in {"select", "send"}
      PROVE  TasksRun'
  BY <1>b, <1>t, <1>h DEF TasksRun
<1>c. ASSUME UNCHANGED <<reader, writer>>, loop'["relay"] = loop["relay"],
             loop'["agent"] \in {"select", "ping"}
      PROVE  TasksRun'
  BY <1>c, <1>t, <1>h DEF TasksRun
<1>d. ASSUME UNCHANGED <<loop, writer>>, \A e \in Ends : reader'[e] \in {"length", "payload", "full"}
      PROVE  TasksRun'
  BY <1>d, <1>t, <1>h DEF TasksRun
<1>s. ASSUME NEW frame, Send(frame)
      PROVE  loop'["agent"] = loop["agent"] /\ loop'["relay"] \in {"select", "send"}
  BY <1>s, <1>t, Peers DEF Send
<1>1. ASSUME NEW e \in Ends, HandOver(e)
      PROVE  TasksRun'
  BY <1>1, <1>d, <1>t DEF HandOver, relayVars
<1>2. ASSUME NEW e \in Ends, Read(e)
      PROVE  TasksRun'
  <2>1. reader'[e] # "garbled"
    BY DEF FramesStayAligned
  <2>2. \A i \in Ends : reader'[i] \in {"length", "payload", "full"}
    BY <1>2, <1>t, <2>1 DEF Read
  <2> QED
    BY <1>2, <1>d, <2>2 DEF Read, relayVars
<1>3. CASE StartPing
  BY <1>3, <1>c, <1>t, Peers DEF StartPing, readerVars, relayVars
<1>4. CASE WritePing
  BY <1>4, <1>c, <1>t, Peers DEF WritePing, readerVars, relayVars
<1>5. CASE ForwardOpen
  BY <1>5, <1>b, <1>s DEF ForwardOpen, readerVars
<1>6. CASE RelayReceive
  BY <1>6, <1>b, <1>s DEF RelayReceive, readerVars
<1>7. CASE Sent
  <2>1. loop'["agent"] = loop["agent"] /\ loop'["relay"] = "select"
    BY <1>7, <1>t, Peers DEF Sent
  <2> QED
    BY <1>7, <1>b, <2>1 DEF Sent, readerVars
<1>8. CASE TakeFrame \/ WriteFrame
  <2>1. UNCHANGED <<loop, reader>> /\ writer' \in {"idle", "writing"}
    BY <1>8 DEF TakeFrame, WriteFrame, readerVars
  <2> QED
    BY <2>1, <1>t, <1>h DEF TasksRun
<1>9. CASE UNCHANGED vars \/ AgentReceive \/ AskOpen \/ Tick
  BY <1>9, <1>a DEF vars, AgentReceive, AskOpen, Tick, readerVars, relayVars
<1> QED
  BY <1>1, <1>2, <1>3, <1>4, <1>5, <1>6, <1>7, <1>8, <1>9 DEF SteadyMove

LEMMA RelayWritesStep ==
    ASSUME SteadyTiming, Steady, SteadyMove
    PROVE  RelayWrites'
<1>t. /\ wire["agent"] \in Seq(Part) /\ parts["relay"] \in {0, 1} /\ write_age["relay"] \in Nat
      /\ wire \in [Ends -> Seq(Part)]
  BY SteadyTypes DEF Steady, TypeOK, WireType
<1>i. /\ writer # "writing" => write_age["relay"] = 0 /\ parts["relay"] = 0
      /\ write_age["relay"] <= Latency
      /\ Ordered(wire["agent"], parts["relay"], write_age["relay"])
  BY DEF Steady, RelayWrites
<1>a. ASSUME UNCHANGED <<writer, writeVars>>, wire'["agent"] = wire["agent"]
      PROVE  RelayWrites'
  BY <1>a, <1>i DEF RelayWrites, writeVars
<1>1. CASE \/ UNCHANGED vars \/ \E e \in Ends : HandOver(e)
           \/ StartPing \/ AgentReceive \/ ForwardOpen \/ RelayReceive \/ Sent \/ AskOpen
  <2>1. UNCHANGED <<writer, writeVars, wire>>
    BY <1>1 DEF vars, HandOver, StartPing, AgentReceive, ForwardOpen, RelayReceive, Sent, AskOpen,
                relayVars
  <2> QED
    BY <2>1, <1>a
<1>2. ASSUME NEW e \in Ends, Read(e)
      PROVE  RelayWrites'
  <2>0. UNCHANGED <<writer, writeVars>> /\ wire[e] # <<>> /\ wire' = [wire EXCEPT ![e] = Tail(@)]
    BY <1>2 DEF Read, relayVars
  <2>1. CASE e = "relay"
    BY <2>0, <2>1, <1>a, <1>t, Peers
  <2>2. CASE e = "agent"
    <3>1. wire'["agent"] = Tail(wire["agent"])
      BY <2>0, <2>2, <1>t
    <3>2. Ordered(Tail(wire["agent"]), parts["relay"], write_age["relay"])
      BY <2>0, <2>2, <1>t, <1>i, OrderedTake
    <3> QED
      BY <2>0, <3>1, <3>2, <1>i DEF RelayWrites, writeVars
  <2> QED
    BY <2>1, <2>2 DEF Ends
<1>3. CASE WritePing
  <2>1. /\ wire'["agent"] = wire["agent"] /\ parts'["relay"] = parts["relay"]
        /\ write_age'["relay"] = write_age["relay"] /\ writer' = writer
    BY <1>3, PingPut DEF WritePing, relayVars
  <2> QED
    BY <2>1, <1>i DEF RelayWrites
<1>4. CASE TakeFrame
  <2>1. UNCHANGED <<writeVars, wire>> /\ writer' = "writing"
    BY <1>4 DEF TakeFrame
  <2> QED
    BY <2>1, <1>i DEF RelayWrites, writeVars
<1>5. CASE WriteFrame
  <2>1. PICK x \in Part : x.age = 0 /\ wire'["agent"] = Append(wire["agent"], x)
    BY <1>5, FramePut
  <2>2. /\ parts'["relay"] = 1 - parts["relay"]
        /\ write_age'["relay"] = IF parts["relay"] = 1 THEN 0 ELSE write_age["relay"]
        /\ writer' = IF parts["relay"] = 1 THEN "idle" ELSE "writing"
    BY <1>5, FramePut DEF WriteFrame
  <2>3. IF parts["relay"] = 0 THEN Ordered(wire'["agent"], 1, write_age["relay"])
                              ELSE Ordered(wire'["agent"], 0, 0)
    BY <2>1, <1>t, <1>i, OrderedPut
  <2> QED
    BY <2>2, <2>3, <1>t, <1>i, Sizes DEF RelayWrites
<1>6. CASE Tick
  <2>1. /\ wire'["agent"] = Later(wire["agent"]) /\ UNCHANGED <<writer, parts>>
        /\ write_age'["relay"] = IF writer = "writing" THEN write_age["relay"] + 1
                                                       ELSE write_age["relay"]
    BY <1>6, SteadyTick DEF Tick, relayVars
  <2>2. write_age'["relay"] \in {write_age["relay"], write_age["relay"] + 1}
    BY <2>1
  <2>3. write_age'["relay"] <= Latency
    <3>1. writer = "writing" => write_age["relay"] < Latency
      BY <1>6, SteadyTick, PayloadsAreFresh
    <3> QED
      BY <3>1, <2>1, <1>t, <1>i, Sizes
  <2>4. Ordered(Later(wire["agent"]), parts["relay"], write_age'["relay"])
    BY <2>2, <2>3, <1>t, <1>i, OrderedAge
  <2> QED
    BY <2>1, <2>3, <2>4, <1>i DEF RelayWrites
<1> QED
  BY <1>1, <1>2, <1>3, <1>4, <1>5, <1>6 DEF SteadyMove

LEMMA AgentWritesStep ==
    ASSUME SteadyTiming, Steady, SteadyMove
    PROVE  AgentWrites'
<1>t. /\ wire["relay"] \in Seq(Part) /\ parts["agent"] \in {0, 1} /\ ping_age \in 0..PingInterval
      /\ wire \in [Ends -> Seq(Part)] /\ loop \in [Ends -> {"select", "ping", "send", "over", "ended"}]
      /\ loop["agent"] \in {"select", "ping"} /\ Len(wire["relay"]) \in Nat
      /\ wire["relay"] = <<>> <=> Len(wire["relay"]) = 0
  BY SteadyTypes, Ages DEF Steady, TypeOK, WireType, LoopType, TasksRun
<1>i. AgentWrites
  BY DEF Steady
<1>h. UNCHANGED heartbeat
  BY DEF SteadyMove, vars, HandOver, Read, StartPing, WritePing, AgentReceive, ForwardOpen,
         RelayReceive, Sent, TakeFrame, WriteFrame, AskOpen, Tick
<1>a. ASSUME loop'["agent"] = loop["agent"], parts'["agent"] = parts["agent"],
             write_age'["agent"] = write_age["agent"],
             UNCHANGED ping_age, wire'["relay"] = wire["relay"]
      PROVE  AgentWrites'
  BY <1>a, <1>i, <1>h DEF AgentWrites, PingUnderWay
<1>s. ASSUME NEW frame, Send(frame)
      PROVE  loop'["agent"] = loop["agent"]
  BY <1>s, <1>t, Peers DEF Send, Break
<1>1. CASE \/ UNCHANGED vars \/ \E e \in Ends : HandOver(e)
           \/ AgentReceive \/ ForwardOpen \/ RelayReceive \/ Sent \/ AskOpen \/ TakeFrame
  <2>1. UNCHANGED <<ping_age, writeVars, wire>>
    BY <1>1 DEF vars, HandOver, AgentReceive, ForwardOpen, RelayReceive, Sent, AskOpen, TakeFrame,
                agentVars
  <2>2. loop'["agent"] = loop["agent"]
    <3>1. CASE ForwardOpen \/ RelayReceive
      BY <3>1, <1>s DEF ForwardOpen, RelayReceive
    <3>2. CASE Sent
      BY <3>2, <1>t, Peers DEF Sent, Break
    <3>3. CASE \/ UNCHANGED vars \/ \E e \in Ends : HandOver(e)
               \/ AgentReceive \/ AskOpen \/ TakeFrame
      BY <3>3 DEF vars, HandOver, AgentReceive, AskOpen, TakeFrame
    <3> QED
      BY <1>1, <3>1, <3>2, <3>3
  <2> QED
    BY <2>1, <2>2, <1>a DEF writeVars
<1>2. ASSUME NEW e \in Ends, Read(e)
      PROVE  AgentWrites'
  <2>0. /\ UNCHANGED <<loop, ping_age, parts, write_age>> /\ wire[e] # <<>>
        /\ wire' = [wire EXCEPT ![e] = Tail(@)]
    BY <1>2 DEF Read, agentVars, writeVars
  <2>1. CASE e = "agent"
    BY <2>0, <2>1, <1>a, <1>t, Peers
  <2>2. CASE e = "relay"
    <3>1. wire'["relay"] = Tail(wire["relay"]) /\ wire["relay"] # <<>>
      BY <2>0, <2>2, <1>t
    <3>2. Len(wire'["relay"]) = Len(wire["relay"]) - 1
      BY <3>1, <1>t, TailIs
    <3>3. \A n : Aged(wire["relay"], n) => Aged(wire'["relay"], n)
      BY <3>1, <1>t, AgedTake
    <3>4. Len(wire'["relay"]) <= Len(wire["relay"]) /\ Len(wire'["relay"]) \in Int
      BY <3>2, <1>t
    <3>5. loop["agent"] = "ping" => Len(wire'["relay"]) <= parts["agent"]
      BY <3>4, <1>i, <1>t DEF AgentWrites
    <3>6. loop["agent"] = "select" => Len(wire'["relay"]) <= 2
      BY <3>4, <1>i, <1>t DEF AgentWrites
    <3> QED
      BY <2>0, <3>1, <3>3, <3>5, <3>6, <1>i, <1>h DEF AgentWrites, PingUnderWay
  <2> QED
    BY <2>1, <2>2 DEF Ends
<1>3. CASE StartPing
  <2>1. /\ loop["agent"] = "select" /\ heartbeat["agent"] /\ ping_age = PingInterval
        /\ loop'["agent"] = "ping" /\ UNCHANGED <<ping_age, wire, parts, write_age>>
    BY <1>3, <1>t, Peers DEF StartPing, agentVars, writeVars
  <2>2. wire["relay"] = <<>>
    BY <2>1, <1>i, SteadyConditions, Sizes DEF AgentWrites, PingUnderWay
  <2>3. write_age["agent"] = 0 /\ parts["agent"] = 0
    BY <2>1, <1>i DEF Steady, AgentInTime, AgentWrites
  <2>4. Len(wire["relay"]) = 0 /\ Aged(wire["relay"], 0)
    BY <2>2, <1>t DEF Aged
  <2> QED
    BY <2>1, <2>3, <2>4, <1>h DEF AgentWrites, PingUnderWay
<1>4. CASE WritePing
  <2>1. PICK x \in Part : x.age = 0 /\ wire'["relay"] = Append(wire["relay"], x)
    BY <1>4, PingPut
  <2>2. /\ loop["agent"] = "ping" /\ parts'["agent"] = 1 - parts["agent"]
        /\ write_age'["agent"] = IF parts["agent"] = 1 THEN 0 ELSE write_age["agent"]
        /\ loop'["agent"] = IF parts["agent"] = 1 THEN "select" ELSE "ping"
        /\ ping_age' = IF parts["agent"] = 1 THEN 0 ELSE ping_age
    BY <1>4, <1>t, PingPut, Peers DEF WritePing
  <2>3. /\ heartbeat["agent"] /\ ping_age = PingInterval /\ write_age["agent"] = 0
        /\ Len(wire["relay"]) <= parts["agent"] /\ Aged(wire["relay"], 0)
    BY <2>2, <1>i DEF AgentWrites
  <2>4. Len(wire'["relay"]) = Len(wire["relay"]) + 1 /\ Aged(wire'["relay"], 0)
    BY <2>1, <2>3, <1>t, MoreIs, AgedPut
  <2>5. CASE parts["agent"] = 0
    <3>1. Len(wire'["relay"]) <= parts'["agent"]
      BY <2>2, <2>3, <2>4, <2>5, <1>t
    <3> QED
      BY <2>2, <2>3, <2>4, <2>5, <3>1, <1>h DEF AgentWrites, PingUnderWay
  <2>6. CASE parts["agent"] = 1
    <3>1. Len(wire'["relay"]) <= 2 /\ parts'["agent"] = 0
      BY <2>2, <2>3, <2>4, <2>6, <1>t
    <3>2. ping_age' = 0 /\ 0 <= Latency /\ loop'["agent"] = "select"
      BY <2>2, <2>6, Sizes
    <3> QED
      BY <2>3, <2>4, <3>1, <3>2, <1>h DEF AgentWrites, PingUnderWay
  <2> QED
    BY <2>5, <2>6, <1>t
<1>5. CASE WriteFrame
  <2>1. /\ wire'["relay"] = wire["relay"] /\ parts'["agent"] = parts["agent"]
        /\ write_age'["agent"] = write_age["agent"] /\ UNCHANGED <<loop, ping_age>>
    BY <1>5, FramePut DEF WriteFrame, agentVars
  <2> QED
    BY <2>1, <1>a
<1>6. CASE Tick
  <2>1. /\ Idle /\ wire'["relay"] = Later(wire["relay"]) /\ UNCHANGED <<loop, parts>>
        /\ heartbeat["agent"] => ping_age' = ping_age + 1
    BY <1>6, SteadyTick DEF Tick
  <2>2. loop["agent"] = "select" /\ parts["agent"] = 0 /\ Len(wire["relay"]) <= 2
    BY <2>1, <1>i, SteadyIdles DEF AgentWrites
  <2>3. Len(wire'["relay"]) = Len(wire["relay"])
    BY <2>1, <1>t, LaterIs
  <2>4. ASSUME PingUnderWay'
        PROVE  heartbeat'["agent"] /\ ping_age' <= Latency /\ Aged(wire'["relay"], ping_age')
    <3>1. wire'["relay"] # <<>> /\ Later(wire["relay"]) \in Seq(Part)
      BY <2>4, <1>t, LaterIs DEF PingUnderWay
    <3>2. wire["relay"] # <<>>
      BY <3>1, <2>1, <2>3, <1>t, EmptySeq
    <3>3. PingUnderWay
      BY <3>2, <2>2 DEF PingUnderWay
    <3>4. heartbeat["agent"] /\ Aged(wire["relay"], ping_age)
      BY <3>3, <1>i DEF AgentWrites
    <3>5. ping_age < Latency
      BY <3>3, <3>4, <2>1, PingsAreFresh
    <3>6. Aged(Later(wire["relay"]), ping_age + 1)
      BY <3>4, <3>5, <1>t, AgedAge
    <3> QED
      BY <3>4, <3>5, <3>6, <2>1, <1>h, <1>t, Sizes
  <2> QED
    BY <2>1, <2>2, <2>3, <2>4 DEF AgentWrites
<1> QED
  BY <1>1, <1>2, <1>3, <1>4, <1>5, <1>6 DEF SteadyMove

-----------------------------------------------------------------------------
\* A Ping is under way until its payload is read, and then the relay has it.
LEMMA RelayReads ==
    ASSUME SteadyTiming, Steady, Read("relay"), FramesStayAligned'
    PROVE  /\ wire'["agent"] = wire["agent"] /\ reader'["agent"] = reader["agent"]
           /\ \/ Signs' = Signs /\ (PingUnderWay' <=> PingUnderWay)
              \/ Signs' = Signs + 1 /\ PingUnderWay /\ ~PingUnderWay'
<1> DEFINE q == wire["relay"]
           r == reader["relay"]
<1>t. /\ q \in Seq(Part) /\ Len(q) \in Nat /\ (q = <<>> <=> Len(q) = 0)
      /\ wire \in [Ends -> Seq(Part)] /\ Len(frame_rx["relay"]) \in Nat
      /\ reader \in [Ends -> {"length", "payload", "full", "ended", "garbled"}]
      /\ parts["agent"] \in {0, 1} /\ loop["agent"] \in {"select", "ping"}
  <2>1. TypeOK
    BY DEF Steady
  <2>2. /\ q \in Seq(Part) /\ Len(frame_rx["relay"]) \in Nat /\ parts["agent"] \in {0, 1}
    BY <2>1, SteadyTypes, Sizes
  <2>3. Len(q) \in Nat /\ (q = <<>> <=> Len(q) = 0)
    BY <2>2, Ages
  <2> QED
    BY <2>1, <2>2, <2>3 DEF Steady, TypeOK, WireType, ReaderType, TasksRun
<1>r. /\ r \in {"length", "payload"} /\ q # <<>> /\ wire'["relay"] = Tail(q)
      /\ wire'["agent"] = wire["agent"] /\ reader'["agent"] = reader["agent"]
      /\ UNCHANGED <<frame_rx, loop>>
  BY <1>t, Peers DEF Read
<1>g. reader'["relay"] # "garbled"
  BY Peers DEF FramesStayAligned
<1>a. Alternate(q, r) /\ (parts["agent"] = 1 <=> HalfWritten(q, r))
  BY SteadyRunning DEF Steady
<1>w. /\ loop["agent"] = "ping" => Len(q) <= parts["agent"]
      /\ loop["agent"] = "select" => parts["agent"] = 0 /\ Len(q) <= 2
  BY DEF Steady, AgentWrites
<1>q. /\ Len(Tail(q)) = Len(q) - 1 /\ Tail(q) \in Seq(Part) /\ Head(q) = q[1]
      /\ \A i \in 1..Len(q) : q[i] \in Part
  BY <1>t, <1>r, TailIs, Ages
<1>e. Tail(q) = <<>> <=> Len(q) = 1
  <2>1. Tail(q) = <<>> <=> Len(Tail(q)) = 0
    BY <1>q, Ages
  <2> QED
    BY <2>1, <1>q, <1>t
<1>n. /\ Head(q).part = r
      /\ reader'["relay"] = IF r = "length" THEN "payload" ELSE "full"
  BY <1>g, <1>t, <1>r, Peers DEF Read
<1> HIDE DEF q, r
<1>1. CASE r = "length"
  <2>1. q[1].part = "length" /\ reader'["relay"] = "payload"
    BY <1>1, <1>n, <1>q
  <2>2. Signs' = Signs
    BY <2>1, <1>1, <1>r DEF Signs, r
  <2>3. CASE loop["agent"] = "ping"
    BY <2>2, <2>3, <1>r DEF PingUnderWay
  <2>4. CASE loop["agent"] = "select"
    <3>1. Len(q) # 1
      <4> SUFFICES ASSUME Len(q) = 1
                   PROVE  FALSE
        OBVIOUS
      <4>1. HalfWritten(q, r)
        BY <2>1, <1>r DEF HalfWritten
      <4> QED
        BY <4>1, <2>4, <1>a, <1>w
    <3>2. PingUnderWay /\ PingUnderWay'
      BY <3>1, <2>4, <1>e, <1>r DEF PingUnderWay, q
    <3> QED
      BY <3>2, <2>2, <1>r
  <2> QED
    BY <2>3, <2>4, <1>t
<1>2. CASE r = "payload"
  <2>1. q[1].part = "payload" /\ reader'["relay"] = "full"
    BY <1>2, <1>n, <1>q
  <2>2. Signs' = Signs + 1
    <3>1. Signs = Len(frame_rx["relay"]) + 0
      BY <1>2 DEF Signs, r
    <3>2. Signs' = Len(frame_rx["relay"]) + 1
      BY <2>1, <1>r DEF Signs
    <3> QED
      BY <3>1, <3>2, <1>t
  <2>3. loop["agent"] = "select"
    <3> SUFFICES ASSUME loop["agent"] = "ping"
                 PROVE  FALSE
      BY <1>t
    <3>0. Len(q) <= parts["agent"] /\ Len(q) # 0
      BY <1>w, <1>t, <1>r
    <3>1. Len(q) = 1 /\ parts["agent"] = 1
      <4>1. \A n \in Nat, p \in {0, 1} : n <= p /\ n # 0 => n = 1 /\ p = 1
        OBVIOUS
      <4> QED
        BY <3>0, <4>1, <1>t
    <3>2. HalfWritten(q, r)
      BY <3>1, <1>a
    <3>3. q[Len(q)].part = "length"
      BY <3>2, <1>r DEF HalfWritten
    <3> QED
      BY <2>1, <3>1, <3>3
  <2>4. Len(q) = 1
    <3>0. parts["agent"] = 0 /\ Len(q) <= 2 /\ Len(q) # 0
      BY <2>3, <1>w, <1>t, <1>r
    <3>1. Len(q) \in {1, 2} /\ ~HalfWritten(q, r)
      <4>1. \A n \in Nat : n <= 2 /\ n # 0 => n \in {1, 2}
        OBVIOUS
      <4>2. Len(q) \in {1, 2}
        BY <3>0, <4>1, <1>t
      <4> QED
        BY <3>0, <4>2, <1>a
    <3>2. q[Len(q)].part # "length"
      BY <3>1, <1>r DEF HalfWritten
    <3>3. Len(q) # 2
      <4> SUFFICES ASSUME Len(q) = 2
                   PROVE  FALSE
        OBVIOUS
      <4>1. 1 \in 1 .. Len(q) - 1 /\ 2 \in 1..Len(q) /\ 1 + 1 = 2
        OBVIOUS
      <4>2. q[1].part # q[2].part
        BY <4>1, <1>a DEF Alternate
      <4>3. q[2].part \in {"length", "payload"}
        BY <4>1, <1>q DEF Part
      <4> QED
        BY <2>1, <3>2, <4>2, <4>3
    <3> QED
      BY <3>1, <3>3
  <2>5. PingUnderWay /\ ~PingUnderWay'
    BY <2>3, <2>4, <1>e, <1>r DEF PingUnderWay, q
  <2> QED
    BY <2>2, <2>5, <1>r
<1> QED
  BY <1>1, <1>2, <1>r

\* What is sent to the agent waits in writer_rx or in the loop.
LEMMA SendsKeepBusy ==
    ASSUME Steady, NEW frame \in Frames, Send(frame)
    PROVE  Busy'
<1>1. writer # "ended" /\ writer_rx \in Seq(Frames)
      /\ loop \in [Ends -> {"select", "ping", "send", "over", "ended"}]
  BY DEF Steady, TasksRun, TypeOK, QueueType, LoopType
<1>2. CASE Len(writer_rx) < Capacity
  <2>1. writer_rx' = Append(writer_rx, frame)
    BY <1>1, <1>2 DEF Send
  <2>2. Append(writer_rx, frame) # <<>>
    <3>1. Append(writer_rx, frame) \in Seq(Frames) /\ Len(Append(writer_rx, frame)) = Len(writer_rx) + 1
      BY <1>1, AddOne
    <3>2. Len(writer_rx) \in Nat
      BY <1>1, LenProperties
    <3> QED
      BY <3>1, <3>2, EmptySeq
  <2> QED
    BY <2>1, <2>2 DEF Busy
<1>3. CASE ~(Len(writer_rx) < Capacity)
  <2>1. loop'["relay"] = "send"
    BY <1>1, <1>3, Peers DEF Send
  <2> QED
    BY <2>1 DEF Busy
<1> QED
  BY <1>2, <1>3

LEMMA AgentHearsStep ==
    ASSUME SteadyTiming, Steady, SteadyMove, TypeOK', FramesStayAligned', Alignment',
           TasksRun', Works', RelayWrites', heartbeat["agent"]
    PROVE  AgentHears'
<1>i. AgentHears
  BY DEF Steady
<1>t. /\ frame_age["agent"] \in Nat /\ ping_age \in 0..PingInterval
      /\ wire["agent"] \in Seq(Part) /\ wire \in [Ends -> Seq(Part)]
      /\ reader \in [Ends -> {"length", "payload", "full", "ended", "garbled"}]
      /\ frame_rx \in [Ends -> Seq(Frames)]
      /\ loop \in [Ends -> {"select", "ping", "send", "over", "ended"}]
  <2>1. TypeOK
    BY DEF Steady
  <2>2. /\ frame_age["agent"] \in Nat /\ ping_age \in 0..PingInterval
        /\ wire["agent"] \in Seq(Part)
    BY <2>1, SteadyTypes
  <2> QED
    BY <2>1, <2>2 DEF TypeOK, WireType, ReaderType, ChannelType, LoopType
\* Nothing the agent hears changes, and the relay is as busy.
<1>a. ASSUME frame_age'["agent"] = frame_age["agent"], wire'["agent"] = wire["agent"],
             reader'["agent"] = reader["agent"], frame_rx'["agent"] = frame_rx["agent"],
             Busy' \/ (~Busy /\ ping_age' = ping_age /\ (PingUnderWay' <=> PingUnderWay))
      PROVE  AgentHears'
  <2>1. SignWaiting' <=> SignWaiting
    BY <1>a DEF SignWaiting
  <2>2. /\ frame_age'["agent"] <= PingInterval + Latency + Latency
        /\ ~SignWaiting' => Heard(wire'["agent"], reader'["agent"], frame_age'["agent"])
    BY <1>a, <1>i, <2>1 DEF AgentHears
  <2>3. ~SignWaiting' /\ wire'["agent"] = <<>> /\ ~Busy' =>
          /\ frame_age'["agent"] <= PingInterval + ping_age'
          /\ ~PingUnderWay' => frame_age'["agent"] <= ping_age'
    BY <1>a, <1>i, <2>1 DEF AgentHears
  <2> QED
    BY <2>2, <2>3 DEF AgentHears
\* A frame waits for the loop.
<1>b. ASSUME frame_age'["agent"] = frame_age["agent"], SignWaiting'
      PROVE  AgentHears'
  BY <1>b, <1>i DEF AgentHears
<1>s. Send(Pong) \/ (\E n \in 1..MaxOpens : Send(Open(n))) => Busy'
  BY SendsKeepBusy, FramesFacts
<1>1. CASE UNCHANGED vars \/ AskOpen
  <2>1. /\ UNCHANGED <<frame_age, wire, reader, frame_rx, ping_age, loop, writer, writer_rx>>
    BY <1>1 DEF vars, AskOpen, agentVars, readerVars, relayVars
  <2>2. (Busy' <=> Busy) /\ (PingUnderWay' <=> PingUnderWay)
    BY <2>1 DEF Busy, PingUnderWay, Signs
  <2> QED
    BY <2>1, <2>2, <1>a
<1>2. CASE HandOver("agent")
  <2>1. frame_rx'["agent"] = Append(frame_rx["agent"], in_hand["agent"]) /\ UNCHANGED frame_age
    BY <1>2, <1>t, Peers DEF HandOver
  <2>2. frame_rx["agent"] \in Seq(Frames) /\ in_hand["agent"] \in Frames
    BY <1>2, <1>t, Peers DEF HandOver, Steady, HeldFrames
  <2>3. frame_rx'["agent"] \in Seq(Frames) /\ Len(frame_rx'["agent"]) = Len(frame_rx["agent"]) + 1
        /\ Len(frame_rx["agent"]) \in Nat
    BY <2>1, <2>2, AddOne
  <2>4. SignWaiting'
    BY <2>3, EmptySeq DEF SignWaiting
  <2> QED
    BY <2>1, <2>4, <1>b
<1>3. CASE HandOver("relay")
  <2>1. /\ UNCHANGED <<frame_age, wire, ping_age, loop, writer, writer_rx>>
        /\ reader'["agent"] = reader["agent"] /\ frame_rx'["agent"] = frame_rx["agent"]
        /\ reader["relay"] = "full" /\ reader'["relay"] = "length"
        /\ frame_rx'["relay"] = Append(frame_rx["relay"], in_hand["relay"])
    BY <1>3, <1>t, Peers DEF HandOver, agentVars, relayVars
  <2>2. frame_rx["relay"] \in Seq(Frames) /\ in_hand["relay"] \in Frames
    BY <1>3, <1>t, Peers DEF HandOver, Steady, HeldFrames
  <2>3. Len(frame_rx'["relay"]) = Len(frame_rx["relay"]) + 1 /\ Len(frame_rx["relay"]) \in Nat
    BY <2>1, <2>2, AddOne
  <2>4. Signs' > 0
    BY <2>1, <2>3 DEF Signs
  <2>5. Busy'
    BY <2>4 DEF Busy
  <2> QED
    BY <2>1, <2>5, <1>a
<1>4. CASE Read("agent")
  <2>1. /\ UNCHANGED <<frame_age, frame_rx>> /\ wire["agent"] # <<>>
        /\ wire'["agent"] = Tail(wire["agent"])
        /\ reader["agent"] \in {"length", "payload"}
        /\ reader'["agent"] \in {"payload", "full"}
        /\ reader'["agent"] = "payload" => reader["agent"] = "length"
    <3>1. reader'["agent"] # "garbled"
      BY Peers DEF FramesStayAligned
    <3> QED
      BY <3>1, <1>4, <1>t, Peers DEF Read
  <2>2. CASE reader'["agent"] = "full"
    BY <2>1, <2>2, <1>b DEF SignWaiting
  <2>3. CASE reader'["agent"] = "payload"
    <3>1. SignWaiting' <=> SignWaiting
      BY <2>1, <2>3 DEF SignWaiting
    <3>2. ~SignWaiting' => Heard(wire'["agent"], reader'["agent"], frame_age'["agent"])
      BY <2>1, <2>3, <3>1, <1>t, <1>i, HeardTake DEF AgentHears
    <3>3. ASSUME wire'["agent"] = <<>>
          PROVE  Busy'
      <4>1. parts'["relay"] = 1 <=> HalfWritten(wire'["agent"], reader'["agent"])
        <5>1. (Alignment /\ Works /\ TasksRun)'
                => (parts["relay"] = 1 <=> HalfWritten(wire["agent"], reader["agent"]))'
          BY SteadyRunning, PTL
        <5> QED
          BY <5>1 
      <4>2. HalfWritten(wire'["agent"], reader'["agent"])
        BY <2>3, <3>3 DEF HalfWritten, Expected
      <4>3. writer' = "writing"
        BY <4>1, <4>2 DEF RelayWrites
      <4> QED
        BY <4>3 DEF Busy
    <3> QED
      BY <2>1, <3>2, <3>3, <1>i DEF AgentHears
  <2> QED
    BY <2>1, <2>2, <2>3
<1>5. CASE Read("relay")
  <2>1. /\ UNCHANGED <<frame_age, frame_rx, ping_age, loop, writer, writer_rx>>
    BY <1>5 DEF Read, agentVars, relayVars
  <2>2. /\ wire'["agent"] = wire["agent"] /\ reader'["agent"] = reader["agent"]
        /\ \/ Signs' = Signs /\ (PingUnderWay' <=> PingUnderWay)
           \/ Signs' = Signs + 1
    BY <1>5, RelayReads
  <2>3. Signs \in Nat
    BY SteadyTypes DEF Steady
  <2>4. CASE Signs' = Signs + 1
    <3>1. Busy'
      BY <2>3, <2>4 DEF Busy
    <3> QED
      BY <2>1, <2>2, <3>1, <1>a
  <2>5. CASE Signs' = Signs /\ (PingUnderWay' <=> PingUnderWay)
    <3>1. Busy' <=> Busy
      BY <2>1, <2>5 DEF Busy
    <3> QED
      BY <2>1, <2>2, <2>5, <3>1, <1>a
  <2> QED
    BY <2>2, <2>4, <2>5
<1>6. CASE StartPing
  <2>1. /\ UNCHANGED <<frame_age, wire, reader, frame_rx, ping_age, writer, writer_rx>>
        /\ loop["agent"] = "select" /\ loop'["agent"] = "ping" /\ loop'["relay"] = loop["relay"]
        /\ ping_age = PingInterval
    BY <1>6, <1>t, Peers DEF StartPing, agentVars, readerVars, relayVars
  <2>2. ~PingUnderWay /\ ~PingUnderWay'
    BY <2>1, SteadyConditions, Sizes DEF PingUnderWay, Steady, AgentWrites
  <2>3. Busy' <=> Busy
    BY <2>1 DEF Busy, Signs
  <2> QED
    BY <2>1, <2>2, <2>3, <1>a
<1>7. CASE WritePing
  <2>1. /\ UNCHANGED <<frame_age, reader, frame_rx, writer, writer_rx>>
        /\ wire'["agent"] = wire["agent"]
        /\ loop["agent"] = "ping" /\ loop'["relay"] = loop["relay"]
        /\ loop'["agent"] = IF parts["agent"] = 1 THEN "select" ELSE "ping"
        /\ ping_age' = IF parts["agent"] = 1 THEN 0 ELSE ping_age
    BY <1>7, <1>t, PingPut, Peers DEF WritePing, readerVars, relayVars
  <2>2. Busy' <=> Busy
    BY <2>1 DEF Busy, Signs
  <2>3. ~PingUnderWay
    BY <2>1 DEF PingUnderWay
  <2>4. CASE parts["agent"] # 1
    BY <2>1, <2>2, <2>3, <2>4, <1>a DEF PingUnderWay
  <2>5. CASE parts["agent"] = 1
    <3>1. SignWaiting' <=> SignWaiting
      BY <2>1 DEF SignWaiting
    <3>2. /\ frame_age'["agent"] <= PingInterval + Latency + Latency
          /\ ~SignWaiting' => Heard(wire'["agent"], reader'["agent"], frame_age'["agent"])
      BY <2>1, <3>1, <1>i DEF AgentHears
    <3>3. PingUnderWay' /\ ping_age' = 0
      <4>1. PICK x \in Part : wire'["relay"] = Append(wire["relay"], x)
        BY <1>7, PingPut
      <4>2. wire["relay"] \in Seq(Part)
        BY <1>t, Peers
      <4>3. wire'["relay"] # <<>>
        BY <4>1, <4>2, MoreIs
      <4> QED
        BY <4>3, <2>1, <2>5 DEF PingUnderWay
    <3>4. ~SignWaiting' /\ wire'["agent"] = <<>> /\ ~Busy' => frame_age'["agent"] <= PingInterval + ping_age'
      <4> SUFFICES ASSUME ~SignWaiting', wire'["agent"] = <<>>, ~Busy'
                   PROVE  frame_age'["agent"] <= PingInterval + ping_age'
        OBVIOUS
      <4>1. frame_age["agent"] <= ping_age
        BY <2>1, <2>2, <2>3, <3>1, <1>i DEF AgentHears
      <4> QED
        BY <4>1, <2>1, <3>3, <1>t, Sizes
    <3> QED
      BY <3>2, <3>3, <3>4 DEF AgentHears
  <2> QED
    BY <2>4, <2>5
<1>8. CASE AgentReceive
  <2>1. frame_age'["agent"] = 0 /\ UNCHANGED <<wire, ping_age, reader, loop>>
    <3>1. frame_age \in [Ends -> 0..DeadAfter]
      BY DEF Steady, TypeOK, LoopType
    <3> QED
      BY <3>1, <1>8, Peers DEF AgentReceive, readerVars
  <2>2. Heard(wire'["agent"], reader'["agent"], 0)
    <3>1. \A i \in 1..Len(wire["agent"]) : wire["agent"][i].age \in Nat
      BY <1>t, Ages, Sizes
    <3>2. Len(wire["agent"]) \in Nat
      BY <1>t, Ages
    <3>3. \A r : FirstPayload(r) \in {1, 2}
      BY DEF FirstPayload
    <3>4. ASSUME NEW r, Len(wire["agent"]) >= FirstPayload(r)
          PROVE  0 <= PingInterval + Latency + wire["agent"][FirstPayload(r)].age
      <4>1. FirstPayload(r) \in 1..Len(wire["agent"])
        BY <3>2, <3>3, <3>4
      <4>2. wire["agent"][FirstPayload(r)].age \in Nat
        BY <3>1, <4>1
      <4> QED
        BY <4>2, Sizes
    <3>5. 0 <= PingInterval + Latency
      BY Sizes
    <3> QED
      BY <2>1, <3>4, <3>5 DEF Heard
  <2>3. ping_age' \in Nat
    BY <2>1, <1>t
  <2> QED
    BY <2>1, <2>2, <2>3, Sizes DEF AgentHears
<1>9. CASE ForwardOpen \/ RelayReceive
  <2>1. /\ frame_age'["agent"] = frame_age["agent"] /\ UNCHANGED <<wire, reader>>
        /\ frame_rx'["agent"] = frame_rx["agent"]
    <3>1. frame_age \in [Ends -> 0..DeadAfter]
      BY DEF Steady, TypeOK, LoopType
    <3> QED
      BY <3>1, <1>9, <1>t, Peers DEF ForwardOpen, RelayReceive, readerVars
  <2>2. Busy'
    <3>1. CASE RelayReceive
      BY <3>1, <1>s DEF RelayReceive
    <3>2. CASE ForwardOpen
      <4>1. forwarded + 1 \in 1..MaxOpens
        <5>1. forwarded \in 0..MaxOpens /\ asked \in 0..MaxOpens /\ forwarded < asked
          BY <3>2, SteadyTypes DEF ForwardOpen, Steady, TypeOK, OpensType
        <5> QED
          BY <5>1, Sizes
      <4> QED
        BY <3>2, <4>1, <1>s DEF ForwardOpen
    <3> QED
      BY <1>9, <3>1, <3>2
  <2> QED
    BY <2>1, <2>2, <1>a
<1>10. CASE Sent \/ TakeFrame
  <2>1. /\ UNCHANGED <<frame_age, wire, reader, frame_rx>>
    BY <1>10 DEF Sent, TakeFrame, readerVars
  <2>2. Busy'
    <3>1. CASE Sent
      <4>1. writer_rx' = Append(writer_rx, sending) /\ sending \in Frames /\ writer_rx \in Seq(Frames)
        BY <3>1 DEF Sent, Steady, TasksRun, HeldFrames, TypeOK, QueueType
      <4>2. writer_rx' \in Seq(Frames) /\ Len(writer_rx') = Len(writer_rx) + 1 /\ Len(writer_rx) \in Nat
        BY <4>1, AddOne
      <4>3. writer_rx' # <<>>
        BY <4>2, EmptySeq
      <4> QED
        BY <4>3 DEF Busy
    <3>2. CASE TakeFrame
      BY <3>2 DEF TakeFrame, Busy
    <3> QED
      BY <1>10, <3>1, <3>2
  <2> QED
    BY <2>1, <2>2, <1>a
<1>11. CASE WriteFrame
  <2>1. PICK x \in Part : x.age = 0 /\ wire'["agent"] = Append(wire["agent"], x)
    BY <1>11, FramePut
  <2>2. UNCHANGED <<frame_age, reader, frame_rx>>
    BY <1>11 DEF WriteFrame, readerVars
  <2>3. SignWaiting' <=> SignWaiting
    BY <2>2 DEF SignWaiting
  <2>4. ~SignWaiting' => Heard(wire'["agent"], reader'["agent"], frame_age'["agent"])
    BY <2>1, <2>2, <2>3, <1>t, <1>i, HeardPut DEF AgentHears
  <2>5. wire'["agent"] # <<>>
    <3>1. Append(wire["agent"], x) # <<>>
      BY <1>t, MoreIs
    <3> QED
      BY <3>1, <2>1
  <2> QED
    BY <2>2, <2>4, <2>5, <1>i DEF AgentHears
<1>12. CASE Tick
  <2>1. /\ Idle /\ wire'["agent"] = Later(wire["agent"]) /\ UNCHANGED <<reader, frame_rx, loop>>
        /\ ping_age' = ping_age + 1 /\ frame_age'["agent"] = frame_age["agent"] + 1
    BY <1>12, SteadyTick DEF Tick, readerVars
  <2>2. ~SignWaiting /\ ping_age < PingInterval
    BY <2>1, SteadyIdles
  <2>3. Heard(wire["agent"], reader["agent"], frame_age["agent"])
    BY <2>2, <1>i DEF AgentHears
  <2>4. CASE wire["agent"] # <<>>
    <3>1. /\ Len(wire["agent"]) >= FirstPayload(reader["agent"])
          /\ wire["agent"][FirstPayload(reader["agent"])].age < Latency
      BY <2>1, <2>4, PayloadsAreFresh
    <3>2. /\ Heard(wire'["agent"], reader'["agent"], frame_age'["agent"])
          /\ frame_age'["agent"] <= PingInterval + Latency + Latency
      BY <2>1, <2>3, <3>1, <1>t, HeardAge
    <3>3. wire'["agent"] # <<>>
      <4>1. Len(wire["agent"]) # 0
        BY <2>4, <1>t, Ages
      <4>2. Len(wire'["agent"]) = Len(wire["agent"])
        BY <2>1, <1>t, LaterIs
      <4> QED
        BY <4>1, <4>2, EmptySeq
    <3> QED
      BY <3>2, <3>3 DEF AgentHears
  <2>5. CASE wire["agent"] = <<>>
    <3>1. ~Busy
      BY <2>1, <2>5, PayloadsAreFresh
    <3>2. /\ frame_age["agent"] <= PingInterval + ping_age
          /\ ~PingUnderWay => frame_age["agent"] <= ping_age
      BY <2>2, <2>5, <3>1, <1>i DEF AgentHears
    <3>3. PingUnderWay => ping_age < Latency
      BY <2>1, PingsAreFresh
    <3>4. frame_age'["agent"] <= PingInterval + Latency
      BY <2>1, <2>2, <3>2, <3>3, <1>t, Sizes
    <3>5. PingUnderWay' <=> PingUnderWay
      <4>1. wire'["relay"] = Later(wire["relay"]) /\ wire["relay"] \in Seq(Part)
        BY <1>12, <1>t, SteadyTick, Peers
      <4>2. Len(wire'["relay"]) = Len(wire["relay"]) /\ wire'["relay"] \in Seq(Part)
        BY <4>1, LaterIs
      <4> QED
        BY <2>1, <4>1, <4>2, EmptySeq DEF PingUnderWay
    <3>6. Len(wire'["agent"]) = 0
      BY <2>1, <2>5, <1>t, LaterIs, EmptySeq
    <3>7. Heard(wire'["agent"], reader'["agent"], frame_age'["agent"])
      BY <3>4, <3>6 DEF Heard, FirstPayload
    <3>8. frame_age'["agent"] <= PingInterval + Latency + Latency
      BY <3>4, <2>1, <1>t, Sizes
    <3>9. /\ frame_age'["agent"] <= PingInterval + ping_age'
          /\ ~PingUnderWay' => frame_age'["agent"] <= ping_age'
      BY <2>1, <3>2, <3>5, <1>t, Sizes
    <3> QED
      BY <3>7, <3>8, <3>9 DEF AgentHears
  <2> QED
    BY <2>4, <2>5
<1> QED
  BY <1>1, <1>2, <1>3, <1>4, <1>5, <1>6, <1>7, <1>8, <1>9, <1>10, <1>11, <1>12 DEF SteadyMove, Ends

-----------------------------------------------------------------------------
LEMMA RelayTerms ==
    ASSUME TypeOK, RelayWrites
    PROVE  /\ PingInterval * Pings \in Nat /\ Latency * (forwarded + 1) \in Nat
           /\ Silence = PingInterval * Pings + ping_age /\ Silence \in Nat
           /\ BlockTime \in Nat /\ BlockTime <= Latency /\ Pings \in Nat
           /\ MostSilence = PingInterval + Latency * (forwarded + 1) + BlockTime
           /\ MostSilence \in Nat
<1>1. /\ ping_age \in Nat /\ Pings \in Nat /\ forwarded \in Nat /\ write_age["relay"] \in Nat
  BY SteadyTypes
<1>2. BlockTime \in Nat /\ BlockTime <= Latency
  BY <1>1, Sizes DEF BlockTime, RelayWrites
<1>3. PingInterval * Pings \in Nat
  BY <1>1, Times
<1>4. Latency * (forwarded + 1) \in Nat
  <2>1. forwarded + 1 \in Nat
    BY <1>1
  <2> QED
    BY <2>1, Times
<1> DEFINE P == PingInterval * Pings
           F == Latency * (forwarded + 1)
<1>5. Silence = P + ping_age /\ MostSilence = PingInterval + F + BlockTime /\ P \in Nat /\ F \in Nat
  BY <1>3, <1>4 DEF Silence, MostSilence
<1> HIDE DEF P, F
<1>6. Silence \in Nat /\ MostSilence \in Nat
  BY <1>1, <1>2, <1>5, Sizes
<1> QED
  BY <1>1, <1>2, <1>5, <1>6 DEF P, F

LEMMA RelayTermsNext == TypeOK' /\ RelayWrites' =>
           (/\ PingInterval * Pings \in Nat /\ Latency * (forwarded + 1) \in Nat
            /\ Silence = PingInterval * Pings + ping_age /\ Silence \in Nat
            /\ BlockTime \in Nat /\ BlockTime <= Latency /\ Pings \in Nat
            /\ MostSilence = PingInterval + Latency * (forwarded + 1) + BlockTime
            /\ MostSilence \in Nat)'
<1>1. TypeOK /\ RelayWrites =>
           /\ PingInterval * Pings \in Nat /\ Latency * (forwarded + 1) \in Nat
           /\ Silence = PingInterval * Pings + ping_age /\ Silence \in Nat
           /\ BlockTime \in Nat /\ BlockTime <= Latency /\ Pings \in Nat
           /\ MostSilence = PingInterval + Latency * (forwarded + 1) + BlockTime
           /\ MostSilence \in Nat
  BY RelayTerms
<1> QED
  BY <1>1, PTL

\* Sums of a Ping's time, of writes and of the wait for one.
LEMMA Sums ==
    \A f, b, c \in Nat :
        /\ b <= c => PingInterval + f + b <= PingInterval + f + c
        /\ b <= Latency => PingInterval + f + b <= PingInterval + (f + Latency) + c
<1>1. PingInterval \in Nat /\ Latency \in Nat
  BY Sizes
<1> QED
  BY <1>1

LEMMA RelayHearsStep ==
    ASSUME SteadyTiming, Steady, SteadyMove, TypeOK', FramesStayAligned', TasksRun',
           RelayWrites', heartbeat["agent"]
    PROVE  RelayHears'
<1>i. /\ frame_age["relay"] <= Silence
      /\ Pings > 0 => Silence <= MostSilence
  BY DEF Steady, RelayHears
<1>k. /\ Silence = PingInterval * Pings + ping_age /\ Silence \in Nat
      /\ BlockTime \in Nat /\ BlockTime <= Latency /\ Pings \in Nat
      /\ MostSilence = PingInterval + Latency * (forwarded + 1) + BlockTime
      /\ MostSilence \in Nat /\ Latency * (forwarded + 1) \in Nat
      /\ PingInterval * Pings \in Nat
  BY RelayTerms DEF Steady
<1>n. /\ Silence' = PingInterval * Pings' + ping_age' /\ Silence' \in Nat
      /\ BlockTime' \in Nat /\ BlockTime' <= Latency /\ Pings' \in Nat
      /\ MostSilence' = PingInterval + Latency * (forwarded' + 1) + BlockTime'
      /\ MostSilence' \in Nat /\ Latency * (forwarded' + 1) \in Nat
      /\ PingInterval * Pings' \in Nat
  BY RelayTermsNext
\* The same without the products.
<1>u. /\ Silence \in Nat /\ BlockTime \in Nat /\ BlockTime <= Latency /\ Pings \in Nat
      /\ MostSilence \in Nat
  BY <1>k
<1>v. /\ Silence' \in Nat /\ BlockTime' \in Nat /\ BlockTime' <= Latency /\ Pings' \in Nat
      /\ MostSilence' \in Nat
  BY <1>n
<1>t. /\ frame_age["relay"] \in Nat /\ ping_age \in 0..PingInterval
      /\ forwarded \in Nat /\ Signs \in Nat /\ Len(frame_rx["relay"]) \in Nat
      /\ Len(writer_rx) \in 0..Capacity
      /\ wire["relay"] \in Seq(Part) /\ write_age["relay"] \in Nat
      /\ loop["agent"] \in {"select", "ping"} /\ loop["relay"] \in {"select", "send"}
      /\ writer \in {"idle", "writing"}
  <2>1. TypeOK
    BY DEF Steady
  <2>2. /\ frame_age["relay"] \in Nat /\ ping_age \in 0..PingInterval
        /\ forwarded \in Nat /\ Signs \in Nat /\ Len(frame_rx["relay"]) \in Nat
        /\ Len(writer_rx) \in 0..Capacity /\ write_age["relay"] \in Nat
    <3>1. /\ frame_age["relay"] \in 0..DeadAfter /\ ping_age \in 0..PingInterval
          /\ forwarded \in 0..MaxOpens /\ Signs \in 0..Capacity + 1
          /\ Len(frame_rx["relay"]) \in 0..Capacity
          /\ Len(writer_rx) \in 0..Capacity /\ write_age["relay"] \in 0..WriteTimeout
      BY <2>1, SteadyTypes
    <3> QED
      BY <3>1, Sizes
  <2>3. wire["relay"] \in Seq(Part)
    BY <2>1, SteadyTypes
  <2> QED
    BY <2>2, <2>3 DEF Steady, TasksRun
<1>f. /\ loop \in [Ends -> {"select", "ping", "send", "over", "ended"}]
      /\ reader \in [Ends -> {"length", "payload", "full", "ended", "garbled"}]
      /\ frame_rx \in [Ends -> Seq(Frames)] /\ frame_age \in [Ends -> 0..DeadAfter]
      /\ wire \in [Ends -> Seq(Part)] /\ writer_rx \in Seq(Frames)
  BY DEF Steady, TypeOK, WireType, ReaderType, ChannelType, LoopType, QueueType
\* The Pings stay, and the time that they may wait does not shrink.
<1>a. ASSUME frame_age'["relay"] = frame_age["relay"], Pings' = Pings, ping_age' = ping_age,
             forwarded' = forwarded, BlockTime' >= BlockTime
      PROVE  RelayHears'
  <2>1. Silence' = Silence
    BY <1>a, <1>k, <1>n
  <2> DEFINE F == Latency * (forwarded + 1)
  <2>2. MostSilence' = PingInterval + F + BlockTime' /\ MostSilence = PingInterval + F + BlockTime /\ F \in Nat
    BY <1>a, <1>k, <1>n
  <2> HIDE DEF F
  <2>3. MostSilence <= MostSilence'
    <3>1. BlockTime <= BlockTime'
      BY <1>a, <1>u, <1>v
    <3> QED
      BY <2>2, <3>1, <1>u, <1>v, Sums
  <2>4. Pings' > 0 => Silence' <= MostSilence'
    BY <2>1, <2>3, <1>a, <1>i, <1>u, <1>v
  <2> QED
    BY <2>1, <2>4, <1>a, <1>i DEF RelayHears
<1>p. ASSUME Signs' = Signs, PingUnderWay' <=> PingUnderWay
      PROVE  Pings' = Pings
  BY <1>p DEF Pings
<1>1. CASE \/ UNCHANGED vars \/ AskOpen \/ HandOver("agent") \/ Read("agent") \/ AgentReceive
  <2>1. /\ UNCHANGED <<ping_age, forwarded, loop, writer, writer_rx, write_age>>
        /\ frame_age'["relay"] = frame_age["relay"]
    BY <1>1, <1>f, Peers
       DEF vars, AskOpen, HandOver, Read, AgentReceive, agentVars, relayVars, writeVars
  <2>2. /\ reader'["relay"] = reader["relay"] /\ frame_rx'["relay"] = frame_rx["relay"]
        /\ wire'["relay"] = wire["relay"]
    BY <1>1, <1>f, Peers DEF vars, AskOpen, HandOver, Read, AgentReceive, readerVars
  <2>3. Pings' = Pings
    BY <2>1, <2>2, <1>p DEF Signs, PingUnderWay
  <2>4. BlockTime' = BlockTime
    BY <2>1 DEF BlockTime
  <2> QED
    BY <2>1, <2>3, <2>4, <1>a, <1>k
<1>2. CASE HandOver("relay")
  <2>1. /\ UNCHANGED <<ping_age, forwarded, loop, writer, writer_rx, write_age, frame_age, wire>>
        /\ reader["relay"] = "full" /\ reader'["relay"] = "length"
        /\ frame_rx'["relay"] = Append(frame_rx["relay"], in_hand["relay"])
    BY <1>2, <1>f, Peers DEF HandOver, agentVars, relayVars, writeVars
  <2>2. frame_rx["relay"] \in Seq(Frames) /\ in_hand["relay"] \in Frames
    BY <1>2, <1>f, Peers DEF HandOver, Steady, HeldFrames
  <2>3. Len(frame_rx'["relay"]) = Len(frame_rx["relay"]) + 1
    BY <2>1, <2>2, AddOne
  <2>4. Signs' = Signs
    <3>1. Signs = Len(frame_rx["relay"]) + 1
      BY <2>1 DEF Signs
    <3>2. Signs' = Len(frame_rx'["relay"]) + 0
      BY <2>1 DEF Signs
    <3> QED
      BY <3>1, <3>2, <2>3, <1>t
  <2>5. Pings' = Pings /\ BlockTime' = BlockTime
    BY <2>1, <2>4, <1>p DEF PingUnderWay, BlockTime
  <2> QED
    BY <2>1, <2>5, <1>a, <1>k
<1>3. CASE Read("relay")
  <2>1. UNCHANGED <<ping_age, forwarded, loop, writer, writer_rx, write_age, frame_age>>
    BY <1>3 DEF Read, agentVars, relayVars, writeVars
  <2>2. Pings' = Pings
    <3>1. \/ Signs' = Signs /\ (PingUnderWay' <=> PingUnderWay)
          \/ Signs' = Signs + 1 /\ PingUnderWay /\ ~PingUnderWay'
      BY <1>3, RelayReads
    <3>2. ASSUME Signs' = Signs + 1, PingUnderWay, ~PingUnderWay'
          PROVE  Pings' = Pings
      <4>1. Pings = Signs + 1 /\ Pings' = Signs' + 0
        BY <3>2 DEF Pings
      <4> QED
        BY <4>1, <3>2, <1>t
    <3> QED
      BY <3>1, <3>2, <1>p
  <2>3. BlockTime' = BlockTime
    BY <2>1 DEF BlockTime
  <2> QED
    BY <2>1, <2>2, <2>3, <1>a, <1>k
<1>4. CASE StartPing
  <2>1. /\ UNCHANGED <<ping_age, forwarded, writer, writer_rx, write_age, frame_age, wire, reader, frame_rx>>
        /\ loop["agent"] = "select" /\ loop'["agent"] = "ping" /\ loop'["relay"] = loop["relay"]
        /\ ping_age = PingInterval
    BY <1>4, <1>f, Peers DEF StartPing, agentVars, readerVars, relayVars, writeVars
  <2>2. ~PingUnderWay /\ ~PingUnderWay'
    BY <2>1, SteadyConditions, Sizes DEF PingUnderWay, Steady, AgentWrites
  <2>3. Pings' = Pings /\ BlockTime' = BlockTime
    BY <2>1, <2>2, <1>p DEF Signs, BlockTime
  <2> QED
    BY <2>1, <2>3, <1>a, <1>k
<1>5. CASE WritePing
  <2>1. /\ UNCHANGED <<frame_age, reader, frame_rx, writer, writer_rx, forwarded>>
        /\ write_age'["relay"] = write_age["relay"]
        /\ loop["agent"] = "ping" /\ loop'["relay"] = loop["relay"]
        /\ loop'["agent"] = IF parts["agent"] = 1 THEN "select" ELSE "ping"
        /\ ping_age' = IF parts["agent"] = 1 THEN 0 ELSE ping_age
    BY <1>5, <1>f, PingPut, Peers DEF WritePing, readerVars, relayVars
  <2>2. ~PingUnderWay /\ Signs' = Signs /\ BlockTime' = BlockTime
    BY <2>1 DEF PingUnderWay, Signs, BlockTime
  <2>3. CASE parts["agent"] # 1
    BY <2>1, <2>2, <2>3, <1>a, <1>k, <1>p DEF PingUnderWay
  <2>4. CASE parts["agent"] = 1
    <3>1. PingUnderWay'
      <4>1. PICK x \in Part : wire'["relay"] = Append(wire["relay"], x)
        BY <1>5, PingPut
      <4>2. Append(wire["relay"], x) # <<>>
        BY <1>t, MoreIs
      <4> QED
        BY <4>1, <4>2, <2>1, <2>4 DEF PingUnderWay
    <3>2. Pings' = Pings + 1
      <4>1. Pings = Signs + 0 /\ Pings' = Signs' + 1
        BY <2>2, <3>1 DEF Pings
      <4> QED
        BY <4>1, <2>2, <1>t
    <3>3. ping_age = PingInterval /\ ping_age' = 0
      BY <2>1, <2>4 DEF Steady, AgentWrites
    <3>4. PingInterval * (Pings + 1) = PingInterval * Pings + PingInterval
      BY <1>k, Times
    <3> DEFINE P == PingInterval * Pings
               F == Latency * (forwarded + 1)
    <3>5. Silence = P + PingInterval /\ Silence' = P + PingInterval + 0 /\ P \in Nat
      BY <3>2, <3>3, <3>4, <1>k, <1>n, Sizes
    <3>6. MostSilence' = PingInterval + F + BlockTime /\ MostSilence = PingInterval + F + BlockTime /\ F \in Nat
      BY <2>1, <2>2, <1>k, <1>n
    <3>7. Pings = 0 => P = 0
      BY Sizes
    <3> HIDE DEF P, F
    <3>8. Silence' = Silence /\ MostSilence' = MostSilence
      BY <3>5, <3>6, Sizes
    <3>9. Silence <= MostSilence
      <4>1. CASE Pings = 0
        BY <4>1, <3>5, <3>6, <3>7, <1>k, Sizes
      <4>2. CASE Pings > 0
        BY <4>2, <1>i
      <4> QED
        BY <4>1, <4>2, <1>k
    <3> QED
      BY <3>8, <3>9, <2>1, <1>i DEF RelayHears
  <2> QED
    BY <2>3, <2>4
<1>6. CASE ForwardOpen
  <2>1. /\ UNCHANGED <<ping_age, frame_age, reader, frame_rx, wire>> /\ forwarded' = forwarded + 1
        /\ loop'["agent"] = loop["agent"]
    BY <1>6, <1>t, <1>f, Peers DEF ForwardOpen, Send, agentVars, readerVars
  <2>2. Pings' = Pings
    BY <2>1, <1>p DEF Signs, PingUnderWay
  <2> DEFINE F == Latency * (forwarded + 1)
  <2>3. Latency * (forwarded' + 1) = F + Latency
    <3>1. forwarded + 1 \in Nat /\ forwarded' + 1 = (forwarded + 1) + 1
      BY <2>1, <1>t
    <3> QED
      BY <3>1, Times
  <2>4. /\ MostSilence' = PingInterval + (F + Latency) + BlockTime'
        /\ MostSilence = PingInterval + F + BlockTime /\ F \in Nat
    BY <2>3, <1>k, <1>n
  <2> HIDE DEF F
  <2>5. MostSilence <= MostSilence'
    BY <2>4, <1>u, <1>v, Sums
  <2>6. Silence' = Silence
    BY <2>1, <2>2, <1>k, <1>n
  <2> QED
    BY <2>1, <2>2, <2>5, <2>6, <1>i, <1>u, <1>v DEF RelayHears
<1>7. CASE RelayReceive
  <2>1. /\ UNCHANGED <<ping_age, reader, wire, forwarded>> /\ loop'["agent"] = loop["agent"]
        /\ frame_rx["relay"] # <<>> /\ frame_rx'["relay"] = Tail(frame_rx["relay"])
        /\ frame_age'["relay"] = 0
    BY <1>7, <1>t, <1>f, Peers DEF RelayReceive, Send, agentVars, readerVars
  <2>2. Len(frame_rx'["relay"]) = Len(frame_rx["relay"]) - 1 
    <3>1. frame_rx["relay"] \in Seq(Frames)
      BY <1>f, Peers
    <3> QED
      BY <3>1, <2>1, TakeOne
  <2>3. Signs' = Signs - 1
    <3>1. CASE reader["relay"] = "full"
      <4>1. Signs = Len(frame_rx["relay"]) + 1 /\ Signs' = Len(frame_rx'["relay"]) + 1
        BY <2>1, <3>1 DEF Signs
      <4> QED
        BY <4>1, <2>2, <1>t
    <3>2. CASE reader["relay"] # "full"
      <4>1. Signs = Len(frame_rx["relay"]) + 0 /\ Signs' = Len(frame_rx'["relay"]) + 0
        BY <2>1, <3>2 DEF Signs
      <4> QED
        BY <4>1, <2>2, <1>t
    <3> QED
      BY <3>1, <3>2
  <2>4. Pings = Pings' + 1
    <3>1. PingUnderWay' <=> PingUnderWay
      BY <2>1 DEF PingUnderWay
    <3>2. CASE PingUnderWay
      <4>1. Pings = Signs + 1 /\ Pings' = Signs' + 1
        BY <3>1, <3>2 DEF Pings
      <4> QED
        BY <4>1, <2>3, <1>t
    <3>3. CASE ~PingUnderWay
      <4>1. Pings = Signs + 0 /\ Pings' = Signs' + 0
        BY <3>1, <3>3 DEF Pings
      <4> QED
        BY <4>1, <2>3, <1>t
    <3> QED
      BY <3>2, <3>3
  <2>5. PingInterval * Pings = PingInterval * Pings' + PingInterval
    BY <2>4, <1>n, Times
  <2> DEFINE F == Latency * (forwarded + 1)
             N == PingInterval * Pings'
  <2>6. /\ Silence = (N + PingInterval) + ping_age /\ Silence' = N + ping_age /\ N \in Nat
        /\ MostSilence = PingInterval + F + BlockTime /\ MostSilence' = PingInterval + F + BlockTime'
        /\ F \in Nat
    BY <2>1, <2>5, <1>k, <1>n
  <2>7. Silence <= MostSilence
    <3>0. \A n \in Nat : n + 1 > 0
      OBVIOUS
    <3>1. Pings > 0
      BY <3>0, <2>4, <1>v
    <3> QED
      BY <3>1, <1>i
  <2> HIDE DEF F, N
  <2>8. Silence' <= MostSilence'
    <3>1. \A n, p, f, b, c \in Nat :
              b <= Latency /\ (n + PingInterval) + p <= PingInterval + f + b
                  => n + p <= PingInterval + f + c
      <4>1. PingInterval \in Nat /\ Latency \in Nat /\ Latency < PingInterval
        BY SteadyConditions, Sizes
      <4> QED
        BY <4>1
    <3>2. (N + PingInterval) + ping_age <= PingInterval + F + BlockTime
      BY <2>6, <2>7
    <3>3. ping_age \in Nat /\ N \in Nat /\ F \in Nat
      BY <2>6, <1>t, Sizes
    <3>4. N + ping_age <= PingInterval + F + BlockTime'
      BY <3>1, <3>2, <3>3, <1>u, <1>v
    <3> QED
      BY <2>6, <3>4
  <2>9. frame_age'["relay"] <= Silence'
    BY <2>1, <1>v
  <2> QED
    BY <2>8, <2>9 DEF RelayHears
<1>8. CASE Sent \/ TakeFrame
  <2>1. /\ UNCHANGED <<ping_age, forwarded, frame_age, wire, reader, frame_rx>>
        /\ loop'["agent"] = loop["agent"]
    BY <1>8, <1>t, <1>f, Peers DEF Sent, TakeFrame, agentVars, readerVars
  <2>2. Pings' = Pings
    BY <2>1, <1>p DEF Signs, PingUnderWay
  <2>3. BlockTime' = Latency
    <3>1. CASE Sent
      <4>1. loop'["relay"] = "select"
        BY <3>1, <1>t, <1>f, Peers DEF Sent
      <4> QED
        BY <4>1 DEF BlockTime
    <3>2. CASE TakeFrame
      <4>1. Len(writer_rx') = Len(writer_rx) - 1
        BY <3>2, <1>f, TakeOne DEF TakeFrame
      <4>2. Len(writer_rx') # Capacity
        BY <4>1, <1>t, Sizes
      <4> QED
        BY <4>2 DEF BlockTime
    <3> QED
      BY <1>8, <3>1, <3>2
  <2> QED
    BY <2>1, <2>2, <2>3, <1>a, <1>k
<1>9. CASE WriteFrame
  <2>1. /\ UNCHANGED <<ping_age, forwarded, frame_age, reader, frame_rx, loop, writer_rx>>
        /\ wire'["relay"] = wire["relay"] /\ writer = "writing"
        /\ writer' = IF parts["relay"] = 1 THEN "idle" ELSE "writing"
        /\ write_age'["relay"] = IF parts["relay"] = 1 THEN 0 ELSE write_age["relay"]
    BY <1>9, FramePut DEF WriteFrame, agentVars, readerVars
  <2>2. Pings' = Pings
    BY <2>1, <1>p DEF Signs, PingUnderWay
  <2>3. BlockTime' >= BlockTime
    <3>1. CASE parts["relay"] = 1
      <4>1. BlockTime' = Latency
        BY <2>1, <3>1 DEF BlockTime
      <4> QED
        BY <4>1, <1>k
    <3>2. CASE parts["relay"] # 1
      <4>1. BlockTime' = BlockTime
        BY <2>1, <3>2 DEF BlockTime
      <4> QED
        BY <4>1, <1>k
    <3> QED
      BY <3>1, <3>2
  <2> QED
    BY <2>1, <2>2, <2>3, <1>a
<1>10. CASE Tick
  <2>1. /\ Idle /\ ping_age' = ping_age + 1 /\ frame_age'["relay"] = frame_age["relay"] + 1
        /\ wire'["relay"] = Later(wire["relay"])
        /\ write_age'["relay"] = IF writer = "writing" THEN write_age["relay"] + 1
                                                       ELSE write_age["relay"]
        /\ UNCHANGED <<reader, frame_rx, loop, writer, writer_rx, forwarded>>
    BY <1>10, SteadyTick DEF Tick, readerVars, relayVars
  <2>2. PingUnderWay' <=> PingUnderWay
    <3>1. Len(wire'["relay"]) = Len(wire["relay"]) /\ wire'["relay"] \in Seq(Part)
      BY <2>1, <1>t, LaterIs
    <3> QED
      BY <2>1, <3>1, <1>t, EmptySeq DEF PingUnderWay
  <2>3. Pings' = Pings
    BY <2>1, <2>2, <1>p DEF Signs
  <2> DEFINE F == Latency * (forwarded + 1)
             P == PingInterval * Pings
  <2>4. /\ Silence' = P + (ping_age + 1) /\ Silence = P + ping_age /\ P \in Nat
        /\ MostSilence = PingInterval + F + BlockTime /\ MostSilence' = PingInterval + F + BlockTime'
        /\ F \in Nat
    BY <2>1, <2>3, <1>k, <1>n
  <2>5. Pings = 1 => P = PingInterval
    BY Sizes
  <2> HIDE DEF F, P
  <2>6. Silence' = Silence + 1
    BY <2>4, <1>t, Sizes
  <2>7. frame_age'["relay"] <= Silence'
    BY <2>1, <2>6, <1>i, <1>u, <1>t
  <2>8. CASE Pings = 0
    BY <2>3, <2>7, <2>8 DEF RelayHears
  <2>9. CASE Pings > 0 /\ loop["relay"] = "select" /\ Signs = 0
    <3>1. PingUnderWay /\ Pings = 1
      BY <2>9 DEF Pings
    <3>2. ping_age < Latency
      BY <2>1, <3>1, PingsAreFresh
    <3>3. BlockTime' = Latency
      BY <2>1, <2>9 DEF BlockTime
    <3>4. Silence' <= MostSilence'
      BY <3>1, <3>2, <3>3, <2>4, <2>5, <1>t, <1>v, Sizes
    <3> QED
      BY <2>7, <3>4 DEF RelayHears
  <2>10. CASE Pings > 0 /\ loop["relay"] = "send" /\ writer = "writing" /\ Len(writer_rx) = Capacity
    <3>1. BlockTime = write_age["relay"] /\ BlockTime' = write_age["relay"] + 1
      BY <2>1, <2>10 DEF BlockTime
    <3>2. MostSilence' = MostSilence + 1
      BY <3>1, <2>4, <1>t, Sizes
    <3>3. Silence' <= MostSilence'
      BY <3>2, <2>6, <2>10, <1>i, <1>u
    <3> QED
      BY <2>7, <3>3 DEF RelayHears
  <2> QED
    BY <2>1, <2>8, <2>9, <2>10, <1>k, SteadyIdles
<1> QED
  BY <1>1, <1>2, <1>3, <1>4, <1>5, <1>6, <1>7, <1>8, <1>9, <1>10 DEF SteadyMove, Ends

-----------------------------------------------------------------------------
LEMMA SteadyStep ==
    ASSUME SteadyTiming, IInv, IInv', SteadyInv, [Next]_vars
    PROVE  SteadyInv'
<1> SUFFICES ASSUME Works'
             PROVE  (/\ TasksRun /\ RelayWrites /\ AgentWrites
                     /\ heartbeat["agent"] => AgentHears /\ RelayHears)'
  BY DEF SteadyInv
<1>1. Works
  <2>1. LoopType /\ ReaderType /\ WireType /\ WriteType
    BY DEF IInv, TypeOK
  <2>2. lost \subseteq lost' /\ (reset => reset')
    BY <2>1, Onward
  <2>3. stopped => stopped'
    BY DEF Next, TaskStep, NetStep, Environment, vars, netVars, CleanUp, HandOver, ReaderGone,
           HeartbeatMissed, StartPing, WritePing, PingFails, AgentReceive, ForwardOpen, RelayReceive,
           Sent, WriterGone, Replaced, TakeFrame, WriteFrame, WriterFails, Read, ReadFails,
           AskOpen, StopDevice, Reset, Lose, Tick
  <2> QED
    BY <2>2, <2>3 DEF Works
<1>2. Steady
  BY <1>1 DEF Steady, IInv, SteadyInv
<1>3. SteadyMove
  BY <1>2, SteadyMoves
<1>4. TypeOK' /\ FramesStayAligned' /\ Alignment'
  BY DEF IInv
<1>5. TasksRun' /\ RelayWrites' /\ AgentWrites'
  BY <1>2, <1>3, <1>4, TasksStep, RelayWritesStep, AgentWritesStep
<1>6. heartbeat' = heartbeat
  BY <1>3 DEF SteadyMove, vars, HandOver, Read, StartPing, WritePing, AgentReceive, ForwardOpen,
              RelayReceive, Sent, TakeFrame, WriteFrame, AskOpen, Tick
<1>7. heartbeat["agent"] => AgentHears' /\ RelayHears'
  BY <1>2, <1>3, <1>4, <1>5, AgentHearsStep, RelayHearsStep
<1> QED
  BY <1>5, <1>6, <1>7

LEMMA SteadyInit ==
    ASSUME SteadyTiming, Init
    PROVE  SteadyInv
<1>1. IInv /\ TypeOK
  BY InvariantInit DEF IInv
<1>2. /\ loop["agent"] = "select" /\ loop["relay"] = "select"
      /\ \A e \in Ends : reader[e] = "length"
      /\ writer = "idle" /\ writer_rx = <<>>
      /\ wire["agent"] = <<>> /\ wire["relay"] = <<>>
      /\ parts["agent"] = 0 /\ parts["relay"] = 0
      /\ write_age["agent"] = 0 /\ write_age["relay"] = 0
      /\ frame_age["agent"] = 0 /\ frame_age["relay"] = 0 /\ ping_age = PingInterval
      /\ frame_rx["agent"] = <<>> /\ frame_rx["relay"] = <<>>
      /\ forwarded = 0
  BY Peers DEF Init
<1>3. heartbeat["agent"] = heartbeat["relay"]
  BY Peers DEF Init, Negotiate
<1>4. Len(wire["agent"]) = 0 /\ Len(wire["relay"]) = 0 /\ Len(frame_rx["relay"]) = 0
  BY <1>2, EmptySeq
<1>5. TasksRun
  BY <1>2, <1>3 DEF TasksRun
<1>6. RelayWrites
  <2>1. \A i \in 1..Len(wire["agent"]) : FALSE
    BY <1>4
  <2>2. Ordered(wire["agent"], parts["relay"], write_age["relay"])
    BY <2>1 DEF Ordered
  <2> QED
    BY <1>2, <2>2, Sizes DEF RelayWrites
<1>7. ~PingUnderWay
  BY <1>2 DEF PingUnderWay
<1>8. AgentWrites
  BY <1>2, <1>4, <1>7 DEF AgentWrites
<1>9. Signs = 0 /\ Pings = 0
  <2>1. Signs = Len(frame_rx["relay"]) + 0
    BY <1>2, Peers DEF Signs
  <2>2. Signs = 0
    BY <2>1, <1>4
  <2> QED
    BY <2>2, <1>7 DEF Pings
<1>10. AgentHears
  <2>1. Heard(wire["agent"], reader["agent"], 0)
    BY <1>4, Sizes DEF Heard, FirstPayload
  <2> QED
    BY <2>1, <1>2, Sizes DEF AgentHears
<1>11. RelayHears
  <2>1. Silence = PingInterval
    BY <1>2, <1>9, Sizes DEF Silence
  <2> QED
    BY <2>1, <1>2, <1>9, Sizes DEF RelayHears
<1> QED
  BY <1>5, <1>6, <1>8, <1>10, <1>11 DEF SteadyInv

\* A connection that works and is not replaced is kept by both ends, however the
\* tasks take turns and however the Opens come, if the timing leaves room for
\* the Opens that it carries: no heartbeat is missed because a loop or a reader
\* waits, and no write comes near its timeout (LivePeerIsKept;
\* run_control_stream, agent.rs 243-300, handle_agent, server.rs 487-560).
THEOREM LivePeersAreKept == SteadyTiming => (Spec => []LivePeerIsKept)
<1> SUFFICES ASSUME SteadyTiming
             PROVE  Spec => []LivePeerIsKept
  OBVIOUS
<1>1. Init => SteadyInv
  BY SteadyInit
<1>2. IInv /\ IInv' /\ SteadyInv /\ [Next]_vars => SteadyInv'
  BY SteadyStep
<1>3. SteadyInv => LivePeerIsKept
  BY DEF SteadyInv, Works, TasksRun, LivePeerIsKept, Ends
<1> QED
  BY Invariant, <1>1, <1>2, <1>3, PTL DEF Spec
=============================================================================
