---------------------------- MODULE ControlChannel ----------------------------
(***************************************************************************)
(* One control connection, from the relay's HelloOk to its end: the select *)
(* loop and the reader task of the agent (run_control_stream of            *)
(* src/src/agent.rs), the select loop, the reader task and the writer task *)
(* of the relay (handle_agent of src/src/server.rs), and the connection    *)
(* between them, which delivers within Latency, or from some moment on     *)
(* nothing at all in one direction or both.                                *)
(*                                                                         *)
(* Time is counted in ticks.  Deadlines are kept as ages.  A tick passes   *)
(* only when no task can run, so a step takes no time; ready branches of a *)
(* select are taken in any order, as tokio does.                           *)
(***************************************************************************)
EXTENDS Integers, Sequences

CONSTANTS
    PingInterval,  \* timing.ping_interval
    DeadAfter,     \* timing.dead_after
    WriteTimeout,  \* timing.write_timeout
    Latency,       \* the longest a part of a frame is under way
    Capacity,      \* CONTROL_FRAME_CHANNEL_CAPACITY
    WireSize,      \* parts of frames the connection holds in one direction
    MaxOpens       \* bound: sessions asked for

ASSUME TimingAssumption ==
    /\ {Latency, MaxOpens} \subseteq Nat
    /\ {PingInterval, DeadAfter, WriteTimeout, Capacity, WireSize} \subseteq Nat \ {0}

Ends == {"agent", "relay"}
Peer(e) == IF e = "agent" THEN "relay" ELSE "agent"

\* Frames.  An Open is told by the number of its session.
Ping    == [kind |-> "ping", session |-> 0]
Pong    == [kind |-> "pong", session |-> 0]
Open(n) == [kind |-> "open", session |-> n]
Frames  == {Ping, Pong} \cup {Open(n) : n \in 1..MaxOpens}
Nothing == [kind |-> "none", session |-> 0]

\* Bound of lost_age: more than any end stays.
MaxLostAge == DeadAfter + WriteTimeout * (MaxOpens + Capacity + 2) + 1

VARIABLES
    heartbeat,  \* the end takes part in heartbeats
    loop,       \* the select loop: "select", "ping" (the agent is writing a
                \* Ping), "send" (the relay waits for room in writer_tx), "over",
                \* "ended" (tasks aborted, stream dropped)
    frame_age,  \* time since last_frame, last_agent_frame
    ping_age,   \* time since last_ping
    reader,     \* the reader task, in read_frame: "length", "payload";
                \* with a frame in hand: "full"; "ended", "garbled"
    in_hand,    \* the frame it read last
    frame_rx,   \* frames between the reader task and the loop
    wire,       \* for the end that reads it: parts of frames under way
    parts,      \* parts of the frame being written that are on the wire
    write_age,  \* time since that write began
    sending,    \* the frame of the writer_tx.send in progress
    writer_rx,  \* frames between the relay's loop and its writer task
    writer,     \* the writer task: "idle", "writing", "ended"
    writing,    \* the frame it writes
    asked,      \* Opens put into open_tx
    forwarded,  \* Opens taken from open_rx
    started,    \* the sessions the agent has started, in order
    stopped,    \* shutdown_rx is signalled
    lost,       \* the ends that nothing reaches any more
    lost_age,   \* for an end still running: ticks since it was lost
    forwarded_before,  \* forwarded, when the relay was lost
    reset       \* the connection is broken, and both ends can tell

agentVars == <<ping_age, started>>
relayVars == <<sending, writer_rx, writer, writing, forwarded>>
readerVars == <<reader, in_hand>>
writeVars == <<parts, write_age>>
netVars == <<lost, lost_age, forwarded_before, reset>>
vars == <<heartbeat, loop, frame_age, agentVars, readerVars, frame_rx, wire,
          writeVars, relayVars, asked, stopped, netVars>>

Upto(bound, n) == IF n < bound THEN n ELSE bound

\* Faulty: the relay expects heartbeats of every agent.
NegotiateAlways(agentKnows, relayKnows) ==
    [e \in Ends |-> relayKnows /\ (e = "agent" => agentKnows)]

\* Each end may be a version that does not know heartbeats.
Negotiate(agentKnows, relayKnows) ==
    [e \in Ends |-> agentKnows /\ relayKnows]

Init ==
    /\ \E agentKnows, relayKnows \in BOOLEAN :
          heartbeat = Negotiate(agentKnows, relayKnows)
    /\ loop = [e \in Ends |-> "select"]
    /\ frame_age = [e \in Ends |-> 0]
    /\ ping_age = PingInterval
    /\ reader = [e \in Ends |-> "length"]
    /\ in_hand = [e \in Ends |-> Nothing]
    /\ frame_rx = [e \in Ends |-> <<>>]
    /\ wire = [e \in Ends |-> <<>>]
    /\ parts = [e \in Ends |-> 0] /\ write_age = [e \in Ends |-> 0]
    /\ sending = Nothing /\ writer_rx = <<>> /\ writer = "idle" /\ writing = Nothing
    /\ asked = 0 /\ forwarded = 0 /\ started = <<>>
    /\ stopped = FALSE /\ lost = {} /\ lost_age = [e \in Ends |-> 0] /\ forwarded_before = 0 /\ reset = FALSE

Running(e) == loop[e] # "ended"

Break(e) == loop' = [loop EXCEPT ![e] = "over"]

\* After the loop: the tasks are aborted, and with them and their channels
\* the stream is dropped.
CleanUp(e) ==
    /\ loop[e] = "over"
    /\ loop' = [loop EXCEPT ![e] = "ended"]
    /\ reader' = [reader EXCEPT ![e] = IF @ = "garbled" THEN @ ELSE "ended"]
    /\ in_hand' = [in_hand EXCEPT ![e] = Nothing]
    /\ frame_rx' = [frame_rx EXCEPT ![e] = <<>>]
    /\ parts' = [parts EXCEPT ![e] = 0]
    /\ write_age' = [write_age EXCEPT ![e] = 0]
    /\ frame_age' = [frame_age EXCEPT ![e] = 0]
    /\ wire' = [wire EXCEPT ![e] = <<>>]
    /\ IF e = "agent"
       THEN ping_age' = 0 /\ UNCHANGED relayVars
       ELSE /\ writer' = "ended" /\ writing' = Nothing
            /\ writer_rx' = <<>> /\ sending' = Nothing
            /\ UNCHANGED <<ping_age, forwarded>>
    /\ UNCHANGED <<heartbeat, started, asked, stopped, netVars>>

-----------------------------------------------------------------------------
(* The reader task of either end.                                          *)

\* read_frame takes the next part: a length, then the payload it announced.
Read(e) ==
    /\ Running(e) /\ reader[e] \in {"length", "payload"}
    /\ wire[e] # <<>> /\ e \notin lost /\ ~reset
    /\ wire' = [wire EXCEPT ![e] = Tail(@)]
    /\ LET next == Head(wire[e]) IN
       IF next.part # reader[e]
       THEN reader' = [reader EXCEPT ![e] = "garbled"] /\ UNCHANGED in_hand
       ELSE IF next.part = "length"
       THEN reader' = [reader EXCEPT ![e] = "payload"] /\ UNCHANGED in_hand
       ELSE /\ reader' = [reader EXCEPT ![e] = "full"]
            /\ in_hand' = [in_hand EXCEPT ![e] = next.frame]
    /\ UNCHANGED <<heartbeat, loop, frame_age, agentVars, frame_rx, writeVars,
                   relayVars, asked, stopped, netVars>>

\* frame_tx.send: the frame goes to the loop when the channel has room.
HandOver(e) ==
    /\ Running(e) /\ reader[e] = "full"
    /\ Len(frame_rx[e]) < Capacity
    /\ frame_rx' = [frame_rx EXCEPT ![e] = Append(@, in_hand[e])]
    /\ reader' = [reader EXCEPT ![e] = "length"]
    /\ in_hand' = [in_hand EXCEPT ![e] = Nothing]
    /\ UNCHANGED <<heartbeat, loop, frame_age, agentVars, wire, writeVars,
                   relayVars, asked, stopped, netVars>>

\* The other end has gone, or the connection broke.  What was under way may
\* be lost with it.
ReadFails(e) ==
    /\ Running(e) /\ reader[e] \in {"length", "payload"}
    /\ reset \/ (~Running(Peer(e)) /\ e \notin lost)
    /\ reader' = [reader EXCEPT ![e] = "ended"]
    /\ UNCHANGED <<heartbeat, loop, frame_age, agentVars, in_hand, frame_rx, wire,
                   writeVars, relayVars, asked, stopped, netVars>>

\* The loop sees the end of its reader task, perhaps before frames that are
\* still in the channel.
ReaderGone(e) ==
    /\ loop[e] = "select" /\ reader[e] \in {"ended", "garbled"}
    /\ Break(e)
    /\ UNCHANGED <<heartbeat, frame_age, agentVars, readerVars, frame_rx, wire,
                   writeVars, relayVars, asked, stopped, netVars>>

\* No frame for DeadAfter.
HeartbeatMissed(e) ==
    /\ loop[e] = "select" /\ heartbeat[e]
    /\ frame_age[e] = DeadAfter
    /\ Break(e)
    /\ UNCHANGED <<heartbeat, frame_age, agentVars, readerVars, frame_rx, wire,
                   writeVars, relayVars, asked, stopped, netVars>>

-----------------------------------------------------------------------------
(* Writing a frame at end e: its length, then its payload.                 *)

Writing(e) == IF e = "agent" THEN loop[e] = "ping" ELSE writer = "writing" /\ Running(e)

Room(e) == Len(wire[Peer(e)]) < WireSize /\ ~reset

PutPart(e, frame) ==
    /\ Room(e)
    /\ \/ wire' = [wire EXCEPT ![Peer(e)] =
                      Append(@, [part |-> IF parts[e] = 0 THEN "length" ELSE "payload",
                                 frame |-> frame, age |-> 0])]
       \/ (Peer(e) \in lost \/ ~Running(Peer(e))) /\ UNCHANGED wire
    /\ parts' = [parts EXCEPT ![e] = 1 - @]
    /\ write_age' = IF parts[e] = 1 THEN [write_age EXCEPT ![e] = 0] ELSE write_age

\* Faulty: a write has no time limit.
WriteFailsUntimed(e) ==
    /\ ~Room(e) \/ ~Running(Peer(e))
    /\ reset \/ (~Running(Peer(e)) /\ e \notin lost)

\* The write cannot go on, and its time is over or the connection is.
WriteFails(e) ==
    /\ ~Room(e) \/ ~Running(Peer(e))
    /\ write_age[e] = WriteTimeout \/ reset \/ (~Running(Peer(e)) /\ e \notin lost)

-----------------------------------------------------------------------------
(* The agent's loop.                                                       *)

\* Faulty: the loop itself awaits read_frame, and the ping branch cancels it.
StartPingCancelsRead ==
    /\ loop["agent"] = "select" /\ heartbeat["agent"]
    /\ ping_age = PingInterval
    /\ loop' = [loop EXCEPT !["agent"] = "ping"]
    /\ reader' = [reader EXCEPT !["agent"] = IF @ = "payload" THEN "length" ELSE @]
    /\ UNCHANGED <<heartbeat, frame_age, agentVars, in_hand, frame_rx, wire,
                   writeVars, relayVars, asked, stopped, netVars>>

StartPing ==
    /\ loop["agent"] = "select" /\ heartbeat["agent"]
    /\ ping_age = PingInterval
    /\ loop' = [loop EXCEPT !["agent"] = "ping"]
    /\ UNCHANGED <<heartbeat, frame_age, agentVars, readerVars, frame_rx, wire,
                   writeVars, relayVars, asked, stopped, netVars>>

\* The write of the Ping goes on; with its last part last_ping is set.
WritePing ==
    /\ loop["agent"] = "ping"
    /\ PutPart("agent", Ping)
    /\ loop' = IF parts["agent"] = 1 THEN [loop EXCEPT !["agent"] = "select"] ELSE loop
    /\ ping_age' = IF parts["agent"] = 1 THEN 0 ELSE ping_age
    /\ UNCHANGED <<heartbeat, frame_age, started, readerVars, frame_rx,
                   relayVars, asked, stopped, netVars>>

PingFails ==
    /\ loop["agent"] = "ping"
    /\ WriteFails("agent")
    /\ Break("agent")
    /\ UNCHANGED <<heartbeat, frame_age, agentVars, readerVars, frame_rx, wire,
                   writeVars, relayVars, asked, stopped, netVars>>

\* frame_rx.recv: an Open starts a session, and it counts as a sign of life
\* like a Pong.
AgentReceive ==
    /\ loop["agent"] = "select" /\ frame_rx["agent"] # <<>>
    /\ frame_rx' = [frame_rx EXCEPT !["agent"] = Tail(@)]
    /\ frame_age' = [frame_age EXCEPT !["agent"] = 0]
    /\ started' = IF Head(frame_rx["agent"]).kind = "open"
                  THEN Append(started, Head(frame_rx["agent"]).session)
                  ELSE started
    /\ UNCHANGED <<heartbeat, loop, ping_age, readerVars, wire, writeVars,
                   relayVars, asked, stopped, netVars>>

-----------------------------------------------------------------------------
(* The relay's loop.                                                       *)

\* writer_tx.send(frame): at once, or the loop waits for room.
Send(frame) ==
    IF writer = "ended"
    THEN Break("relay") /\ UNCHANGED <<sending, writer_rx>>
    ELSE IF Len(writer_rx) < Capacity
         THEN writer_rx' = Append(writer_rx, frame) /\ UNCHANGED <<loop, sending>>
         ELSE /\ loop' = [loop EXCEPT !["relay"] = "send"]
              /\ sending' = frame
              /\ UNCHANGED writer_rx

ForwardOpen ==
    /\ loop["relay"] = "select" /\ forwarded < asked
    /\ forwarded' = forwarded + 1
    /\ Send(Open(forwarded + 1))
    /\ UNCHANGED <<heartbeat, frame_age, agentVars, readerVars, frame_rx, wire,
                   writeVars, writer, writing, asked, stopped, netVars>>

\* A Ping: a sign of life, and it is answered.
RelayReceive ==
    /\ loop["relay"] = "select" /\ frame_rx["relay"] # <<>>
    /\ frame_rx' = [frame_rx EXCEPT !["relay"] = Tail(@)]
    /\ frame_age' = [frame_age EXCEPT !["relay"] = 0]
    /\ Send(Pong)
    /\ UNCHANGED <<heartbeat, agentVars, readerVars, wire, writeVars, writer, writing,
                   forwarded, asked, stopped, netVars>>

\* Faulty: the frame that waited is dropped.
SentForgets ==
    /\ loop["relay"] = "send"
    /\ sending' = Nothing
    /\ \/ writer # "ended" /\ loop' = [loop EXCEPT !["relay"] = "select"]
       \/ writer = "ended" /\ Break("relay")
    /\ UNCHANGED <<heartbeat, frame_age, agentVars, readerVars, frame_rx, wire, writeVars,
                   writer_rx, writer, writing, forwarded, asked, stopped, netVars>>

\* The waiting send ends: there is room, or the writer task has ended.
Sent ==
    /\ loop["relay"] = "send"
    /\ sending' = Nothing
    /\ \/ /\ writer # "ended" /\ Len(writer_rx) < Capacity
          /\ writer_rx' = Append(writer_rx, sending)
          /\ loop' = [loop EXCEPT !["relay"] = "select"]
       \/ /\ writer = "ended"
          /\ Break("relay")
          /\ UNCHANGED writer_rx
    /\ UNCHANGED <<heartbeat, frame_age, agentVars, readerVars, frame_rx, wire, writeVars,
                   writer, writing, forwarded, asked, stopped, netVars>>

WriterGone ==
    /\ loop["relay"] = "select" /\ writer = "ended"
    /\ Break("relay")
    /\ UNCHANGED <<heartbeat, frame_age, agentVars, readerVars, frame_rx, wire,
                   writeVars, relayVars, asked, stopped, netVars>>

Replaced ==
    /\ loop["relay"] = "select" /\ stopped
    /\ Break("relay")
    /\ UNCHANGED <<heartbeat, frame_age, agentVars, readerVars, frame_rx, wire,
                   writeVars, relayVars, asked, stopped, netVars>>

-----------------------------------------------------------------------------
(* The relay's writer task.                                                *)

TakeFrame ==
    /\ Running("relay") /\ writer = "idle" /\ writer_rx # <<>>
    /\ writer' = "writing"
    /\ writing' = Head(writer_rx)
    /\ writer_rx' = Tail(writer_rx)
    /\ UNCHANGED <<heartbeat, loop, frame_age, agentVars, readerVars, frame_rx, wire,
                   writeVars, sending, forwarded, asked, stopped, netVars>>

WriteFrame ==
    /\ Running("relay") /\ writer = "writing"
    /\ PutPart("relay", writing)
    /\ writer' = IF parts["relay"] = 1 THEN "idle" ELSE "writing"
    /\ writing' = IF parts["relay"] = 1 THEN Nothing ELSE writing
    /\ UNCHANGED <<heartbeat, loop, frame_age, agentVars, readerVars, frame_rx,
                   sending, writer_rx, forwarded, asked, stopped, netVars>>

WriterFails ==
    /\ Running("relay") /\ writer = "writing"
    /\ WriteFails("relay")
    /\ writer' = "ended"
    /\ UNCHANGED <<heartbeat, loop, frame_age, agentVars, readerVars, frame_rx, wire,
                   writeVars, sending, writer_rx, writing, forwarded, asked, stopped, netVars>>

-----------------------------------------------------------------------------
(* The rest of the relay, the network, and time.                           *)

\* A controller's handler puts a request into open_tx.
AskOpen ==
    /\ asked < MaxOpens
    /\ asked' = asked + 1
    /\ UNCHANGED <<heartbeat, loop, frame_age, agentVars, readerVars, frame_rx, wire,
                   writeVars, relayVars, stopped, netVars>>

\* A newer connection of the device has registered.
StopDevice ==
    /\ ~stopped
    /\ stopped' = TRUE
    /\ UNCHANGED <<heartbeat, loop, frame_age, agentVars, readerVars, frame_rx, wire,
                   writeVars, relayVars, asked, netVars>>

Lose(e) ==
    /\ e \notin lost
    /\ lost' = lost \cup {e}
    /\ wire' = [wire EXCEPT ![e] = <<>>]
    /\ forwarded_before' = IF e = "relay" THEN forwarded ELSE forwarded_before
    /\ UNCHANGED <<heartbeat, loop, frame_age, agentVars, readerVars, frame_rx,
                   writeVars, relayVars, asked, stopped, lost_age, reset>>

Reset ==
    /\ ~reset
    /\ reset' = TRUE
    /\ wire' = [e \in Ends |-> <<>>]
    /\ UNCHANGED <<heartbeat, loop, frame_age, agentVars, readerVars, frame_rx,
                   writeVars, relayVars, asked, stopped, lost, lost_age, forwarded_before>>

TaskStep ==
    \/ \E e \in Ends : CleanUp(e) \/ HandOver(e) \/ ReaderGone(e) \/ HeartbeatMissed(e)
    \/ StartPing \/ WritePing \/ PingFails \/ AgentReceive
    \/ ForwardOpen \/ RelayReceive \/ Sent \/ WriterGone \/ Replaced
    \/ TakeFrame \/ WriteFrame \/ WriterFails

NetStep ==
    \/ \E e \in Ends : Read(e) \/ ReadFails(e)

\* Some action of TaskStep is enabled, one line for the guards of each; written
\* out so that it can be proved about.
CanRun ==
    \/ \E e \in Ends :
          \/ loop[e] = "over"
          \/ Running(e) /\ reader[e] = "full" /\ Len(frame_rx[e]) < Capacity
          \/ /\ loop[e] = "select"
             /\ \/ reader[e] \in {"ended", "garbled"}
                \/ heartbeat[e] /\ frame_age[e] = DeadAfter
                \/ frame_rx[e] # <<>>
    \/ loop["agent"] = "select" /\ heartbeat["agent"] /\ ping_age = PingInterval
    \/ loop["agent"] = "ping" /\ (Room("agent") \/ WriteFails("agent"))
    \/ loop["relay"] = "select" /\ (forwarded < asked \/ writer = "ended" \/ stopped)
    \/ loop["relay"] = "send" /\ (Len(writer_rx) < Capacity \/ writer = "ended")
    \/ Running("relay") /\ writer = "idle" /\ writer_rx # <<>>
    \/ Running("relay") /\ writer = "writing" /\ (Room("relay") \/ WriteFails("relay"))

CanRead(e) ==
    Running(e) /\ reader[e] \in {"length", "payload"} /\ wire[e] # <<>> /\ e \notin lost /\ ~reset

\* Nothing is left to do before time passes: no task can run, and no part
\* that has been under way for Latency can be read.
Idle ==
    /\ ~CanRun
    /\ \A e \in Ends : CanRead(e) => Head(wire[e]).age # Latency

Tick ==
    /\ \E e \in Ends : Running(e)
    /\ Idle
    /\ frame_age' = [e \in Ends |->
          IF heartbeat[e] /\ Running(e) THEN Upto(DeadAfter, frame_age[e] + 1) ELSE frame_age[e]]
    /\ write_age' = [e \in Ends |->
          IF Writing(e) THEN Upto(WriteTimeout, write_age[e] + 1) ELSE write_age[e]]
    /\ ping_age' = IF heartbeat["agent"] /\ Running("agent")
                   THEN Upto(PingInterval, ping_age + 1) ELSE ping_age
    /\ wire' = [e \in Ends |-> [i \in 1..Len(wire[e]) |->
                   [wire[e][i] EXCEPT !.age = Upto(Latency, @ + 1)]]]
    /\ lost_age' = [e \in Ends |-> IF e \in lost /\ Running(e)
                                  THEN Upto(MaxLostAge, lost_age[e] + 1) ELSE 0]
    /\ UNCHANGED <<heartbeat, loop, started, readerVars, frame_rx, parts, relayVars,
                   asked, stopped, lost, forwarded_before, reset>>

Over == \A e \in Ends : ~Running(e)

Environment == ~Over /\ (AskOpen \/ StopDevice \/ Reset \/ (\E e \in Ends : Lose(e)))

Next == TaskStep \/ NetStep \/ Environment \/ Tick \/ (Over /\ UNCHANGED vars)

Spec == Init /\ [][Next]_vars

\* A connection that works and is not replaced.
SteadyNext == TaskStep \/ NetStep \/ AskOpen \/ Tick

\* Every task that can run does, and time passes: what tokio and a clock give.
SteadySpec ==
    /\ Init /\ [][SteadyNext]_vars
    /\ WF_vars(TaskStep \/ NetStep) /\ WF_vars(Tick)

-----------------------------------------------------------------------------
Part == [part : {"length", "payload"}, frame : Frames, age : 0..Latency]

LoopType ==
    /\ heartbeat \in [Ends -> BOOLEAN]
    /\ loop \in [Ends -> {"select", "ping", "send", "over", "ended"}]
    /\ frame_age \in [Ends -> 0..DeadAfter]
    /\ ping_age \in 0..PingInterval
ReaderType ==
    /\ reader \in [Ends -> {"length", "payload", "full", "ended", "garbled"}]
    /\ in_hand \in [Ends -> Frames \cup {Nothing}]
ChannelType ==
    /\ frame_rx \in [Ends -> Seq(Frames)]
    /\ \A e \in Ends : Len(frame_rx[e]) <= Capacity
WireType ==
    /\ wire \in [Ends -> Seq(Part)]
    /\ \A e \in Ends : Len(wire[e]) <= WireSize
WriteType ==
    /\ parts \in [Ends -> 0..1]
    /\ write_age \in [Ends -> 0..WriteTimeout]
WriterType ==
    /\ sending \in Frames \cup {Nothing}
    /\ writer \in {"idle", "writing", "ended"}
    /\ writing \in Frames \cup {Nothing}
QueueType ==
    /\ writer_rx \in Seq(Frames)
    /\ Len(writer_rx) <= Capacity
OpensType ==
    /\ asked \in 0..MaxOpens
    /\ forwarded \in 0..asked
    /\ forwarded_before \in 0..forwarded
    /\ started \in Seq(1..MaxOpens)
NetType ==
    /\ stopped \in BOOLEAN
    /\ lost \subseteq Ends
    /\ lost_age \in [Ends -> 0..MaxLostAge]
    /\ reset \in BOOLEAN

TypeOK ==
    /\ LoopType /\ ReaderType /\ ChannelType /\ WireType /\ WriteType
    /\ WriterType /\ QueueType /\ OpensType /\ NetType

\* No reader ever takes a payload for a length or the other way round,
\* whatever times out, blocks or ends around it (the reader tasks, 228-241 of
\* agent.rs and 474-485 of server.rs; one bounded writer, 487-501).
FramesStayAligned == \A e \in Ends : reader[e] # "garbled"

\* While the connection works and nobody stops it, neither end gives it up:
\* no heartbeat is missed because a loop was busy, no write times out, and the
\* two ends agree whether there are heartbeats.
LivePeerIsKept ==
    lost = {} /\ ~reset /\ ~stopped => \A e \in Ends : loop[e] \notin {"over", "ended"}

\* The longest that a Ping waits for an answer: MaxOpens Opens, a Pong and the
\* Ping itself may each be under way for Latency before it.
LongestWait == Latency * (MaxOpens + 2)

\* The timing under which no end that works is given up: a part arrives well
\* before the next Ping or a timeout is due, no more Pings come together than
\* the relay's channel and reader hold, and a Ping is answered in time.
SteadyTiming ==
    /\ WireSize >= 2
    /\ Latency < PingInterval /\ Latency < WriteTimeout
    /\ LongestWait < PingInterval * (Capacity + 1)
    /\ PingInterval + LongestWait < DeadAfter

\* How many writes may keep end e in the channel beyond DeadAfter when nothing
\* reaches it any more: the agent one Ping before it counts the last frame it
\* has read, and one when the deadline falls due; the relay the Pong of each
\* frame it has read, every Open that it forwards, and the frame that its
\* writer has in hand.
Writes(e) ==
    IF e = "agent" THEN 2 ELSE forwarded - forwarded_before + Capacity + 2

NoticedBy(e) ==
    heartbeat[e] /\ lost_age[e] > DeadAfter + WriteTimeout * Writes(e) => ~Running(e)

\* With heartbeats, both ends leave the channel after messages began to
\* vanish, in one direction or both, DeadAfter and the time of those writes
\* later (CHANGELOG.md 9: both ends can find out that the other is
\* unreachable, no answer for 45 s counting as gone).
DeadPeerIsNoticed ==
    \A e \in Ends : NoticedBy(e)

-----------------------------------------------------------------------------
\* On a connection that works every session that is asked for is started,
\* with heartbeats in between or without.
OpensReachAgent == \A n \in 1..MaxOpens : asked >= n ~> Len(started) >= n
=============================================================================
