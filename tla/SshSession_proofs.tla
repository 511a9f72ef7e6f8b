--------------------------- MODULE SshSession_proofs ---------------------------
(***************************************************************************)
(* Theorems about SshSession, for every choice of its deadlines and for    *)
(* any amount of input and output.                                         *)
(***************************************************************************)
EXTENDS SshSession, FiniteSetTheorems, FunctionTheorems, SequenceTheorems, TLAPS

-----------------------------------------------------------------------------
(* The inductive invariant.                                                *)

\* Each end has its own labels, and each timer is what is left of a deadline.
Placed ==
    /\ at["connect"] \in {"start", "dialing", "m2", "HelloOk", "Response", "bridge", "ended"}
    /\ at["agent"] \in {"start", "dialing", "m2", "HelloOk", "Accepted", "local",
                        "bridge", "ended"}
    /\ at["relay_c"] \in {"listening", "m1", "m3", "Hello", "Request", "opening",
                          "bridge", "ended"}
    /\ at["relay_a"] \in {"listening", "m1", "m3", "Hello", "Attach", "Ready",
                          "handed", "ended"}
    /\ timer \in [Ends -> Int]

\* What a handler has spent and what is left of its deadline are, together, at
\* most what the deadlines up to this one come to.
Within(e, time, before) == timer[e] \in 0..time /\ age[e] + timer[e] <= before + time

SlotsAreTimed ==
    \A e \in Handlers :
        /\ at[e] = "listening" => age[e] = 0
        /\ at[e] \in {"m1", "m3"} => Within(e, HandshakeTime, 0)
        /\ at[e] = "Hello" => Within(e, HelloTime, HandshakeTime)
        /\ at[e] \in {"Request", "Attach"} =>
               Within(e, RequestTime, HandshakeTime + HelloTime)
        /\ at[e] \in {"opening", "Ready"} =>
               Within(e, AnswerTime, HandshakeTime + HelloTime + RequestTime)

\* A stream is handed off exactly while the other handler is about to take it,
\* or bridges it.
HandlersMeet ==
    /\ at["relay_c"] \in {"listening", "m1", "m3", "Hello", "Request"} => answer = "empty"
    /\ at["relay_a"] = "handed" =>
           answer = "stream" /\ at["relay_c"] \in {"opening", "bridge"}
    /\ at["relay_c"] = "opening" /\ answer = "stream" => at["relay_a"] = "handed"
    /\ at["relay_c"] = "bridge" => at["relay_a"] = "handed"

\* How often a message is among those on their way.
Count(messages, message) == Cardinality({i \in DOMAIN messages : messages[i] = message})

EndsLast(messages) == \A i \in DOMAIN messages : messages[i] = "eof" => i = Len(messages)

ToRelay(message)   == Count(wire["relay_a"], message)

ToConnect(message) == Count(wire["connect"], message)

\* e's bridge runs, or ended as a bridge should, or something broke.
Bridged(e) ==
    \/ at[e] = "bridge"
    \/ at[e] = "ended" /\ (broken \/ done[e] = {"up", "down"})

\* Ready is only ever on its way from an end that bridges.
ReadyIsMeant ==
    /\ ToRelay("Ready") > 0 \/ answer = "stream" => Bridged("agent")
    /\ ToConnect("Ready") > 0 \/ at["connect"] = "bridge" =>
           Bridged("relay_c") /\ answer = "stream"

\* What the SSH server sent was received or is on its way; the end follows all
\* of it, and each end that passes it on has passed on everything before.
OutputFlows ==
    /\ sent = received + ToRelay("data") + ToConnect("data")
    /\ EndsLast(wire["relay_a"]) /\ EndsLast(wire["connect"])
    /\ done["agent"] # {} => at["agent"] \in {"bridge", "ended"}
    /\ done["relay_c"] # {} => at["relay_c"] \in {"bridge", "ended"}
    /\ ToRelay("eof") > 0 => "down" \in done["agent"] /\ "down" \notin done["relay_c"]
    /\ "down" \in done["relay_c"] =>
           /\ "down" \in done["agent"] \/ at["agent"] = "ended"
           /\ ~broken => "down" \in done["agent"] /\ ToRelay("data") = 0
           /\ at["connect"] # "ended" => ToConnect("eof") > 0
    /\ ToConnect("eof") > 0 => "down" \in done["relay_c"]
    /\ exit # "none" => at["connect"] = "ended"

IInv ==
    /\ TypeOK /\ Placed /\ SlotsAreTimed /\ HandlersMeet /\ ReadyIsMeant
    /\ OutputFlows /\ CleanExitIsComplete

-----------------------------------------------------------------------------
-----------------------------------------------------------------------------
(* Messages on their way.                                                  *)

\* A message can be counted.
LEMMA CountType ==
    ASSUME NEW s \in Seq(Messages), NEW x
    PROVE  /\ IsFiniteSet({i \in DOMAIN s : s[i] = x})
           /\ Count(s, x) \in Nat
<1>1. DOMAIN s = 1..Len(s) /\ Len(s) \in Nat
  OBVIOUS
<1>2. IsFiniteSet(1..Len(s))
  BY <1>1, FS_Interval
<1>3. {i \in DOMAIN s : s[i] = x} \in SUBSET (1..Len(s))
  BY <1>1
<1>4. IsFiniteSet({i \in DOMAIN s : s[i] = x})
  BY <1>2, <1>3, FS_Subset, Zenon
<1> QED
  BY <1>4, FS_CardinalityType, Zenon DEF Count

LEMMA CountEmpty ==
    ASSUME NEW x
    PROVE  Count(<<>>, x) = 0
<1>1. {i \in DOMAIN <<>> : <<>>[i] = x} = {}
  OBVIOUS
<1> QED
  BY <1>1, FS_EmptySet, Zenon DEF Count

\* A message more.
LEMMA CountOneMore ==
    ASSUME NEW s \in Seq(Messages), NEW m \in Messages, NEW x
    PROVE  Count(s \o <<m>>, x) = Count(s, x) + (IF m = x THEN 1 ELSE 0)
<1> DEFINE t == s \o <<m>>
           S == {i \in DOMAIN s : s[i] = x}
           T == {i \in DOMAIN t : t[i] = x}
<1>1. /\ Len(s) \in Nat /\ DOMAIN s = 1..Len(s)
      /\ DOMAIN t = 1..(Len(s) + 1)
      /\ \A i \in 1..Len(s) : t[i] = s[i]
      /\ t[Len(s) + 1] = m
  OBVIOUS
<1> HIDE DEF t
<1>2. T = IF m = x THEN S \cup {Len(s) + 1} ELSE S
  BY <1>1
<1>3. Len(s) + 1 \notin S
  BY <1>1
<1>4. IsFiniteSet(S) /\ Cardinality(S) \in Nat
  BY CountType, Zenon DEF Count
<1>5. Cardinality(T) = Cardinality(S) + (IF m = x THEN 1 ELSE 0)
  <2>1. CASE m = x
    <3>1. T = S \cup {Len(s) + 1}
      BY <1>2, <2>1, Zenon
    <3>2. Cardinality(T) = Cardinality(S) + 1
      BY <1>3, <1>4, <3>1, FS_AddElement, Zenon
    <3> QED
      BY <2>1, <3>2
  <2>2. CASE m # x
    <3>1. T = S
      BY <1>2, <2>2, Zenon
    <3> HIDE DEF S, T
    <3> QED
      BY <1>4, <2>2, <3>1
  <2> QED
    BY <2>1, <2>2
<1> QED
  BY <1>5 DEF Count, t

\* The first message less.
LEMMA CountRest ==
    ASSUME NEW s \in Seq(Messages), s # <<>>, NEW x
    PROVE  Count(s, x) = Count(Tail(s), x) + (IF Head(s) = x THEN 1 ELSE 0)
<1> DEFINE t == Tail(s)
           S == {i \in DOMAIN s : s[i] = x}
           T == {i \in DOMAIN t : t[i] = x}
<1>1. /\ Len(s) \in Nat \ {0} /\ DOMAIN s = 1..Len(s) /\ Head(s) = s[1]
      /\ DOMAIN t = 1..(Len(s) - 1)
      /\ \A i \in 1..(Len(s) - 1) : t[i] = s[i + 1]
      /\ t \in Seq(Messages)
  OBVIOUS
<1> HIDE DEF t
<1> DEFINE f == [i \in T |-> i + 1]
<1>2. f \in Bijection(T, S \ {1})
  <2>1. f \in [T -> S \ {1}]
    BY <1>1
  <2>2. \A i, j \in T : f[i] = f[j] => i = j
    BY <1>1
  <2>3. \A j \in S \ {1} : \E i \in T : f[i] = j
    <3> SUFFICES ASSUME NEW j \in S \ {1} PROVE \E i \in T : f[i] = j
      OBVIOUS
    <3>1. j - 1 \in T /\ (j - 1) + 1 = j
      BY <1>1
    <3> QED
      BY <3>1
  <2> HIDE DEF f, S, T
  <2> QED
    BY <2>1, <2>2, <2>3, Fun_IsBij
<1>3. IsFiniteSet(S) /\ IsFiniteSet(T) /\ Cardinality(S) \in Nat /\ Cardinality(T) \in Nat
  BY <1>1, CountType DEF Count
<1>4. Cardinality(T) = Cardinality(S \ {1})
  <2> HIDE DEF f, S, T
  <2>1. ExistsBijection(T, S \ {1})
    BY <1>2, Fun_ExistsBij, Zenon
  <2> QED
    BY <1>3, <2>1, FS_Bijection, Zenon
<1>5. Cardinality(S \ {1}) = IF Head(s) = x THEN Cardinality(S) - 1 ELSE Cardinality(S)
  <2>1. 1 \in S <=> Head(s) = x
    BY <1>1
  <2> HIDE DEF S
  <2> QED
    BY <1>3, <2>1, FS_RemoveElement
<1>6. Cardinality(S) = Cardinality(T) + (IF Head(s) = x THEN 1 ELSE 0)
  <2> HIDE DEF S, T
  <2> QED
    BY <1>3, <1>4, <1>5
<1> QED
  BY <1>6 DEF Count, t

\* A message that was counted is there.
LEMMA CountFinds ==
    ASSUME NEW s \in Seq(Messages), NEW x
    PROVE  Count(s, x) > 0 <=> \E i \in DOMAIN s : s[i] = x
<1> DEFINE S == {i \in DOMAIN s : s[i] = x}
<1>1. IsFiniteSet(S) /\ Cardinality(S) \in Nat /\ Count(s, x) = Cardinality(S)
  BY CountType DEF Count
<1>2. Cardinality(S) = 0 <=> S = {}
  BY <1>1, FS_EmptySet, Zenon
<1>3. S = {} <=> ~\E i \in DOMAIN s : s[i] = x
  OBVIOUS
<1> QED
  BY <1>1, <1>2, <1>3

\* The end stays last when nothing follows it, and when the first is taken; if
\* it is taken itself, nothing is left.
LEMMA EndsLastOneMore ==
    ASSUME NEW s \in Seq(Messages), NEW m \in Messages, EndsLast(s), Count(s, "eof") = 0
    PROVE  EndsLast(s \o <<m>>)
<1>1. ~\E i \in DOMAIN s : s[i] = "eof"
  BY CountFinds
<1>2. /\ Len(s) \in Nat /\ DOMAIN s = 1..Len(s) /\ DOMAIN (s \o <<m>>) = 1..(Len(s) + 1)
      /\ Len(s \o <<m>>) = Len(s) + 1
      /\ \A i \in 1..Len(s) : (s \o <<m>>)[i] = s[i]
  OBVIOUS
<1> QED
  BY <1>1, <1>2 DEF EndsLast

LEMMA EndsLastRest ==
    ASSUME NEW s \in Seq(Messages), s # <<>>, EndsLast(s)
    PROVE  EndsLast(Tail(s)) /\ (Head(s) = "eof" => Tail(s) = <<>>)
<1>1. /\ Len(s) \in Nat \ {0} /\ DOMAIN s = 1..Len(s) /\ Head(s) = s[1]
      /\ DOMAIN Tail(s) = 1..(Len(s) - 1) /\ Len(Tail(s)) = Len(s) - 1
      /\ \A i \in 1..(Len(s) - 1) : Tail(s)[i] = s[i + 1]
      /\ Tail(s) \in Seq(Messages)
  OBVIOUS
<1>2. EndsLast(Tail(s))
  BY <1>1 DEF EndsLast
<1>3. Head(s) = "eof" => Len(Tail(s)) = 0
  BY <1>1 DEF EndsLast
<1> QED
  BY <1>1, <1>2, <1>3, EmptySeq

-----------------------------------------------------------------------------
(* Types, labels and timers.                                               *)

LEMMA PeerIs ==
    /\ Peer["connect"] = "relay_c" /\ Peer["relay_c"] = "connect"
    /\ Peer["agent"] = "relay_a" /\ Peer["relay_a"] = "agent"
    /\ \A e \in Ends : Peer[e] \in Ends /\ Peer[e] # e
BY DEF Peer, Ends, Clients, Handlers

\* What is said or passed on is a message.
WiresTyped == wire \in [Ends -> Seq(Messages)]

LEMMA SayType ==
    ASSUME WiresTyped, NEW e \in Ends, NEW ms \in Seq(Messages), Say(e, ms)
    PROVE  WiresTyped'
<1>1. Peer[e] \in Ends
  BY PeerIs
<1>2. wire[Peer[e]] \o ms \in Seq(Messages)
  BY <1>1 DEF WiresTyped
<1> QED
  BY <1>1, <1>2 DEF Say, WiresTyped

LEMMA HearType ==
    ASSUME WiresTyped, NEW e \in Ends, NEW m, NEW ms \in Seq(Messages), Hear(e, m, ms)
    PROVE  WiresTyped'
<1>1. Peer[e] \in Ends /\ Peer[e] # e
  BY PeerIs
<1>2. wire[Peer[e]] \o ms \in Seq(Messages) /\ Tail(wire[e]) \in Seq(Messages)
  BY <1>1 DEF WiresTyped, Hear
<1> QED
  BY <1>1, <1>2 DEF Hear, WiresTyped

LEMMA MessagesAre ==
    /\ <<>> \in Seq(Messages) /\ <<"m3", "Hello">> \in Seq(Messages)
    /\ \A m \in Messages : <<m>> \in Seq(Messages)
    /\ Receiving \subseteq Messages
    /\ {"ListRequest", "OpenRequest", "DeviceList", "Failed", "data", "eof"} \subseteq Messages
BY DEF Messages, Receiving

\* Every end says messages.
LEMMA WiresStep ==
    WiresTyped /\ [Next]_vars => WiresTyped'
<1> SUFFICES ASSUME WiresTyped, [Next]_vars
             PROVE  WiresTyped'
  OBVIOUS
<1>0. {"connect", "relay_c", "agent", "relay_a"} \subseteq Ends /\ WiresTyped
  BY DEF Ends, Clients, Handlers
<1>1. ASSUME NEW e \in Clients, Dial(e)
      PROVE  WiresTyped'
  BY <1>1 DEF Dial, WiresTyped
<1>2. ASSUME NEW e \in Clients, Connected(e)
      PROVE  WiresTyped'
  BY <1>2, SayType, HearType, MessagesAre DEF Connected, Ends, Clients,
       Handlers, Receiving
<1>3. ASSUME NEW e \in Clients, HearMessage2(e)
      PROVE  WiresTyped'
  BY <1>3, SayType, HearType, MessagesAre DEF HearMessage2, Ends, Clients,
       Handlers, Receiving
<1>4. CASE ConnectHelloOk
  BY <1>4, SayType, HearType, MessagesAre DEF ConnectHelloOk, Ends, Clients,
       Handlers, Receiving
<1>5. CASE AgentHelloOk
  BY <1>5, SayType, HearType, MessagesAre DEF AgentHelloOk, Ends, Clients,
       Handlers, Receiving
<1>6. ASSUME NEW e \in Handlers, Accept(e)
      PROVE  WiresTyped'
  BY <1>6 DEF Accept, WiresTyped
<1>7. ASSUME NEW e \in Handlers, HearMessage1(e)
      PROVE  WiresTyped'
  BY <1>7, SayType, HearType, MessagesAre DEF HearMessage1, Ends, Clients,
       Handlers, Receiving
<1>8. ASSUME NEW e \in Handlers, HearMessage3(e)
      PROVE  WiresTyped'
  BY <1>8, SayType, HearType, MessagesAre DEF HearMessage3, Ends, Clients,
       Handlers, Receiving
<1>9. ASSUME NEW e \in Handlers, HearHello(e)
      PROVE  WiresTyped'
  BY <1>9, SayType, HearType, MessagesAre DEF HearHello, Ends, Clients,
       Handlers, Receiving
<1>10. CASE HearRequest
  BY <1>10, SayType, HearType, MessagesAre DEF HearRequest, Ends, Clients,
       Handlers, Receiving
<1>11. CASE HandlerGrants
  BY <1>11, SayType, HearType, MessagesAre DEF HandlerGrants, Ends, Clients,
       Handlers, Receiving, WiresTyped
<1>12. CASE HandlerRefuses
  BY <1>12, SayType, HearType, MessagesAre DEF HandlerRefuses, Ends, Clients,
       Handlers, Receiving
<1>13. CASE OpenExpires
  BY <1>13, SayType, HearType, MessagesAre DEF OpenExpires, Ends, Clients,
       Handlers, Receiving
<1>14. CASE HearResponse
  BY <1>14, SayType, HearType, MessagesAre DEF HearResponse, Ends, Clients,
       Handlers, Receiving
<1>15. CASE HearAttach
  BY <1>15, SayType, HearType, MessagesAre DEF HearAttach, Ends, Clients,
       Handlers, Receiving
<1>16. CASE HearReady
  BY <1>16, SayType, HearType, MessagesAre DEF HearReady, Ends, Clients,
       Handlers, Receiving
<1>17. CASE HearAccepted
  BY <1>17, SayType, HearType, MessagesAre DEF HearAccepted, Ends, Clients,
       Handlers, Receiving
<1>18. CASE LocalConnect
  BY <1>18, SayType, HearType, MessagesAre DEF LocalConnect, Ends, Clients,
       Handlers, Receiving
<1>19. ASSUME NEW e \in Ends, Timeout(e)
      PROVE  WiresTyped'
  BY <1>19 DEF Timeout, Fail, WiresTyped
<1>20. ASSUME NEW e \in Ends, Break(e)
      PROVE  WiresTyped'
  BY <1>20 DEF Break, Fail, WiresTyped
<1>21. ASSUME NEW e \in Ends, SeeEnd(e)
      PROVE  WiresTyped'
  BY <1>21 DEF SeeEnd, Fail, WiresTyped
<1>22. CASE Upload
  BY <1>22, SayType, HearType, MessagesAre DEF Upload, Ends, Clients,
       Handlers, Receiving
<1>23. CASE Download
  BY <1>23, SayType, HearType, MessagesAre DEF Download, Ends, Clients,
       Handlers, Receiving, WiresTyped
<1>24. CASE Pipe("up", "relay_c", "agent")
  <2>1. CASE wire["relay_c"] # <<>>
    <3>1. Tail(wire["relay_c"]) \in Seq(Messages) /\ Head(wire["relay_c"]) \in Messages
      BY <1>0, <2>1 DEF WiresTyped
    <3>2. Append(wire["agent"], Head(wire["relay_c"])) \in Seq(Messages)
      BY <1>0, <3>1 DEF WiresTyped
    <3> QED
      BY <1>0, <1>24, <2>1, <3>1, <3>2 DEF Pipe, WiresTyped
  <2>2. CASE wire["relay_c"] = <<>>
    <3>1. Append(wire["agent"], "eof") \in Seq(Messages)
      BY <1>0, MessagesAre DEF WiresTyped
    <3> QED
      BY <1>0, <1>24, <2>2, <3>1 DEF Pipe, WiresTyped
  <2> QED
    BY <2>1, <2>2
<1>25. CASE Pipe("down", "relay_a", "connect")
  <2>1. CASE wire["relay_a"] # <<>>
    <3>1. Tail(wire["relay_a"]) \in Seq(Messages) /\ Head(wire["relay_a"]) \in Messages
      BY <1>0, <2>1 DEF WiresTyped
    <3>2. Append(wire["connect"], Head(wire["relay_a"])) \in Seq(Messages)
      BY <1>0, <3>1 DEF WiresTyped
    <3> QED
      BY <1>0, <1>25, <2>1, <3>1, <3>2 DEF Pipe, WiresTyped
  <2>2. CASE wire["relay_a"] = <<>>
    <3>1. Append(wire["connect"], "eof") \in Seq(Messages)
      BY <1>0, MessagesAre DEF WiresTyped
    <3> QED
      BY <1>0, <1>25, <2>2, <3>1 DEF Pipe, WiresTyped
  <2> QED
    BY <2>1, <2>2
<1>26. CASE Serve
  BY <1>26, SayType, HearType, MessagesAre DEF Serve, Ends, Clients, Handlers,
       Receiving, WiresTyped
<1>27. CASE ServerEnds
  BY <1>27, SayType, HearType, MessagesAre DEF ServerEnds, Ends, Clients,
       Handlers, Receiving
<1>28. ASSUME NEW e \in Ends, BridgeEnds(e)
      PROVE  WiresTyped'
  BY <1>28 DEF BridgeEnds, WiresTyped
<1>29. ASSUME NEW e \in Ends, BridgeFails(e)
      PROVE  WiresTyped'
  BY <1>29 DEF BridgeFails, WiresTyped
<1>30. CASE Tick
  BY <1>30 DEF Tick, WiresTyped
<1>31. CASE UNCHANGED vars
  BY <1>31 DEF vars, WiresTyped
<1> QED
  BY <1>1, <1>2, <1>3, <1>4, <1>5, <1>6, <1>7, <1>8, <1>9, <1>10, <1>11,
       <1>12, <1>13, <1>14, <1>15, <1>16, <1>17, <1>18, <1>19, <1>20, <1>21,
       <1>22, <1>23, <1>24, <1>25, <1>26, <1>27, <1>28, <1>29, <1>30, <1>31
       DEF Next, Bridges

\* A deadline, or what is left of it.
Deadline(v) == v = Off \/ \E t \in Times : v \in 0..t

LEMMA Deadlines ==
    /\ Times \subseteq Nat
    /\ HandshakeTime \in Times /\ HelloTime \in Times /\ RequestTime \in Times
    /\ AnswerTime \in Times
    /\ Deadline(Off) /\ Off \in Int
    /\ \A t \in Times : t \in Int /\ Deadline(t)
    /\ \A v \in Int : Deadline(v) /\ v # Off /\ v # 0 => v - 1 \in Int /\ Deadline(v - 1)
BY TimesAssumption DEF Deadline, Times, Off

TimersTyped == timer \in [Ends -> Int] /\ \A e \in Ends : Deadline(timer[e])

\* Every wait has a deadline of the program, or none.
LEMMA TimersStep ==
    TimersTyped /\ [Next]_vars => TimersTyped'
<1> SUFFICES ASSUME TimersTyped, [Next]_vars
             PROVE  TimersTyped'
  OBVIOUS
<1>0. \A v \in Int : Deadline(v) /\ v # Off /\ v # 0 => v - 1 \in Int /\ Deadline(v - 1)
  BY Deadlines
<1>1. ASSUME NEW e \in Clients, Dial(e)
      PROVE  TimersTyped'
  BY Deadlines, <1>1 DEF Dial, TimersTyped, Wait, Drop, Clients, Handlers,
       Ends
<1>2. ASSUME NEW e \in Clients, Connected(e)
      PROVE  TimersTyped'
  BY Deadlines, <1>2 DEF Connected, TimersTyped, Wait, Drop, Clients,
       Handlers, Ends
<1>3. ASSUME NEW e \in Clients, HearMessage2(e)
      PROVE  TimersTyped'
  BY Deadlines, <1>3 DEF HearMessage2, TimersTyped, Wait, Drop, Clients,
       Handlers, Ends
<1>4. CASE ConnectHelloOk
  BY Deadlines, <1>4 DEF ConnectHelloOk, TimersTyped, Wait, Drop, Clients,
       Handlers, Ends
<1>5. CASE AgentHelloOk
  BY Deadlines, <1>5 DEF AgentHelloOk, TimersTyped, Wait, Drop, Clients,
       Handlers, Ends
<1>6. ASSUME NEW e \in Handlers, Accept(e)
      PROVE  TimersTyped'
  BY Deadlines, <1>6 DEF Accept, TimersTyped, Wait, Drop, Clients, Handlers,
       Ends
<1>7. ASSUME NEW e \in Handlers, HearMessage1(e)
      PROVE  TimersTyped'
  BY Deadlines, <1>7 DEF HearMessage1, TimersTyped, Wait, Drop, Clients,
       Handlers, Ends
<1>8. ASSUME NEW e \in Handlers, HearMessage3(e)
      PROVE  TimersTyped'
  BY Deadlines, <1>8 DEF HearMessage3, TimersTyped, Wait, Drop, Clients,
       Handlers, Ends
<1>9. ASSUME NEW e \in Handlers, HearHello(e)
      PROVE  TimersTyped'
  BY Deadlines, <1>9 DEF HearHello, TimersTyped, Wait, Drop, Clients,
       Handlers, Ends
<1>10. CASE HearRequest
  BY Deadlines, <1>10 DEF HearRequest, TimersTyped, Wait, Drop, Clients,
       Handlers, Ends
<1>11. CASE HandlerGrants
  BY Deadlines, <1>11 DEF HandlerGrants, TimersTyped, Wait, Drop, Clients,
       Handlers, Ends
<1>12. CASE HandlerRefuses
  BY Deadlines, <1>12 DEF HandlerRefuses, TimersTyped, Wait, Drop, Clients,
       Handlers, Ends
<1>13. CASE OpenExpires
  BY Deadlines, <1>13 DEF OpenExpires, TimersTyped, Wait, Drop, Clients,
       Handlers, Ends
<1>14. CASE HearResponse
  BY Deadlines, <1>14 DEF HearResponse, TimersTyped, Wait, Drop, Clients,
       Handlers, Ends
<1>15. CASE HearAttach
  BY Deadlines, <1>15 DEF HearAttach, TimersTyped, Wait, Drop, Clients,
       Handlers, Ends
<1>16. CASE HearReady
  BY Deadlines, <1>16 DEF HearReady, TimersTyped, Wait, Drop, Clients,
       Handlers, Ends
<1>17. CASE HearAccepted
  BY Deadlines, <1>17 DEF HearAccepted, TimersTyped, Wait, Drop, Clients,
       Handlers, Ends
<1>18. CASE LocalConnect
  BY Deadlines, <1>18 DEF LocalConnect, TimersTyped, Wait, Drop, Clients,
       Handlers, Ends
<1>19. ASSUME NEW e \in Ends, Timeout(e)
      PROVE  TimersTyped'
  BY Deadlines, <1>19 DEF Timeout, Fail, TimersTyped, Wait, Drop, Clients,
       Handlers, Ends
<1>20. ASSUME NEW e \in Ends, Break(e)
      PROVE  TimersTyped'
  BY Deadlines, <1>20 DEF Break, Fail, TimersTyped, Wait, Drop, Clients,
       Handlers, Ends
<1>21. ASSUME NEW e \in Ends, SeeEnd(e)
      PROVE  TimersTyped'
  BY Deadlines, <1>21 DEF SeeEnd, Fail, TimersTyped, Wait, Drop, Clients,
       Handlers, Ends
<1>22. CASE Upload
  BY <1>22 DEF Upload, TimersTyped
<1>23. CASE Download
  BY Deadlines, <1>23 DEF Download, TimersTyped, Wait, Drop, Clients,
       Handlers, Ends
<1>24. CASE Pipe("up", "relay_c", "agent")
  BY <1>24 DEF Pipe, TimersTyped
<1>25. CASE Pipe("down", "relay_a", "connect")
  BY <1>25 DEF Pipe, TimersTyped
<1>26. CASE Serve
  BY <1>26 DEF Serve, TimersTyped
<1>27. CASE ServerEnds
  BY <1>27 DEF ServerEnds, TimersTyped
<1>28. ASSUME NEW e \in Ends, BridgeEnds(e)
      PROVE  TimersTyped'
  BY Deadlines, <1>28 DEF BridgeEnds, TimersTyped, Wait, Drop, Clients,
       Handlers, Ends
<1>29. ASSUME NEW e \in Ends, BridgeFails(e)
      PROVE  TimersTyped'
  BY Deadlines, <1>29 DEF BridgeFails, TimersTyped, Wait, Drop, Clients,
       Handlers, Ends
<1>30. CASE Tick
  BY <1>0, <1>30 DEF Tick, TimersTyped
<1>31. CASE UNCHANGED vars
  BY <1>31 DEF vars, TimersTyped
<1> QED
  BY <1>1, <1>2, <1>3, <1>4, <1>5, <1>6, <1>7, <1>8, <1>9, <1>10, <1>11,
       <1>12, <1>13, <1>14, <1>15, <1>16, <1>17, <1>18, <1>19, <1>20, <1>21,
       <1>22, <1>23, <1>24, <1>25, <1>26, <1>27, <1>28, <1>29, <1>30, <1>31
       DEF Next, Bridges

\* Each end has labels of its own.
PlacesTyped ==
    /\ at \in [Ends -> Labels]
    /\ at["connect"] \in {"start", "dialing", "m2", "HelloOk", "Response", "bridge", "ended"}
    /\ at["agent"] \in {"start", "dialing", "m2", "HelloOk", "Accepted", "local",
                        "bridge", "ended"}
    /\ at["relay_c"] \in {"listening", "m1", "m3", "Hello", "Request", "opening",
                          "bridge", "ended"}
    /\ at["relay_a"] \in {"listening", "m1", "m3", "Hello", "Attach", "Ready",
                          "handed", "ended"}

LEMMA PlacesStep ==
    PlacesTyped /\ [Next]_vars => PlacesTyped'
<1> SUFFICES ASSUME PlacesTyped, [Next]_vars
             PROVE  PlacesTyped'
  OBVIOUS
<1>1. ASSUME NEW e \in Clients, Dial(e)
      PROVE  PlacesTyped'
  BY <1>1 DEF Dial, PlacesTyped, Wait, Drop, Ends, Clients, Handlers, Labels,
       Receiving, Settled, Unborn
<1>2. ASSUME NEW e \in Clients, Connected(e)
      PROVE  PlacesTyped'
  BY <1>2 DEF Connected, PlacesTyped, Wait, Drop, Ends, Clients, Handlers,
       Labels, Receiving, Settled, Unborn
<1>3. ASSUME NEW e \in Clients, HearMessage2(e)
      PROVE  PlacesTyped'
  BY <1>3 DEF HearMessage2, PlacesTyped, Wait, Drop, Ends, Clients, Handlers,
       Labels, Receiving, Settled, Unborn
<1>4. CASE ConnectHelloOk
  BY <1>4 DEF ConnectHelloOk, PlacesTyped, Wait, Drop, Ends, Clients,
       Handlers, Labels, Receiving, Settled, Unborn
<1>5. CASE AgentHelloOk
  BY <1>5 DEF AgentHelloOk, PlacesTyped, Wait, Drop, Ends, Clients, Handlers,
       Labels, Receiving, Settled, Unborn
<1>6. ASSUME NEW e \in Handlers, Accept(e)
      PROVE  PlacesTyped'
  BY <1>6 DEF Accept, PlacesTyped, Wait, Drop, Ends, Clients, Handlers,
       Labels, Receiving, Settled, Unborn
<1>7. ASSUME NEW e \in Handlers, HearMessage1(e)
      PROVE  PlacesTyped'
  BY <1>7 DEF HearMessage1, PlacesTyped, Wait, Drop, Ends, Clients, Handlers,
       Labels, Receiving, Settled, Unborn
<1>8. ASSUME NEW e \in Handlers, HearMessage3(e)
      PROVE  PlacesTyped'
  BY <1>8 DEF HearMessage3, PlacesTyped, Wait, Drop, Ends, Clients, Handlers,
       Labels, Receiving, Settled, Unborn
<1>9. ASSUME NEW e \in Handlers, HearHello(e)
      PROVE  PlacesTyped'
  BY <1>9 DEF HearHello, PlacesTyped, Wait, Drop, Ends, Clients, Handlers,
       Labels, Receiving, Settled, Unborn
<1>10. CASE HearRequest
  BY <1>10 DEF HearRequest, PlacesTyped, Wait, Drop, Ends, Clients, Handlers,
       Labels, Receiving, Settled, Unborn
<1>11. CASE HandlerGrants
  BY <1>11 DEF HandlerGrants, PlacesTyped, Wait, Drop, Ends, Clients,
       Handlers, Labels, Receiving, Settled, Unborn
<1>12. CASE HandlerRefuses
  BY <1>12 DEF HandlerRefuses, PlacesTyped, Wait, Drop, Ends, Clients,
       Handlers, Labels, Receiving, Settled, Unborn
<1>13. CASE OpenExpires
  BY <1>13 DEF OpenExpires, PlacesTyped, Wait, Drop, Ends, Clients, Handlers,
       Labels, Receiving, Settled, Unborn
<1>14. CASE HearResponse
  BY <1>14 DEF HearResponse, PlacesTyped, Wait, Drop, Ends, Clients, Handlers,
       Labels, Receiving, Settled, Unborn
<1>15. CASE HearAttach
  BY <1>15 DEF HearAttach, PlacesTyped, Wait, Drop, Ends, Clients, Handlers,
       Labels, Receiving, Settled, Unborn
<1>16. CASE HearReady
  BY <1>16 DEF HearReady, PlacesTyped, Wait, Drop, Ends, Clients, Handlers,
       Labels, Receiving, Settled, Unborn
<1>17. CASE HearAccepted
  BY <1>17 DEF HearAccepted, PlacesTyped, Wait, Drop, Ends, Clients, Handlers,
       Labels, Receiving, Settled, Unborn
<1>18. CASE LocalConnect
  BY <1>18 DEF LocalConnect, PlacesTyped, Wait, Drop, Ends, Clients, Handlers,
       Labels, Receiving, Settled, Unborn
<1>19. ASSUME NEW e \in Ends, Timeout(e)
      PROVE  PlacesTyped'
  BY <1>19 DEF Timeout, Fail, PlacesTyped, Wait, Drop, Ends, Clients,
       Handlers, Labels, Receiving, Settled, Unborn
<1>20. ASSUME NEW e \in Ends, Break(e)
      PROVE  PlacesTyped'
  BY <1>20 DEF Break, Fail, PlacesTyped, Wait, Drop, Ends, Clients, Handlers,
       Labels, Receiving, Settled, Unborn
<1>21. ASSUME NEW e \in Ends, SeeEnd(e)
      PROVE  PlacesTyped'
  BY <1>21 DEF SeeEnd, Fail, PlacesTyped, Wait, Drop, Ends, Clients, Handlers,
       Labels, Receiving, Settled, Unborn
<1>22. CASE Upload
  BY <1>22 DEF Upload, PlacesTyped
<1>23. CASE Download
  BY <1>23 DEF Download, PlacesTyped, Wait, Drop, Ends, Clients, Handlers,
       Labels, Receiving, Settled, Unborn
<1>24. CASE Pipe("up", "relay_c", "agent")
  BY <1>24 DEF Pipe, PlacesTyped
<1>25. CASE Pipe("down", "relay_a", "connect")
  BY <1>25 DEF Pipe, PlacesTyped
<1>26. CASE Serve
  BY <1>26 DEF Serve, PlacesTyped
<1>27. CASE ServerEnds
  BY <1>27 DEF ServerEnds, PlacesTyped
<1>28. ASSUME NEW e \in Ends, BridgeEnds(e)
      PROVE  PlacesTyped'
  BY <1>28 DEF BridgeEnds, PlacesTyped, Wait, Drop, Ends, Clients, Handlers,
       Labels, Receiving, Settled, Unborn
<1>29. ASSUME NEW e \in Ends, BridgeFails(e)
      PROVE  PlacesTyped'
  BY <1>29 DEF BridgeFails, PlacesTyped, Wait, Drop, Ends, Clients, Handlers,
       Labels, Receiving, Settled, Unborn
<1>30. CASE Tick
  BY <1>30 DEF Tick, PlacesTyped
<1>31. CASE UNCHANGED vars
  BY <1>31 DEF vars, PlacesTyped
<1> QED
  BY <1>1, <1>2, <1>3, <1>4, <1>5, <1>6, <1>7, <1>8, <1>9, <1>10, <1>11,
       <1>12, <1>13, <1>14, <1>15, <1>16, <1>17, <1>18, <1>19, <1>20, <1>21,
       <1>22, <1>23, <1>24, <1>25, <1>26, <1>27, <1>28, <1>29, <1>30, <1>31
       DEF Next, Bridges

\* The variables that count, choose and remember.
ValuesTyped ==
    /\ asks \in {"list", "open"}
    /\ answer \in {"empty", "stream", "error"}
    /\ done \in [{"connect", "relay_c", "agent"} -> SUBSET {"up", "down"}]
    /\ input \in 0..MaxInput /\ sent \in 0..MaxOutput /\ received \in Nat
    /\ exit \in {"none", "ok", "error"}
    /\ age \in [Handlers -> Nat]
FlagsTyped == pending \in BOOLEAN /\ told \in BOOLEAN /\ broken \in BOOLEAN

\* The values keep their types.
LEMMA ValuesStep ==
    ValuesTyped /\ [Next]_vars => ValuesTyped'
<1> SUFFICES ASSUME ValuesTyped, [Next]_vars
             PROVE  ValuesTyped'
  OBVIOUS
<1>1. ASSUME NEW e \in Clients, Dial(e)
      PROVE  ValuesTyped'
  BY BoundsAssumption, <1>1 DEF Dial, ValuesTyped, shared, bridgeVars, Reply,
       End
<1>2. ASSUME NEW e \in Clients, Connected(e)
      PROVE  ValuesTyped'
  BY BoundsAssumption, <1>2 DEF Connected, ValuesTyped, shared, bridgeVars,
       Reply, End
<1>3. ASSUME NEW e \in Clients, HearMessage2(e)
      PROVE  ValuesTyped'
  BY BoundsAssumption, <1>3 DEF HearMessage2, ValuesTyped, shared, bridgeVars,
       Reply, End
<1>4. CASE ConnectHelloOk
  BY BoundsAssumption, <1>4 DEF ConnectHelloOk, ValuesTyped, shared,
       bridgeVars, Reply, End
<1>5. CASE AgentHelloOk
  BY BoundsAssumption, <1>5 DEF AgentHelloOk, ValuesTyped, shared, bridgeVars,
       Reply, End
<1>6. ASSUME NEW e \in Handlers, Accept(e)
      PROVE  ValuesTyped'
  BY BoundsAssumption, <1>6 DEF Accept, ValuesTyped, shared, bridgeVars,
       Reply, End
<1>7. ASSUME NEW e \in Handlers, HearMessage1(e)
      PROVE  ValuesTyped'
  BY BoundsAssumption, <1>7 DEF HearMessage1, ValuesTyped, shared, bridgeVars,
       Reply, End
<1>8. ASSUME NEW e \in Handlers, HearMessage3(e)
      PROVE  ValuesTyped'
  BY BoundsAssumption, <1>8 DEF HearMessage3, ValuesTyped, shared, bridgeVars,
       Reply, End
<1>9. ASSUME NEW e \in Handlers, HearHello(e)
      PROVE  ValuesTyped'
  BY BoundsAssumption, <1>9 DEF HearHello, ValuesTyped, shared, bridgeVars,
       Reply, End
<1>10. CASE HearRequest
  BY BoundsAssumption, <1>10 DEF HearRequest, ValuesTyped, shared, bridgeVars,
       Reply, End
<1>11. CASE HandlerGrants
  BY BoundsAssumption, <1>11 DEF HandlerGrants, ValuesTyped, shared,
       bridgeVars, Reply, End
<1>12. CASE HandlerRefuses
  BY BoundsAssumption, <1>12 DEF HandlerRefuses, ValuesTyped, shared,
       bridgeVars, Reply, End
<1>13. CASE OpenExpires
  BY BoundsAssumption, <1>13 DEF OpenExpires, ValuesTyped, shared, bridgeVars,
       Reply, End
<1>14. CASE HearResponse
  BY BoundsAssumption, <1>14 DEF HearResponse, ValuesTyped, shared,
       bridgeVars, Reply, End
<1>15. CASE HearAttach
  BY BoundsAssumption, <1>15 DEF HearAttach, ValuesTyped, shared, bridgeVars,
       Reply, End
<1>16. CASE HearReady
  BY BoundsAssumption, <1>16 DEF HearReady, ValuesTyped, shared, bridgeVars,
       Reply, End
<1>17. CASE HearAccepted
  BY BoundsAssumption, <1>17 DEF HearAccepted, ValuesTyped, shared,
       bridgeVars, Reply, End
<1>18. CASE LocalConnect
  BY BoundsAssumption, <1>18 DEF LocalConnect, ValuesTyped, shared,
       bridgeVars, Reply, End
<1>19. ASSUME NEW e \in Ends, Timeout(e)
      PROVE  ValuesTyped'
  BY BoundsAssumption, <1>19 DEF Timeout, Fail, ValuesTyped, shared,
       bridgeVars, Reply, End
<1>20. ASSUME NEW e \in Ends, Break(e)
      PROVE  ValuesTyped'
  BY BoundsAssumption, <1>20 DEF Break, Fail, ValuesTyped, shared, bridgeVars,
       Reply, End
<1>21. ASSUME NEW e \in Ends, SeeEnd(e)
      PROVE  ValuesTyped'
  BY BoundsAssumption, <1>21 DEF SeeEnd, Fail, ValuesTyped, shared,
       bridgeVars, Reply, End
<1>22. CASE Upload
  BY BoundsAssumption, <1>22 DEF Upload, ValuesTyped, shared, bridgeVars,
       Reply, End
<1>23. CASE Download
  BY BoundsAssumption, <1>23 DEF Download, ValuesTyped, shared, bridgeVars,
       Reply, End
<1>24. CASE Pipe("up", "relay_c", "agent")
  BY BoundsAssumption, <1>24 DEF Pipe, ValuesTyped, shared, bridgeVars, Reply,
       End
<1>25. CASE Pipe("down", "relay_a", "connect")
  BY BoundsAssumption, <1>25 DEF Pipe, ValuesTyped, shared, bridgeVars, Reply,
       End
<1>26. CASE Serve
  BY BoundsAssumption, <1>26 DEF Serve, ValuesTyped, shared, bridgeVars,
       Reply, End
<1>27. CASE ServerEnds
  BY BoundsAssumption, <1>27 DEF ServerEnds, ValuesTyped, shared, bridgeVars,
       Reply, End
<1>28. ASSUME NEW e \in Ends, BridgeEnds(e)
      PROVE  ValuesTyped'
  BY BoundsAssumption, <1>28 DEF BridgeEnds, ValuesTyped, shared, bridgeVars,
       Reply, End
<1>29. ASSUME NEW e \in Ends, BridgeFails(e)
      PROVE  ValuesTyped'
  BY BoundsAssumption, <1>29 DEF BridgeFails, ValuesTyped, shared, bridgeVars,
       Reply, End
<1>30. CASE Tick
  BY BoundsAssumption, <1>30 DEF Tick, ValuesTyped, shared, bridgeVars, Reply,
       End
<1>31. CASE UNCHANGED vars
  BY BoundsAssumption, <1>31 DEF vars, ValuesTyped, shared, bridgeVars, Reply,
       End
<1> QED
  BY <1>1, <1>2, <1>3, <1>4, <1>5, <1>6, <1>7, <1>8, <1>9, <1>10, <1>11,
       <1>12, <1>13, <1>14, <1>15, <1>16, <1>17, <1>18, <1>19, <1>20, <1>21,
       <1>22, <1>23, <1>24, <1>25, <1>26, <1>27, <1>28, <1>29, <1>30, <1>31
       DEF Next, Bridges

\* So do the flags.
LEMMA FlagsStep ==
    FlagsTyped /\ [Next]_vars => FlagsTyped'
<1> SUFFICES ASSUME FlagsTyped, [Next]_vars
             PROVE  FlagsTyped'
  OBVIOUS
<1>1. ASSUME NEW e \in Clients, Dial(e)
      PROVE  FlagsTyped'
  BY <1>1, Zenon DEF Dial, FlagsTyped, shared, bridgeVars
<1>2. ASSUME NEW e \in Clients, Connected(e)
      PROVE  FlagsTyped'
  BY <1>2, Zenon DEF Connected, FlagsTyped, shared, bridgeVars
<1>3. ASSUME NEW e \in Clients, HearMessage2(e)
      PROVE  FlagsTyped'
  BY <1>3, Zenon DEF HearMessage2, FlagsTyped, shared, bridgeVars
<1>4. CASE ConnectHelloOk
  BY <1>4, Zenon DEF ConnectHelloOk, FlagsTyped, shared, bridgeVars
<1>5. CASE AgentHelloOk
  BY <1>5, Zenon DEF AgentHelloOk, FlagsTyped, shared, bridgeVars
<1>6. ASSUME NEW e \in Handlers, Accept(e)
      PROVE  FlagsTyped'
  BY <1>6, Zenon DEF Accept, FlagsTyped, shared, bridgeVars
<1>7. ASSUME NEW e \in Handlers, HearMessage1(e)
      PROVE  FlagsTyped'
  BY <1>7, Zenon DEF HearMessage1, FlagsTyped, shared, bridgeVars
<1>8. ASSUME NEW e \in Handlers, HearMessage3(e)
      PROVE  FlagsTyped'
  BY <1>8, Zenon DEF HearMessage3, FlagsTyped, shared, bridgeVars
<1>9. ASSUME NEW e \in Handlers, HearHello(e)
      PROVE  FlagsTyped'
  BY <1>9, Zenon DEF HearHello, FlagsTyped, shared, bridgeVars
<1>10. CASE HearRequest
  BY <1>10, Zenon DEF HearRequest, FlagsTyped, shared, bridgeVars
<1>11. CASE HandlerGrants
  BY <1>11, Zenon DEF HandlerGrants, FlagsTyped, shared, bridgeVars
<1>12. CASE HandlerRefuses
  BY <1>12, Zenon DEF HandlerRefuses, FlagsTyped, shared, bridgeVars
<1>13. CASE OpenExpires
  BY <1>13, Zenon DEF OpenExpires, FlagsTyped, shared, bridgeVars
<1>14. CASE HearResponse
  BY <1>14, Zenon DEF HearResponse, FlagsTyped, shared, bridgeVars
<1>15. CASE HearAttach
  BY <1>15, Zenon DEF HearAttach, FlagsTyped, shared, bridgeVars
<1>16. CASE HearReady
  BY <1>16, Zenon DEF HearReady, FlagsTyped, shared, bridgeVars
<1>17. CASE HearAccepted
  BY <1>17, Zenon DEF HearAccepted, FlagsTyped, shared, bridgeVars
<1>18. CASE LocalConnect
  BY <1>18, Zenon DEF LocalConnect, FlagsTyped, shared, bridgeVars
<1>19. ASSUME NEW e \in Ends, Timeout(e)
      PROVE  FlagsTyped'
  BY <1>19, Zenon DEF Timeout, Fail, FlagsTyped, shared, bridgeVars
<1>20. ASSUME NEW e \in Ends, Break(e)
      PROVE  FlagsTyped'
  BY <1>20, Zenon DEF Break, Fail, FlagsTyped, shared, bridgeVars
<1>21. ASSUME NEW e \in Ends, SeeEnd(e)
      PROVE  FlagsTyped'
  BY <1>21, Zenon DEF SeeEnd, Fail, FlagsTyped, shared, bridgeVars
<1>22. CASE Upload
  BY <1>22, Zenon DEF Upload, FlagsTyped, shared, bridgeVars
<1>23. CASE Download
  BY <1>23, Zenon DEF Download, FlagsTyped, shared, bridgeVars
<1>24. CASE Pipe("up", "relay_c", "agent")
  BY <1>24, Zenon DEF Pipe, FlagsTyped, shared, bridgeVars
<1>25. CASE Pipe("down", "relay_a", "connect")
  BY <1>25, Zenon DEF Pipe, FlagsTyped, shared, bridgeVars
<1>26. CASE Serve
  BY <1>26, Zenon DEF Serve, FlagsTyped, shared, bridgeVars
<1>27. CASE ServerEnds
  BY <1>27, Zenon DEF ServerEnds, FlagsTyped, shared, bridgeVars
<1>28. ASSUME NEW e \in Ends, BridgeEnds(e)
      PROVE  FlagsTyped'
  BY <1>28, Zenon DEF BridgeEnds, FlagsTyped, shared, bridgeVars
<1>29. ASSUME NEW e \in Ends, BridgeFails(e)
      PROVE  FlagsTyped'
  BY <1>29, Zenon DEF BridgeFails, FlagsTyped, shared, bridgeVars
<1>30. CASE Tick
  BY <1>30, Zenon DEF Tick, FlagsTyped, shared, bridgeVars
<1>31. CASE UNCHANGED vars
  BY <1>31, Zenon DEF vars, FlagsTyped, shared, bridgeVars
<1> QED
  BY <1>1, <1>2, <1>3, <1>4, <1>5, <1>6, <1>7, <1>8, <1>9, <1>10, <1>11,
       <1>12, <1>13, <1>14, <1>15, <1>16, <1>17, <1>18, <1>19, <1>20, <1>21,
       <1>22, <1>23, <1>24, <1>25, <1>26, <1>27, <1>28, <1>29, <1>30, <1>31
       DEF Next, Bridges

-----------------------------------------------------------------------------
(* Slots and the hand-off.                                                 *)

LEMMA TimesAre ==
    HandshakeTime \in Nat /\ HelloTime \in Nat /\ RequestTime \in Nat /\ AnswerTime \in Nat
BY TimesAssumption DEF Times

\* Each deadline is set with what the ones before it leave, and runs as the slot
\* ages.
LEMMA SlotsStep ==
    PlacesTyped /\ TimersTyped /\ ValuesTyped /\ SlotsAreTimed /\ [Next]_vars => SlotsAreTimed'
<1> SUFFICES ASSUME PlacesTyped, TimersTyped, ValuesTyped, SlotsAreTimed,
                    [Next]_vars
             PROVE  SlotsAreTimed'
  OBVIOUS
<1>0. /\ at \in [Ends -> Labels] /\ timer \in [Ends -> Int] /\ age \in [Handlers -> Nat]
      /\ Handlers \subseteq Ends /\ Clients \subseteq Ends
      /\ \A e \in Clients : e \notin Handlers
      /\ at["relay_c"] \in {"listening", "m1", "m3", "Hello", "Request", "opening",
                            "bridge", "ended"}
      /\ at["relay_a"] \in {"listening", "m1", "m3", "Hello", "Attach", "Ready",
                            "handed", "ended"}
  BY DEF PlacesTyped, TimersTyped, ValuesTyped, Ends, Clients, Handlers
<1>1. ASSUME NEW e \in Clients, Dial(e)
      PROVE  SlotsAreTimed'
  BY <1>0, TimesAre, <1>1 DEF Dial, Wait, Drop, SlotsAreTimed, Within,
       Handlers, Clients, Settled, Unborn
<1>2. ASSUME NEW e \in Clients, Connected(e)
      PROVE  SlotsAreTimed'
  BY <1>0, TimesAre, <1>2 DEF Connected, Wait, Drop, SlotsAreTimed, Within,
       Handlers, Clients, Settled, Unborn
<1>3. ASSUME NEW e \in Clients, HearMessage2(e)
      PROVE  SlotsAreTimed'
  BY <1>0, TimesAre, <1>3 DEF HearMessage2, Wait, Drop, SlotsAreTimed, Within,
       Handlers, Clients, Settled, Unborn
<1>4. CASE ConnectHelloOk
  BY <1>0, TimesAre, <1>4 DEF ConnectHelloOk, Wait, Drop, SlotsAreTimed,
       Within, Handlers, Clients, Settled, Unborn
<1>5. CASE AgentHelloOk
  BY <1>0, TimesAre, <1>5 DEF AgentHelloOk, Wait, Drop, SlotsAreTimed, Within,
       Handlers, Clients, Settled, Unborn
<1>6. ASSUME NEW e \in Handlers, Accept(e)
      PROVE  SlotsAreTimed'
  BY <1>0, TimesAre, <1>6 DEF Accept, Wait, Drop, SlotsAreTimed, Within,
       Handlers, Clients, Settled, Unborn
<1>7. ASSUME NEW e \in Handlers, HearMessage1(e)
      PROVE  SlotsAreTimed'
  BY <1>0, TimesAre, <1>7 DEF HearMessage1, Wait, Drop, SlotsAreTimed, Within,
       Handlers, Clients, Settled, Unborn
<1>8. ASSUME NEW e \in Handlers, HearMessage3(e)
      PROVE  SlotsAreTimed'
  <2>1. age[e] \in Nat /\ age[e] <= HandshakeTime /\ at[e] = "m3"
    BY <1>0, <1>8, TimesAre DEF HearMessage3, SlotsAreTimed, Within
  <2>2. /\ at' = [at EXCEPT ![e] = "Hello"] /\ timer' = [timer EXCEPT ![e] = HelloTime]
        /\ age' = age
    BY <1>8 DEF HearMessage3, Wait
  <2>3. Within(e, HelloTime, HandshakeTime)'
    BY <1>0, <2>1, <2>2, TimesAre DEF Within
  <2> QED
    BY <1>0, <2>2, <2>3 DEF SlotsAreTimed, Within
<1>9. ASSUME NEW e \in Handlers, HearHello(e)
      PROVE  SlotsAreTimed'
  <2>1. /\ age[e] \in Nat /\ age[e] <= HandshakeTime + HelloTime
        /\ at[e] = "Hello" /\ age' = age
    BY <1>0, <1>9, TimesAre DEF HearHello, SlotsAreTimed, Within
  <2>2. CASE Drop({e})
    BY <1>0, <2>1, <2>2 DEF Drop, SlotsAreTimed, Within
  <2>3. ASSUME NEW label \in {"Request", "Attach"}, Wait(e, label, RequestTime)
        PROVE  SlotsAreTimed'
    <3>1. Within(e, RequestTime, HandshakeTime + HelloTime)'
      BY <1>0, <2>1, <2>3, TimesAre DEF Within, Wait
    <3> QED
      BY <1>0, <2>1, <2>3, <3>1 DEF Wait, SlotsAreTimed, Within
  <2> QED
    BY <1>9, <2>2, <2>3 DEF HearHello
<1>10. CASE HearRequest
  <2>1. /\ age["relay_c"] \in Nat /\ age["relay_c"] <= HandshakeTime + HelloTime + RequestTime
        /\ at["relay_c"] = "Request" /\ age' = age /\ "relay_c" \in Handlers
    BY <1>0, <1>10, TimesAre DEF HearRequest, SlotsAreTimed, Within, Handlers
  <2>2. CASE Drop({"relay_c"})
    BY <1>0, <2>1, <2>2 DEF Drop, SlotsAreTimed, Within
  <2>3. CASE Wait("relay_c", "opening", AnswerTime)
    <3>1. Within("relay_c", AnswerTime, HandshakeTime + HelloTime + RequestTime)'
      BY <1>0, <2>1, <2>3, TimesAre DEF Within, Wait
    <3> QED
      BY <1>0, <2>1, <2>3, <3>1 DEF Wait, SlotsAreTimed, Within
  <2> QED
    BY <1>10, <2>2, <2>3 DEF HearRequest
<1>11. CASE HandlerGrants
  BY <1>0, TimesAre, <1>11 DEF HandlerGrants, Wait, Drop, SlotsAreTimed,
       Within, Handlers, Clients, Settled, Unborn
<1>12. CASE HandlerRefuses
  BY <1>0, TimesAre, <1>12 DEF HandlerRefuses, Wait, Drop, SlotsAreTimed,
       Within, Handlers, Clients, Settled, Unborn
<1>13. CASE OpenExpires
  BY <1>0, TimesAre, <1>13 DEF OpenExpires, Wait, Drop, SlotsAreTimed, Within,
       Handlers, Clients, Settled, Unborn
<1>14. CASE HearResponse
  BY <1>0, TimesAre, <1>14 DEF HearResponse, Wait, Drop, SlotsAreTimed,
       Within, Handlers, Clients, Settled, Unborn
<1>15. CASE HearAttach
  BY <1>0, TimesAre, <1>15 DEF HearAttach, Wait, Drop, SlotsAreTimed, Within,
       Handlers, Clients, Settled, Unborn
<1>16. CASE HearReady
  BY <1>0, TimesAre, <1>16 DEF HearReady, Wait, Drop, SlotsAreTimed, Within,
       Handlers, Clients, Settled, Unborn
<1>17. CASE HearAccepted
  BY <1>0, TimesAre, <1>17 DEF HearAccepted, Wait, Drop, SlotsAreTimed,
       Within, Handlers, Clients, Settled, Unborn
<1>18. CASE LocalConnect
  BY <1>0, TimesAre, <1>18 DEF LocalConnect, Wait, Drop, SlotsAreTimed,
       Within, Handlers, Clients, Settled, Unborn
<1>19. ASSUME NEW e \in Ends, Timeout(e)
      PROVE  SlotsAreTimed'
  BY <1>0, TimesAre, <1>19 DEF Timeout, Fail, Wait, Drop, SlotsAreTimed,
       Within, Handlers, Clients, Settled, Unborn
<1>20. ASSUME NEW e \in Ends, Break(e)
      PROVE  SlotsAreTimed'
  BY <1>0, TimesAre, <1>20 DEF Break, Fail, Wait, Drop, SlotsAreTimed, Within,
       Handlers, Clients, Settled, Unborn
<1>21. ASSUME NEW e \in Ends, SeeEnd(e)
      PROVE  SlotsAreTimed'
  BY <1>0, TimesAre, <1>21 DEF SeeEnd, Fail, Wait, Drop, SlotsAreTimed,
       Within, Handlers, Clients, Settled, Unborn
<1>22. CASE Upload
  BY <1>22 DEF Upload, SlotsAreTimed, Within
<1>23. CASE Download
  BY <1>0, TimesAre, <1>23 DEF Download, Wait, Drop, SlotsAreTimed, Within,
       Handlers, Clients, Settled, Unborn
<1>24. CASE Pipe("up", "relay_c", "agent")
  BY <1>24 DEF Pipe, SlotsAreTimed, Within
<1>25. CASE Pipe("down", "relay_a", "connect")
  BY <1>25 DEF Pipe, SlotsAreTimed, Within
<1>26. CASE Serve
  BY <1>26 DEF Serve, SlotsAreTimed, Within
<1>27. CASE ServerEnds
  BY <1>27 DEF ServerEnds, SlotsAreTimed, Within
<1>28. ASSUME NEW e \in Ends, BridgeEnds(e)
      PROVE  SlotsAreTimed'
  BY <1>0, TimesAre, <1>28 DEF BridgeEnds, Wait, Drop, SlotsAreTimed, Within,
       Handlers, Clients, Settled, Unborn
<1>29. ASSUME NEW e \in Ends, BridgeFails(e)
      PROVE  SlotsAreTimed'
  BY <1>0, TimesAre, <1>29 DEF BridgeFails, Wait, Drop, SlotsAreTimed, Within,
       Handlers, Clients, Settled, Unborn
<1>30. CASE Tick
  <2> SUFFICES ASSUME NEW h \in Handlers
               PROVE  /\ at[h] = "listening" => age'[h] = 0
                      /\ at[h] \in {"m1", "m3"} => Within(h, HandshakeTime, 0)'
                      /\ at[h] = "Hello" => Within(h, HelloTime, HandshakeTime)'
                      /\ at[h] \in {"Request", "Attach"} =>
                             Within(h, RequestTime, HandshakeTime + HelloTime)'
                      /\ at[h] \in {"opening", "Ready"} =>
                             Within(h, AnswerTime, HandshakeTime + HelloTime + RequestTime)'
    BY <1>30 DEF Tick, SlotsAreTimed
  <2>1. /\ timer[h] \in Int /\ timer[h] # 0 /\ age[h] \in Nat
        /\ timer'[h] = IF timer[h] = Off THEN Off ELSE timer[h] - 1
        /\ age'[h] = IF at[h] \in Settled \cup Unborn THEN age[h] ELSE age[h] + 1
    BY <1>0, <1>30 DEF Tick
  <2>2. \A t, b \in Nat : Within(h, t, b) =>
            timer'[h] = timer[h] - 1 /\ timer'[h] \in 0..t
            /\ (at[h] \notin Settled \cup Unborn => Within(h, t, b)')
    BY <2>1 DEF Within, Off
  <2>3. at[h] = "listening" => age'[h] = 0
    BY <2>1 DEF SlotsAreTimed, Unborn
  <2>4. at[h] \in {"m1", "m3", "Hello", "Request", "Attach", "opening", "Ready"}
            => at[h] \notin Settled \cup Unborn
    BY DEF Settled, Unborn
  <2> QED
    BY <2>2, <2>3, <2>4, TimesAre DEF SlotsAreTimed
<1>31. CASE UNCHANGED vars
  BY <1>31 DEF vars, SlotsAreTimed, Within
<1> QED
  BY <1>1, <1>2, <1>3, <1>4, <1>5, <1>6, <1>7, <1>8, <1>9, <1>10, <1>11,
       <1>12, <1>13, <1>14, <1>15, <1>16, <1>17, <1>18, <1>19, <1>20, <1>21,
       <1>22, <1>23, <1>24, <1>25, <1>26, <1>27, <1>28, <1>29, <1>30, <1>31
       DEF Next, Bridges

\* The stream is handed off and taken, or neither handler keeps it.
LEMMA MeetStep ==
    PlacesTyped /\ HandlersMeet /\ [Next]_vars => HandlersMeet'
<1> SUFFICES ASSUME PlacesTyped, HandlersMeet, [Next]_vars
             PROVE  HandlersMeet'
  OBVIOUS
<1>0. /\ at \in [Ends -> Labels]
      /\ Handlers \subseteq Ends /\ Clients \subseteq Ends
      /\ \A e \in Clients : e \notin Handlers
      /\ at["relay_c"] \in {"listening", "m1", "m3", "Hello", "Request", "opening",
                            "bridge", "ended"}
      /\ at["relay_a"] \in {"listening", "m1", "m3", "Hello", "Attach", "Ready",
                            "handed", "ended"}
  BY DEF PlacesTyped, Ends, Clients, Handlers
<1>1. ASSUME NEW e \in Clients, Dial(e)
      PROVE  HandlersMeet'
  BY <1>0, <1>1 DEF Dial, shared, bridgeVars, Wait, Drop, Reply, HandlersMeet,
       Ends, Handlers, Clients, Receiving
<1>2. ASSUME NEW e \in Clients, Connected(e)
      PROVE  HandlersMeet'
  BY <1>0, <1>2 DEF Connected, shared, bridgeVars, Wait, Drop, Reply,
       HandlersMeet, Ends, Handlers, Clients, Receiving
<1>3. ASSUME NEW e \in Clients, HearMessage2(e)
      PROVE  HandlersMeet'
  BY <1>0, <1>3 DEF HearMessage2, shared, bridgeVars, Wait, Drop, Reply,
       HandlersMeet, Ends, Handlers, Clients, Receiving
<1>4. CASE ConnectHelloOk
  BY <1>0, <1>4 DEF ConnectHelloOk, shared, bridgeVars, Wait, Drop, Reply,
       HandlersMeet, Ends, Handlers, Clients, Receiving
<1>5. CASE AgentHelloOk
  BY <1>0, <1>5 DEF AgentHelloOk, shared, bridgeVars, Wait, Drop, Reply,
       HandlersMeet, Ends, Handlers, Clients, Receiving
<1>6. ASSUME NEW e \in Handlers, Accept(e)
      PROVE  HandlersMeet'
  BY <1>0, <1>6 DEF Accept, shared, bridgeVars, Wait, Drop, Reply,
       HandlersMeet, Ends, Handlers, Clients, Receiving
<1>7. ASSUME NEW e \in Handlers, HearMessage1(e)
      PROVE  HandlersMeet'
  BY <1>0, <1>7 DEF HearMessage1, shared, bridgeVars, Wait, Drop, Reply,
       HandlersMeet, Ends, Handlers, Clients, Receiving
<1>8. ASSUME NEW e \in Handlers, HearMessage3(e)
      PROVE  HandlersMeet'
  BY <1>0, <1>8 DEF HearMessage3, shared, bridgeVars, Wait, Drop, Reply,
       HandlersMeet, Ends, Handlers, Clients, Receiving
<1>9. ASSUME NEW e \in Handlers, HearHello(e)
      PROVE  HandlersMeet'
  BY <1>0, <1>9 DEF HearHello, shared, bridgeVars, Wait, Drop, Reply,
       HandlersMeet, Ends, Handlers, Clients, Receiving
<1>10. CASE HearRequest
  BY <1>0, <1>10 DEF HearRequest, shared, bridgeVars, Wait, Drop, Reply,
       HandlersMeet, Ends, Handlers, Clients, Receiving
<1>11. CASE HandlerGrants
  BY <1>0, <1>11 DEF HandlerGrants, shared, bridgeVars, Wait, Drop, Reply,
       HandlersMeet, Ends, Handlers, Clients, Receiving
<1>12. CASE HandlerRefuses
  BY <1>0, <1>12 DEF HandlerRefuses, shared, bridgeVars, Wait, Drop, Reply,
       HandlersMeet, Ends, Handlers, Clients, Receiving
<1>13. CASE OpenExpires
  BY <1>0, <1>13 DEF OpenExpires, shared, bridgeVars, Wait, Drop, Reply,
       HandlersMeet, Ends, Handlers, Clients, Receiving
<1>14. CASE HearResponse
  BY <1>0, <1>14 DEF HearResponse, shared, bridgeVars, Wait, Drop, Reply,
       HandlersMeet, Ends, Handlers, Clients, Receiving
<1>15. CASE HearAttach
  BY <1>0, <1>15 DEF HearAttach, shared, bridgeVars, Wait, Drop, Reply,
       HandlersMeet, Ends, Handlers, Clients, Receiving
<1>16. CASE HearReady
  BY <1>0, <1>16 DEF HearReady, shared, bridgeVars, Wait, Drop, Reply,
       HandlersMeet, Ends, Handlers, Clients, Receiving
<1>17. CASE HearAccepted
  BY <1>0, <1>17 DEF HearAccepted, shared, bridgeVars, Wait, Drop, Reply,
       HandlersMeet, Ends, Handlers, Clients, Receiving
<1>18. CASE LocalConnect
  BY <1>0, <1>18 DEF LocalConnect, shared, bridgeVars, Wait, Drop, Reply,
       HandlersMeet, Ends, Handlers, Clients, Receiving
<1>19. ASSUME NEW e \in Ends, Timeout(e)
      PROVE  HandlersMeet'
  BY <1>0, <1>19 DEF Timeout, Fail, shared, bridgeVars, Wait, Drop, Reply,
       HandlersMeet, Ends, Handlers, Clients, Receiving
<1>20. ASSUME NEW e \in Ends, Break(e)
      PROVE  HandlersMeet'
  BY <1>0, <1>20 DEF Break, Fail, shared, bridgeVars, Wait, Drop, Reply,
       HandlersMeet, Ends, Handlers, Clients, Receiving
<1>21. ASSUME NEW e \in Ends, SeeEnd(e)
      PROVE  HandlersMeet'
  BY <1>0, <1>21 DEF SeeEnd, Fail, shared, bridgeVars, Wait, Drop, Reply,
       HandlersMeet, Ends, Handlers, Clients, Receiving
<1>22. CASE Upload
  BY <1>22 DEF Upload, shared, HandlersMeet
<1>23. CASE Download
  BY <1>0, <1>23 DEF Download, shared, bridgeVars, Wait, Drop, Reply,
       HandlersMeet, Ends, Handlers, Clients, Receiving
<1>24. CASE Pipe("up", "relay_c", "agent")
  BY <1>24 DEF Pipe, shared, HandlersMeet
<1>25. CASE Pipe("down", "relay_a", "connect")
  BY <1>25 DEF Pipe, shared, HandlersMeet
<1>26. CASE Serve
  BY <1>26 DEF Serve, shared, HandlersMeet
<1>27. CASE ServerEnds
  BY <1>27 DEF ServerEnds, shared, HandlersMeet
<1>28. ASSUME NEW e \in Ends, BridgeEnds(e)
      PROVE  HandlersMeet'
  BY <1>0, <1>28 DEF BridgeEnds, shared, bridgeVars, Wait, Drop, Reply,
       HandlersMeet, Ends, Handlers, Clients, Receiving
<1>29. ASSUME NEW e \in Ends, BridgeFails(e)
      PROVE  HandlersMeet'
  BY <1>0, <1>29 DEF BridgeFails, shared, bridgeVars, Wait, Drop, Reply,
       HandlersMeet, Ends, Handlers, Clients, Receiving
<1>30. CASE Tick
  BY <1>30 DEF Tick, shared, HandlersMeet
<1>31. CASE UNCHANGED vars
  BY <1>31 DEF vars, shared, HandlersMeet
<1> QED
  BY <1>1, <1>2, <1>3, <1>4, <1>5, <1>6, <1>7, <1>8, <1>9, <1>10, <1>11,
       <1>12, <1>13, <1>14, <1>15, <1>16, <1>17, <1>18, <1>19, <1>20, <1>21,
       <1>22, <1>23, <1>24, <1>25, <1>26, <1>27, <1>28, <1>29, <1>30, <1>31
       DEF Next, Bridges

-----------------------------------------------------------------------------
(* The output.                                                             *)

\* Messages of the setup, and what an end says at once.
Plain == Messages \ {"Ready", "data", "eof"}
Told == {<<>>, <<"m3", "Hello">>} \cup {<<m>> : m \in Plain}

LEMMA PlainAre ==
    /\ {"m1", "m2", "m3", "Hello", "HelloOk", "Attach", "Accepted", "ListRequest",
        "OpenRequest", "DeviceList", "Failed"} \subseteq Plain
    /\ <<>> \in Told /\ <<"m3", "Hello">> \in Told /\ \A m \in Plain : <<m>> \in Told
BY DEF Plain, Told, Messages, Receiving

LEMMA PlainAdded ==
    ASSUME NEW s \in Seq(Messages), NEW ms \in Told, EndsLast(s),
           ms = <<>> \/ Count(s, "eof") = 0
    PROVE  /\ EndsLast(s \o ms)
           /\ \A x \in {"Ready", "data", "eof"} : Count(s \o ms, x) = Count(s, x)
<1>1. CASE ms = <<>>
  <2>1. s \o ms = s
    BY <1>1
  <2> QED
    BY <2>1, Zenon
<1>2. ASSUME NEW m \in Plain, ms = <<m>>, Count(s, "eof") = 0
      PROVE  /\ EndsLast(s \o ms)
             /\ \A x \in {"Ready", "data", "eof"} : Count(s \o ms, x) = Count(s, x)
  <2>1. m \in Messages /\ \A x \in {"Ready", "data", "eof"} : m # x
    BY DEF Plain
  <2>2. \A x \in {"Ready", "data", "eof"} : Count(s, x) \in Nat
    BY CountType, Zenon
  <2>3. EndsLast(s \o <<m>>)
    BY <1>2, <2>1, EndsLastOneMore, Zenon
  <2>4. ASSUME NEW x \in {"Ready", "data", "eof"} PROVE Count(s \o <<m>>, x) = Count(s, x)
    <3>1. Count(s \o <<m>>, x) = Count(s, x) + (IF m = x THEN 1 ELSE 0)
      BY <2>1, CountOneMore, Zenon
    <3> QED
      BY <2>1, <2>2, <3>1
  <2> QED
    BY <1>2, <2>3, <2>4, Zenon
<1>3. CASE ms = <<"m3", "Hello">> /\ Count(s, "eof") = 0
  <2> DEFINE t == s \o <<"m3">>
  <2>1. t \in Seq(Messages) /\ s \o <<"m3", "Hello">> = t \o <<"Hello">>
    BY MessagesAre DEF Receiving
  <2>2. "m3" \in Messages /\ "Hello" \in Messages
    BY MessagesAre DEF Receiving
  <2>3. ASSUME NEW x \in {"Ready", "data", "eof"}
        PROVE  Count(t, x) = Count(s, x) /\ Count(t \o <<"Hello">>, x) = Count(t, x)
    <3> HIDE DEF t
    <3>1. Count(s, x) \in Nat /\ Count(t, x) \in Nat
      BY <2>1, CountType, Zenon
    <3>2. /\ Count(t, x) = Count(s, x) + (IF "m3" = x THEN 1 ELSE 0)
          /\ Count(t \o <<"Hello">>, x) = Count(t, x) + (IF "Hello" = x THEN 1 ELSE 0)
      <4>1. Count(t, x) = Count(s, x) + (IF "m3" = x THEN 1 ELSE 0)
        BY <2>2, CountOneMore, ZenonT(30) DEF t
      <4>2. Count(t \o <<"Hello">>, x) = Count(t, x) + (IF "Hello" = x THEN 1 ELSE 0)
        <5>1. t \in Seq(Messages) /\ "Hello" \in Messages
          BY <2>1, <2>2, Zenon
        <5>2. \A m \in Messages :
                 Count(t \o <<m>>, x) = Count(t, x) + (IF m = x THEN 1 ELSE 0)
          BY <5>1, CountOneMore, ZenonT(30)
        <5> QED
          BY <5>1, <5>2, Zenon
      <4> QED
        BY <4>1, <4>2
    <3> QED
      BY <2>3, <3>1, <3>2
  <2>4. EndsLast(t)
    BY <1>3, <2>2, EndsLastOneMore, Zenon
  <2>5. EndsLast(t \o <<"Hello">>)
    <3>1. Count(t, "eof") = 0
      BY <1>3, <2>3
    <3> HIDE DEF t
    <3> QED
      BY <2>1, <2>2, <2>4, <3>1, EndsLastOneMore, Zenon
  <2> HIDE DEF t
  <2> QED
    BY <1>3, <2>1, <2>3, <2>5, Zenon
<1> QED
  BY <1>1, <1>2, <1>3 DEF Told

LEMMA Taken ==
    ASSUME NEW s \in Seq(Messages), s # <<>>, EndsLast(s)
    PROVE  /\ EndsLast(Tail(s)) /\ Tail(s) \in Seq(Messages)
           /\ \A x \in {"Ready", "data", "eof"} :
                  /\ Count(Tail(s), x) \in Nat /\ Count(s, x) \in Nat
                  /\ Count(s, x) = Count(Tail(s), x) + (IF Head(s) = x THEN 1 ELSE 0)
<1>1. Tail(s) \in Seq(Messages)
  OBVIOUS
<1> QED
  BY <1>1, EndsLastRest, CountRest, CountType, Zenon

\* The wires carry what they did, or less by a Ready that was heard.
KeepsOutput ==
    /\ EndsLast(wire["relay_a"])' /\ EndsLast(wire["connect"])'
    /\ ToRelay("data")' = ToRelay("data") /\ ToConnect("data")' = ToConnect("data")
    /\ ToRelay("eof")' = ToRelay("eof") /\ ToConnect("eof")' = ToConnect("eof")
    /\ ToRelay("Ready")' > 0 => ToRelay("Ready") > 0
    /\ ToConnect("Ready")' > 0 => ToConnect("Ready") > 0

\* e has not passed on an end yet.
NoEndFrom(e) ==
    /\ e = "agent" => ToRelay("eof") = 0
    /\ e = "relay_c" => ToConnect("eof") = 0

EndsAreLast == EndsLast(wire["relay_a"]) /\ EndsLast(wire["connect"])

LEMMA CountsAre ==
    ASSUME WiresTyped, NEW x
    PROVE  ToRelay(x) \in Nat /\ ToConnect(x) \in Nat
<1>1. wire["relay_a"] \in Seq(Messages) /\ wire["connect"] \in Seq(Messages)
  BY DEF WiresTyped, Ends, Clients, Handlers
<1> QED
  BY <1>1, CountType, Zenon DEF ToRelay, ToConnect

LEMMA SayKeeps ==
    ASSUME WiresTyped, EndsAreLast, NEW e \in Ends, NEW ms \in Told, NoEndFrom(e), Say(e, ms)
    PROVE  KeepsOutput
<1>1. /\ wire["relay_a"] \in Seq(Messages) /\ wire["connect"] \in Seq(Messages)
  BY DEF WiresTyped, Ends, Clients, Handlers
<1>2. /\ wire'["relay_a"] = IF e = "agent" THEN wire["relay_a"] \o ms ELSE wire["relay_a"]
      /\ wire'["connect"] = IF e = "relay_c" THEN wire["connect"] \o ms ELSE wire["connect"]
  BY DEF WiresTyped, Say, Peer, Ends, Clients, Handlers
<1>3. \A x \in {"Ready", "data", "eof"} : ToRelay(x)' = ToRelay(x) /\ ToConnect(x)' = ToConnect(x)
  BY <1>1, <1>2, PlainAdded DEF ToRelay, ToConnect, NoEndFrom, EndsAreLast
<1>4. EndsLast(wire["relay_a"])' /\ EndsLast(wire["connect"])'
  <2>1. EndsLast(wire'["relay_a"]) /\ EndsLast(wire'["connect"])
    BY <1>1, <1>2, PlainAdded DEF ToRelay, ToConnect, NoEndFrom, EndsAreLast
  <2> QED
    BY <2>1 DEF EndsLast
<1> QED
  BY <1>3, <1>4 DEF KeepsOutput

LEMMA HearKeeps ==
    ASSUME WiresTyped, EndsAreLast, NEW e \in Ends, NEW m, NEW ms \in Told,
           m \notin {"data", "eof"}, ms = <<>> \/ NoEndFrom(e), Hear(e, m, ms)
    PROVE  KeepsOutput
<1>1. /\ wire["relay_a"] \in Seq(Messages) /\ wire["connect"] \in Seq(Messages)
  BY DEF WiresTyped, Ends, Clients, Handlers
<1>2. /\ wire'["relay_a"] = IF e = "relay_a" THEN Tail(wire["relay_a"])
                            ELSE IF e = "agent" THEN wire["relay_a"] \o ms
                            ELSE wire["relay_a"]
      /\ wire'["connect"] = IF e = "connect" THEN Tail(wire["connect"])
                            ELSE IF e = "relay_c" THEN wire["connect"] \o ms
                            ELSE wire["connect"]
      /\ wire[e] # <<>> /\ Head(wire[e]) = m
  <2>1. /\ wire[e] # <<>> /\ Head(wire[e]) = m
        /\ wire' = [wire EXCEPT ![e] = Tail(@), ![Peer[e]] = @ \o ms]
    BY DEF Hear
  <2>2. e \in {"connect", "agent", "relay_c", "relay_a"}
    BY DEF Ends, Clients, Handlers
  <2>3. DOMAIN wire = {"connect", "agent", "relay_c", "relay_a"}
    BY DEF WiresTyped, Ends, Clients, Handlers
  <2> QED
    BY <2>1, <2>2, <2>3, PeerIs
<1>3. /\ EndsLast(wire'["relay_a"])
      /\ \A x \in {"Ready", "data", "eof"} :
             /\ x # "Ready" => ToRelay(x)' = ToRelay(x)
             /\ ToRelay(x)' > 0 => ToRelay(x) > 0
  <2>1. CASE e = "relay_a"
    BY <1>1, <1>2, <2>1, Taken DEF ToRelay, EndsAreLast
  <2>2. CASE e = "agent"
    BY <1>1, <1>2, <2>2, PlainAdded DEF ToRelay, EndsAreLast, NoEndFrom
  <2>3. CASE e \notin {"relay_a", "agent"}
    BY <1>2, <2>3 DEF ToRelay, EndsAreLast
  <2> QED
    BY <2>1, <2>2, <2>3
<1>4. /\ EndsLast(wire'["connect"])
      /\ \A x \in {"Ready", "data", "eof"} :
             /\ x # "Ready" => ToConnect(x)' = ToConnect(x)
             /\ ToConnect(x)' > 0 => ToConnect(x) > 0
  <2>1. CASE e = "connect"
    BY <1>1, <1>2, <2>1, Taken, SMTT(30) DEF ToConnect, EndsAreLast
  <2>2. CASE e = "relay_c"
    BY <1>1, <1>2, <2>2, PlainAdded DEF ToConnect, EndsAreLast, NoEndFrom
  <2>3. CASE e \notin {"connect", "relay_c"}
    BY <1>2, <2>3 DEF ToConnect, EndsAreLast
  <2> QED
    BY <2>1, <2>2, <2>3
<1>5. EndsLast(wire["relay_a"])' /\ EndsLast(wire["connect"])'
  BY <1>3, <1>4 DEF EndsLast
<1> QED
  BY <1>3, <1>4, <1>5 DEF KeepsOutput

LEMMA SilenceKeeps ==
    ASSUME EndsAreLast, UNCHANGED wire
    PROVE  KeepsOutput
BY DEF EndsAreLast, KeepsOutput, ToRelay, ToConnect, EndsLast

\* One message more to the relay, or to connect.
LEMMA AgentSays ==
    ASSUME WiresTyped, EndsAreLast, NEW m \in Messages, ToRelay("eof") = 0, Say("agent", <<m>>)
    PROVE  /\ EndsAreLast'
           /\ \A x : /\ ToRelay(x)' = ToRelay(x) + (IF m = x THEN 1 ELSE 0)
                     /\ ToConnect(x)' = ToConnect(x)
<1>1. wire["relay_a"] \in Seq(Messages)
  BY DEF WiresTyped, Ends, Clients, Handlers
<1>2. wire'["relay_a"] = wire["relay_a"] \o <<m>> /\ wire'["connect"] = wire["connect"]
  BY DEF WiresTyped, Say, Peer, Ends, Clients, Handlers
<1>3. EndsLast(wire'["relay_a"]) /\ EndsLast(wire'["connect"])
  BY <1>1, <1>2, EndsLastOneMore, Zenon DEF ToRelay, EndsAreLast
<1>4. ASSUME NEW x PROVE Count(wire'["relay_a"], x) = ToRelay(x) + (IF m = x THEN 1 ELSE 0)
  BY <1>1, <1>2, CountOneMore DEF ToRelay
<1> QED
  BY <1>2, <1>3, <1>4 DEF ToRelay, ToConnect, EndsAreLast, EndsLast

LEMMA RelaySays ==
    ASSUME WiresTyped, EndsAreLast, NEW m \in Messages, ToConnect("eof") = 0,
           Say("relay_c", <<m>>)
    PROVE  /\ EndsAreLast'
           /\ \A x : /\ ToConnect(x)' = ToConnect(x) + (IF m = x THEN 1 ELSE 0)
                     /\ ToRelay(x)' = ToRelay(x)
<1>1. wire["connect"] \in Seq(Messages)
  BY DEF WiresTyped, Ends, Clients, Handlers
<1>2. wire'["connect"] = wire["connect"] \o <<m>> /\ wire'["relay_a"] = wire["relay_a"]
  BY DEF WiresTyped, Say, Peer, Ends, Clients, Handlers
<1>3. EndsLast(wire'["relay_a"]) /\ EndsLast(wire'["connect"])
  BY <1>1, <1>2, EndsLastOneMore, Zenon DEF ToConnect, EndsAreLast
<1>4. ASSUME NEW x PROVE Count(wire'["connect"], x) = ToConnect(x) + (IF m = x THEN 1 ELSE 0)
  BY <1>1, <1>2, CountOneMore DEF ToConnect
<1> QED
  BY <1>2, <1>3, <1>4 DEF ToRelay, ToConnect, EndsAreLast, EndsLast

\* connect hears something, and nothing follows an end.
LEMMA ConnectHears ==
    ASSUME WiresTyped, EndsAreLast, NEW m, Hear("connect", m, <<>>)
    PROVE  /\ EndsAreLast'
           /\ \A x \in {"Ready", "data", "eof"} :
                  /\ ToConnect(x) = ToConnect(x)' + (IF m = x THEN 1 ELSE 0)
                  /\ ToConnect(x)' \in Nat
                  /\ m = "eof" => ToConnect(x)' = 0
                  /\ ToRelay(x)' = ToRelay(x)
<1>1. wire["connect"] \in Seq(Messages) /\ wire["relay_c"] \in Seq(Messages)
  BY DEF WiresTyped, Ends, Clients, Handlers
<1>2. /\ wire["connect"] # <<>> /\ Head(wire["connect"]) = m
      /\ wire'["connect"] = Tail(wire["connect"]) /\ wire'["relay_a"] = wire["relay_a"]
  BY DEF WiresTyped, Hear, Peer, Ends, Clients, Handlers
<1>3. EndsLast(wire'["relay_a"]) /\ EndsLast(wire'["connect"])
  BY <1>1, <1>2, Taken, Zenon DEF EndsAreLast
<1>4. ASSUME NEW x \in {"Ready", "data", "eof"}
      PROVE  /\ ToConnect(x) = Count(wire'["connect"], x) + (IF m = x THEN 1 ELSE 0)
             /\ Count(wire'["connect"], x) \in Nat
             /\ m = "eof" => Count(wire'["connect"], x) = 0
  <2>1. m = "eof" => wire'["connect"] = <<>>
    BY <1>1, <1>2, EndsLastRest, Zenon DEF EndsAreLast
  <2> QED
    BY <1>1, <1>2, <2>1, Taken, CountEmpty, Zenon DEF ToConnect, EndsAreLast
<1> QED
  BY <1>2, <1>3, <1>4 DEF ToRelay, ToConnect, EndsAreLast, EndsLast

\* The relay passes on what the agent sent, or the end of a stream that closed.
LEMMA RelayPasses ==
    ASSUME WiresTyped, EndsAreLast, ToConnect("eof") = 0, wire["relay_a"] # <<>>,
           wire' = [wire EXCEPT !["relay_a"] = Tail(@),
                                !["connect"] = Append(@, Head(wire["relay_a"]))]
    PROVE  /\ EndsAreLast' /\ (Head(wire["relay_a"]) = "eof" => wire'["relay_a"] = <<>>)
           /\ \A x \in {"Ready", "data", "eof"} :
                  LET n == IF Head(wire["relay_a"]) = x THEN 1 ELSE 0 IN
                  /\ ToRelay(x) = ToRelay(x)' + n /\ ToRelay(x)' \in Nat
                  /\ ToConnect(x)' = ToConnect(x) + n
<1> DEFINE m == Head(wire["relay_a"])
<1>1. /\ wire["relay_a"] \in Seq(Messages) /\ wire["connect"] \in Seq(Messages)
  BY DEF WiresTyped, Ends, Clients, Handlers
<1>2. m \in Messages /\ Append(wire["connect"], m) = wire["connect"] \o <<m>>
  <2>1. m \in Messages
    BY <1>1
  <2> HIDE DEF m
  <2> QED
    BY <1>1, <2>1
<1>3. wire'["relay_a"] = Tail(wire["relay_a"]) /\ wire'["connect"] = wire["connect"] \o <<m>>
  <2>1. wire'["relay_a"] = Tail(wire["relay_a"]) /\ wire'["connect"] = Append(wire["connect"], m)
    BY DEF WiresTyped, Ends, Clients, Handlers
  <2> QED
    BY <1>2, <2>1, Zenon
<1> HIDE DEF m
<1>4. EndsLast(wire'["relay_a"]) /\ EndsLast(wire'["connect"])
  <2>1. EndsLast(wire'["connect"])
    BY <1>1, <1>2, <1>3, EndsLastOneMore, Zenon DEF ToConnect, EndsAreLast
  <2> QED
    BY <1>1, <1>3, <2>1, Taken, Zenon DEF EndsAreLast
<1>5. m = "eof" => wire'["relay_a"] = <<>>
  BY <1>1, <1>3, EndsLastRest, Zenon DEF EndsAreLast, m
<1>6. ASSUME NEW x \in {"Ready", "data", "eof"}
      PROVE  /\ ToRelay(x) = Count(wire'["relay_a"], x) + (IF m = x THEN 1 ELSE 0)
             /\ Count(wire'["relay_a"], x) \in Nat
             /\ Count(wire'["connect"], x) = ToConnect(x) + (IF m = x THEN 1 ELSE 0)
  <2>1. /\ ToRelay(x) = Count(wire'["relay_a"], x) + (IF m = x THEN 1 ELSE 0)
        /\ Count(wire'["relay_a"], x) \in Nat
    BY <1>1, <1>3, Taken, SMTT(30) DEF ToRelay, EndsAreLast, m
  <2>2. Count(wire'["connect"], x) = ToConnect(x) + (IF m = x THEN 1 ELSE 0)
    <3>1. Count(wire["connect"] \o <<m>>, x)
              = Count(wire["connect"], x) + (IF m = x THEN 1 ELSE 0)
      BY <1>1, <1>2, CountOneMore
    <3> QED
      BY <1>3, <3>1, Zenon DEF ToConnect
  <2> QED
    BY <2>1, <2>2
<1> QED
  BY <1>4, <1>5, <1>6 DEF ToRelay, ToConnect, EndsAreLast, EndsLast, m

LEMMA RelayCloses ==
    ASSUME WiresTyped, EndsAreLast, ToConnect("eof") = 0,
           wire' = [wire EXCEPT !["connect"] = Append(@, "eof")]
    PROVE  /\ EndsAreLast'
           /\ \A x \in {"Ready", "data", "eof"} :
                  /\ ToRelay(x)' = ToRelay(x)
                  /\ ToConnect(x)' = ToConnect(x) + (IF "eof" = x THEN 1 ELSE 0)
<1>1. wire["connect"] \in Seq(Messages) /\ "eof" \in Messages
  BY MessagesAre DEF WiresTyped, Ends, Clients, Handlers
<1>2. Append(wire["connect"], "eof") = wire["connect"] \o <<"eof">>
  BY <1>1
<1>3. wire'["connect"] = wire["connect"] \o <<"eof">> /\ wire'["relay_a"] = wire["relay_a"]
  BY <1>2 DEF WiresTyped, Ends, Clients, Handlers
<1>4. EndsLast(wire'["relay_a"]) /\ EndsLast(wire'["connect"])
  BY <1>1, <1>3, EndsLastOneMore, Zenon DEF ToConnect, EndsAreLast
<1>5. ASSUME NEW x
      PROVE  Count(wire'["connect"], x) = ToConnect(x) + (IF "eof" = x THEN 1 ELSE 0)
  <2>1. Count(wire["connect"] \o <<"eof">>, x)
            = Count(wire["connect"], x) + (IF "eof" = x THEN 1 ELSE 0)
    BY <1>1, CountOneMore
  <2> QED
    BY <1>3, <2>1, Zenon DEF ToConnect
<1> QED
  BY <1>3, <1>4, <1>5 DEF ToRelay, ToConnect, EndsAreLast, EndsLast

LEMMA RelayWaits ==
    ASSUME WiresTyped, wire["relay_a"] = <<>>
    PROVE  \A x : ToRelay(x) = 0
BY CountEmpty DEF ToRelay

\* An end that does not bridge has not passed on an end.
LEMMA NoEndBefore ==
    ASSUME WiresTyped, OutputFlows, NEW e \in Ends, at[e] \notin {"bridge", "ended"}
    PROVE  NoEndFrom(e)
BY CountsAre DEF OutputFlows, NoEndFrom

OutputIsSafe == ReadyIsMeant /\ OutputFlows /\ CleanExitIsComplete

\* A step that sends no output and no Ready, ends no bridge before its time
\* unless something broke, and grants nothing that was not there.
Ordinary ==
    /\ KeepsOutput /\ UNCHANGED <<sent, received>> /\ (broken => broken')
    /\ exit' = exit \/ (exit' = "error" /\ at'["connect"] = "ended")
    /\ \A e \in {"relay_c", "agent"} :
           /\ done'[e] = done[e] \/ (at[e] = "bridge" /\ done'[e] = done[e] \cup {"up"})
           /\ Bridged(e) => Bridged(e)'
           /\ at[e] \in {"bridge", "ended"} => at'[e] \in {"bridge", "ended"}
           /\ at[e] = "ended" => at'[e] = "ended"
    /\ at["connect"] = "ended" => at'["connect"] = "ended"
    /\ at'["connect"] = "bridge" => at["connect"] = "bridge" \/ ToConnect("Ready") > 0
    /\ \/ answer' = answer
       \/ at["relay_c"] = "opening" /\ (answer' = "stream" => Bridged("agent"))

LEMMA OrdinaryKeeps ==
    ASSUME OutputIsSafe, Ordinary
    PROVE  OutputIsSafe'
<1>1. ReadyIsMeant'
  <2>1. Bridged("relay_c") => at["relay_c"] # "opening"
    BY DEF Bridged
  <2>2. Bridged("agent") => Bridged("agent")'
    BY DEF Ordinary
  <2>3. Bridged("relay_c") => Bridged("relay_c")'
    BY DEF Ordinary
  <2> QED
    BY <2>1, <2>2, <2>3 DEF OutputIsSafe, ReadyIsMeant, Ordinary, KeepsOutput
<1>2. OutputFlows'
  BY DEF OutputIsSafe, OutputFlows, Ordinary, KeepsOutput
<1>3. CleanExitIsComplete'
  BY DEF OutputIsSafe, CleanExitIsComplete, Ordinary
<1> QED
  BY <1>1, <1>2, <1>3 DEF OutputIsSafe

\* What the SSH server sent is received, on its way, or lost to something that broke.
LEMMA OutputStep ==
    WiresTyped /\ PlacesTyped /\ ValuesTyped /\ HandlersMeet /\ OutputIsSafe
    /\ [Next]_vars
        => OutputIsSafe'
<1> SUFFICES ASSUME WiresTyped, PlacesTyped, ValuesTyped, HandlersMeet,
                    OutputIsSafe, [Next]_vars
             PROVE  OutputIsSafe'
  OBVIOUS
<1>0. /\ WiresTyped /\ EndsAreLast /\ OutputFlows /\ ReadyIsMeant
      /\ {"connect", "relay_c", "agent", "relay_a"} \subseteq Ends
      /\ Clients \subseteq Ends /\ Handlers \subseteq Ends
      /\ \A e \in Ends : at[e] \notin {"bridge", "ended"} => NoEndFrom(e)
  BY NoEndBefore DEF OutputIsSafe, OutputFlows, EndsAreLast, Ends, Clients, Handlers
<1>t. /\ at \in [Ends -> Labels]
      /\ done \in [{"connect", "relay_c", "agent"} -> SUBSET {"up", "down"}]
      /\ \A e \in Ends : e \in {"connect", "relay_c", "agent", "relay_a"}
      /\ \A x : ToRelay(x) \in Nat /\ ToConnect(x) \in Nat
  BY <1>0, CountsAre DEF PlacesTyped, ValuesTyped, Ends, Clients, Handlers
<1>1. ASSUME NEW e \in Clients, Dial(e)
      PROVE  OutputIsSafe'
  <2>1. KeepsOutput
    BY <1>0, <1>1, SilenceKeeps DEF Dial
  <2>2. Ordinary
    BY <1>0, <1>t, <1>1, <2>1 DEF Ordinary, Dial, Wait, Drop, Reply, shared,
         bridgeVars, Receiving, Clients, Handlers, Bridged
  <2> QED
    BY <2>2, OrdinaryKeeps, Zenon
<1>2. ASSUME NEW e \in Clients, Connected(e)
      PROVE  OutputIsSafe'
  <2>1. KeepsOutput
    BY <1>0, <1>2, SayKeeps, HearKeeps, PlainAre DEF Connected, Clients,
         Handlers
  <2>2. Ordinary
    BY <1>0, <1>t, <1>2, <2>1 DEF Ordinary, Connected, Wait, Drop, Reply,
         shared, bridgeVars, Receiving, Clients, Handlers, Bridged
  <2> QED
    BY <2>2, OrdinaryKeeps, Zenon
<1>3. ASSUME NEW e \in Clients, HearMessage2(e)
      PROVE  OutputIsSafe'
  <2>1. KeepsOutput
    BY <1>0, <1>3, SayKeeps, HearKeeps, PlainAre DEF HearMessage2, Clients,
         Handlers
  <2>2. Ordinary
    BY <1>0, <1>t, <1>3, <2>1 DEF Ordinary, HearMessage2, Wait, Drop, Reply,
         shared, bridgeVars, Receiving, Clients, Handlers, Bridged
  <2> QED
    BY <2>2, OrdinaryKeeps, Zenon
<1>4. CASE ConnectHelloOk
  <2>1. KeepsOutput
    BY <1>0, <1>4, SayKeeps, HearKeeps, PlainAre DEF ConnectHelloOk, Clients,
         Handlers
  <2>2. Ordinary
    BY <1>0, <1>t, <1>4, <2>1 DEF Ordinary, ConnectHelloOk, Wait, Drop, Reply,
         shared, bridgeVars, Receiving, Clients, Handlers, Bridged
  <2> QED
    BY <2>2, OrdinaryKeeps, Zenon
<1>5. CASE AgentHelloOk
  <2>1. KeepsOutput
    BY <1>0, <1>5, SayKeeps, HearKeeps, PlainAre DEF AgentHelloOk, Clients,
         Handlers
  <2>2. Ordinary
    BY <1>0, <1>t, <1>5, <2>1 DEF Ordinary, AgentHelloOk, Wait, Drop, Reply,
         shared, bridgeVars, Receiving, Clients, Handlers, Bridged
  <2> QED
    BY <2>2, OrdinaryKeeps, Zenon
<1>6. ASSUME NEW e \in Handlers, Accept(e)
      PROVE  OutputIsSafe'
  <2>1. KeepsOutput
    BY <1>0, <1>6, SilenceKeeps DEF Accept
  <2>2. Ordinary
    BY <1>0, <1>t, <1>6, <2>1 DEF Ordinary, Accept, Wait, Drop, Reply, shared,
         bridgeVars, Receiving, Clients, Handlers, Bridged
  <2> QED
    BY <2>2, OrdinaryKeeps, Zenon
<1>7. ASSUME NEW e \in Handlers, HearMessage1(e)
      PROVE  OutputIsSafe'
  <2>1. KeepsOutput
    BY <1>0, <1>7, SayKeeps, HearKeeps, PlainAre DEF HearMessage1, Clients,
         Handlers
  <2>2. Ordinary
    BY <1>0, <1>t, <1>7, <2>1 DEF Ordinary, HearMessage1, Wait, Drop, Reply,
         shared, bridgeVars, Receiving, Clients, Handlers, Bridged
  <2> QED
    BY <2>2, OrdinaryKeeps, Zenon
<1>8. ASSUME NEW e \in Handlers, HearMessage3(e)
      PROVE  OutputIsSafe'
  <2>1. KeepsOutput
    BY <1>0, <1>8, SayKeeps, HearKeeps, PlainAre DEF HearMessage3, Clients,
         Handlers
  <2>2. Ordinary
    BY <1>0, <1>t, <1>8, <2>1 DEF Ordinary, HearMessage3, Wait, Drop, Reply,
         shared, bridgeVars, Receiving, Clients, Handlers, Bridged
  <2> QED
    BY <2>2, OrdinaryKeeps, Zenon
<1>9. ASSUME NEW e \in Handlers, HearHello(e)
      PROVE  OutputIsSafe'
  <2>1. KeepsOutput
    BY <1>0, <1>9, SayKeeps, HearKeeps, PlainAre DEF HearHello, Clients,
         Handlers
  <2>2. Ordinary
    BY <1>0, <1>t, <1>9, <2>1 DEF Ordinary, HearHello, Wait, Drop, Reply,
         shared, bridgeVars, Receiving, Clients, Handlers, Bridged
  <2> QED
    BY <2>2, OrdinaryKeeps, Zenon
<1>10. CASE HearRequest
  <2>1. KeepsOutput
    BY <1>0, <1>10, SayKeeps, HearKeeps, PlainAre DEF HearRequest, Clients,
         Handlers
  <2>2. Ordinary
    BY <1>0, <1>t, <1>10, <2>1 DEF Ordinary, HearRequest, Wait, Drop, Reply,
         shared, bridgeVars, Receiving, Clients, Handlers, Bridged
  <2> QED
    BY <2>2, OrdinaryKeeps, Zenon
<1>11. CASE HandlerGrants
  <2>1. CASE Say("relay_c", <<"Ready">>) /\ Wait("relay_c", "bridge", Off)
    <3>1. ToConnect("eof") = 0
      BY <1>0, <1>11 DEF HandlerGrants, NoEndFrom
    <3>2. /\ EndsAreLast'
          /\ \A x : /\ ToConnect(x)' = ToConnect(x) + (IF "Ready" = x THEN 1 ELSE 0)
                    /\ ToRelay(x)' = ToRelay(x)
      BY <1>0, <2>1, <3>1, RelaySays DEF Messages, Receiving
    <3>3. at'["relay_c"] = "bridge" /\ \A e \in Ends : e # "relay_c" => at'[e] = at[e]
      BY <1>0, <1>t, <2>1 DEF Wait
    <3> QED
      BY <1>0, <1>t, <1>11, <3>2, <3>3
         DEF HandlerGrants, shared, bridgeVars, OutputIsSafe, ReadyIsMeant, OutputFlows,
             CleanExitIsComplete, Bridged, EndsAreLast
  <2>2. CASE at["connect"] = "ended" /\ Drop({"relay_c", "relay_a"}) /\ UNCHANGED wire
    <3>1. KeepsOutput
      BY <1>0, <2>2, SilenceKeeps
    <3>2. Ordinary
      BY <1>0, <1>t, <1>11, <2>2, <3>1
         DEF Ordinary, HandlerGrants, Drop, shared, bridgeVars, Bridged
    <3> QED
      BY <3>2, OrdinaryKeeps, Zenon
  <2> QED
    BY <1>11, <2>1, <2>2 DEF HandlerGrants
<1>12. CASE HandlerRefuses
  <2>1. KeepsOutput
    BY <1>0, <1>12, SayKeeps, HearKeeps, PlainAre DEF HandlerRefuses, Clients,
         Handlers
  <2>2. Ordinary
    BY <1>0, <1>t, <1>12, <2>1 DEF Ordinary, HandlerRefuses, Wait, Drop, Reply,
         shared, bridgeVars, Receiving, Clients, Handlers, Bridged
  <2> QED
    BY <2>2, OrdinaryKeeps, Zenon
<1>13. CASE OpenExpires
  <2>1. KeepsOutput
    BY <1>0, <1>13, SayKeeps, HearKeeps, PlainAre DEF OpenExpires, Clients,
         Handlers
  <2>2. Ordinary
    BY <1>0, <1>t, <1>13, <2>1 DEF Ordinary, OpenExpires, Wait, Drop, Reply,
         shared, bridgeVars, Receiving, Clients, Handlers, Bridged
  <2> QED
    BY <2>2, OrdinaryKeeps, Zenon
<1>14. CASE HearResponse
  <2>1. CASE Hear("connect", "Ready", <<>>) /\ Wait("connect", "bridge", Off)
    <3>1. KeepsOutput
      BY <1>0, <2>1, HearKeeps, PlainAre
    <3>2. ToConnect("Ready") > 0
      BY <1>0, <1>t, <2>1, ConnectHears
    <3>3. Ordinary
      BY <1>0, <1>t, <1>14, <2>1, <3>1, <3>2
         DEF Ordinary, HearResponse, Wait, shared, bridgeVars, Bridged
    <3> QED
      BY <3>3, OrdinaryKeeps, Zenon
  <2>2. CASE /\ Hear("connect", "Failed", <<>>) \/ Hear("connect", "DeviceList", <<>>)
             /\ Drop({"connect"})
    <3>1. KeepsOutput
      BY <1>0, <2>2, HearKeeps, PlainAre
    <3>2. Ordinary
      BY <1>0, <1>t, <1>14, <2>2, <3>1
         DEF Ordinary, HearResponse, Drop, shared, bridgeVars, Bridged
    <3> QED
      BY <3>2, OrdinaryKeeps, Zenon
  <2> QED
    BY <1>14, <2>1, <2>2 DEF HearResponse
<1>15. CASE HearAttach
  <2>1. KeepsOutput
    BY <1>0, <1>15, SayKeeps, HearKeeps, PlainAre DEF HearAttach, Clients,
         Handlers
  <2>2. Ordinary
    BY <1>0, <1>t, <1>15, <2>1 DEF Ordinary, HearAttach, Wait, Drop, Reply,
         shared, bridgeVars, Receiving, Clients, Handlers, Bridged
  <2> QED
    BY <2>2, OrdinaryKeeps, Zenon
<1>16. CASE HearReady
  <2>1. KeepsOutput
    BY <1>0, <1>16, HearKeeps, PlainAre DEF HearReady
  <2>2. Hear("relay_a", "Ready", <<>>) => Bridged("agent")
    <3> SUFFICES ASSUME Hear("relay_a", "Ready", <<>>) PROVE Bridged("agent")
      OBVIOUS
    <3>1. wire["relay_a"] \in Seq(Messages) /\ wire["relay_a"] # <<>>
          /\ Head(wire["relay_a"]) = "Ready"
      BY <1>0 DEF WiresTyped, Hear
    <3>2. ToRelay("Ready") > 0
      BY <1>0, <3>1, Taken DEF ToRelay, EndsAreLast
    <3> QED
      BY <1>0, <3>2 DEF ReadyIsMeant
  <2>3. Ordinary
    <3>1. \/ answer' = answer
          \/ at["relay_c"] = "opening" /\ (answer' = "stream" => Bridged("agent"))
      BY <1>16, <2>2 DEF HearReady, Reply
    <3>2. at["relay_a"] = "Ready" /\ \A e \in Ends : e # "relay_a" => at'[e] = at[e]
      BY <1>0, <1>t, <1>16 DEF HearReady, Wait, Drop
    <3> QED
      BY <1>0, <1>t, <1>16, <2>1, <3>1, <3>2 DEF Ordinary, HearReady, bridgeVars, Bridged
  <2> QED
    BY <2>3, OrdinaryKeeps, Zenon
<1>17. CASE HearAccepted
  <2>1. KeepsOutput
    BY <1>0, <1>17, SayKeeps, HearKeeps, PlainAre DEF HearAccepted, Clients,
         Handlers
  <2>2. Ordinary
    BY <1>0, <1>t, <1>17, <2>1 DEF Ordinary, HearAccepted, Wait, Drop, Reply,
         shared, bridgeVars, Receiving, Clients, Handlers, Bridged
  <2> QED
    BY <2>2, OrdinaryKeeps, Zenon
<1>18. CASE LocalConnect
  <2>1. CASE Say("agent", <<"Ready">>) /\ Wait("agent", "bridge", Off)
    <3>1. ToRelay("eof") = 0
      BY <1>0, <1>18 DEF LocalConnect, NoEndFrom
    <3>2. /\ EndsAreLast'
          /\ \A x : /\ ToRelay(x)' = ToRelay(x) + (IF "Ready" = x THEN 1 ELSE 0)
                    /\ ToConnect(x)' = ToConnect(x)
      BY <1>0, <2>1, <3>1, AgentSays DEF Messages, Receiving
    <3>3. at'["agent"] = "bridge" /\ \A e \in Ends : e # "agent" => at'[e] = at[e]
      BY <1>0, <1>t, <2>1 DEF Wait
    <3> QED
      BY <1>0, <1>t, <1>18, <3>2, <3>3
         DEF LocalConnect, shared, bridgeVars, OutputIsSafe, ReadyIsMeant, OutputFlows,
             CleanExitIsComplete, Bridged, EndsAreLast
  <2>2. CASE Say("agent", <<"Failed">>) /\ Drop({"agent"})
    <3>1. KeepsOutput
      BY <1>0, <1>18, <2>2, SayKeeps, PlainAre DEF LocalConnect
    <3>2. Ordinary
      BY <1>0, <1>t, <1>18, <2>2, <3>1
         DEF Ordinary, LocalConnect, Drop, shared, bridgeVars, Bridged
    <3> QED
      BY <3>2, OrdinaryKeeps, Zenon
  <2> QED
    BY <1>18, <2>1, <2>2 DEF LocalConnect
<1>19. ASSUME NEW e \in Ends, Timeout(e)
      PROVE  OutputIsSafe'
  <2>1. KeepsOutput
    BY <1>0, <1>19, SilenceKeeps DEF Timeout, Fail
  <2>2. Ordinary
    BY <1>0, <1>t, <1>19, <2>1 DEF Ordinary, Timeout, Fail, Wait, Drop, Reply,
         shared, bridgeVars, Receiving, Clients, Handlers, Bridged
  <2> QED
    BY <2>2, OrdinaryKeeps, Zenon
<1>20. ASSUME NEW e \in Ends, Break(e)
      PROVE  OutputIsSafe'
  <2>1. KeepsOutput
    BY <1>0, <1>20, SilenceKeeps DEF Break, Fail
  <2>2. Ordinary
    BY <1>0, <1>t, <1>20, <2>1 DEF Ordinary, Break, Fail, Wait, Drop, Reply,
         shared, bridgeVars, Receiving, Clients, Handlers, Bridged
  <2> QED
    BY <2>2, OrdinaryKeeps, Zenon
<1>21. ASSUME NEW e \in Ends, SeeEnd(e)
      PROVE  OutputIsSafe'
  <2>1. KeepsOutput
    BY <1>0, <1>21, SilenceKeeps DEF SeeEnd, Fail
  <2>2. Ordinary
    BY <1>0, <1>t, <1>21, <2>1 DEF Ordinary, SeeEnd, Fail, Wait, Drop, Reply,
         shared, bridgeVars, Receiving, Clients, Handlers, Bridged
  <2> QED
    BY <2>2, OrdinaryKeeps, Zenon
<1>22. CASE Upload
  <2>1. KeepsOutput
    <3>1. \A m \in Messages : Say("connect", <<m>>) => KeepsOutput
      <4> SUFFICES ASSUME NEW m \in Messages, Say("connect", <<m>>) PROVE KeepsOutput
        OBVIOUS
      <4>1. wire'["relay_a"] = wire["relay_a"] /\ wire'["connect"] = wire["connect"]
        BY <1>0 DEF Say, Peer, WiresTyped
      <4> QED
        BY <1>0, <4>1 DEF KeepsOutput, EndsAreLast, EndsLast, ToRelay, ToConnect
    <3> QED
      BY <1>22, <3>1, MessagesAre DEF Upload
  <2>2. Ordinary
    BY <1>0, <1>t, <1>22, <2>1 DEF Ordinary, Upload, End, shared, Bridged
  <2> QED
    BY <2>2, OrdinaryKeeps, Zenon
<1>23. CASE Download
  <2>1. at["connect"] = "bridge" /\ UNCHANGED <<answer, done, sent, broken>>
    BY <1>23 DEF Download, Bridging, shared
  <2>2. Bridged("relay_c") /\ answer = "stream" /\ exit = "none"
    BY <1>0, <2>1 DEF ReadyIsMeant, OutputFlows
  <2>3. ASSUME Hear("connect", "data", <<>>), received' = received + 1,
               UNCHANGED <<at, timer, exit>>
        PROVE  OutputIsSafe'
    <3>1. /\ EndsAreLast'
          /\ ToConnect("data") = ToConnect("data")' + 1 /\ ToConnect("data")' \in Nat
          /\ ToConnect("eof") = ToConnect("eof")' /\ ToConnect("Ready") = ToConnect("Ready")'
          /\ ToRelay("data")' = ToRelay("data") /\ ToRelay("eof")' = ToRelay("eof")
          /\ ToRelay("Ready")' = ToRelay("Ready")
      BY <1>0, <1>t, <2>3, ConnectHears
    <3>2. received \in Nat /\ sent \in Nat
      BY DEF ValuesTyped
    <3> QED
      BY <1>0, <1>t, <2>1, <2>2, <2>3, <3>1, <3>2, SMTT(30) DEF OutputIsSafe, ReadyIsMeant,
         OutputFlows, CleanExitIsComplete, Bridged, EndsAreLast
  <2>4. ASSUME Hear("connect", "eof", <<>>), Drop({"connect"}), exit' = "ok",
               UNCHANGED received
        PROVE  OutputIsSafe'
    <3>1. /\ EndsAreLast' /\ ToConnect("eof") = ToConnect("eof")' + 1
          /\ ToConnect("data") = ToConnect("data")' /\ ToConnect("data")' = 0
          /\ ToConnect("eof")' = 0 /\ ToConnect("Ready")' = 0
          /\ ToRelay("data")' = ToRelay("data") /\ ToRelay("eof")' = ToRelay("eof")
          /\ ToRelay("Ready")' = ToRelay("Ready")
      BY <1>0, <1>t, <2>4, ConnectHears
    <3>2. at'["connect"] = "ended" /\ \A e \in Ends : e # "connect" => at'[e] = at[e]
      BY <1>0, <1>t, <2>4 DEF Drop
    <3>3. received \in Nat /\ sent \in Nat
      BY DEF ValuesTyped
    <3>4. "down" \in done["relay_c"]
      BY <1>0, <3>1 DEF OutputFlows
    <3>5. ~broken => "down" \in done["agent"] /\ received = sent
      BY <1>0, <3>1, <3>3, <3>4 DEF OutputFlows
    <3> QED
      BY <1>0, <1>t, <2>1, <2>2, <2>4, <3>1, <3>2, <3>3, <3>4, <3>5 DEF OutputIsSafe,
         ReadyIsMeant, OutputFlows, CleanExitIsComplete, Bridged, EndsAreLast
  <2>5. ASSUME wire["connect"] = <<>>, at["relay_c"] = "ended", UNCHANGED wire,
               Drop({"connect"}), exit' = "ok", UNCHANGED received
        PROVE  OutputIsSafe'
    <3>1. ToConnect("eof") = 0
      BY <2>5, CountEmpty DEF ToConnect
    <3>2. broken
      <4>1. "down" \notin done["relay_c"]
        BY <1>0, <2>1, <3>1 DEF OutputFlows
      <4> QED
        BY <2>2, <2>5, <4>1 DEF Bridged
    <3>3. at'["connect"] = "ended" /\ \A e \in Ends : e # "connect" => at'[e] = at[e]
      BY <1>0, <1>t, <2>5 DEF Drop
    <3>4. /\ EndsAreLast' /\ \A x : ToConnect(x)' = ToConnect(x) /\ ToRelay(x)' = ToRelay(x)
      BY <1>0, <2>5 DEF EndsAreLast, EndsLast, ToConnect, ToRelay
    <3> QED
      BY <1>0, <1>t, <2>1, <2>2, <2>5, <3>2, <3>3, <3>4 DEF OutputIsSafe,
         ReadyIsMeant, OutputFlows, CleanExitIsComplete, Bridged, EndsAreLast
  <2> QED
    BY <1>23, <2>3, <2>4, <2>5 DEF Download
<1>24. CASE Pipe("up", "relay_c", "agent")
  <2>1. wire'["relay_a"] = wire["relay_a"] /\ wire'["connect"] = wire["connect"]
    BY <1>0, <1>24 DEF Pipe, WiresTyped
  <2>2. KeepsOutput
    BY <1>0, <2>1 DEF KeepsOutput, EndsAreLast, EndsLast, ToRelay, ToConnect
  <2>3. Ordinary
    BY <1>0, <1>t, <1>24, <2>2 DEF Ordinary, Pipe, End, Bridging, shared, Bridged
  <2> QED
    BY <2>3, OrdinaryKeeps, Zenon
<1>25. CASE Pipe("down", "relay_a", "connect")
  <2>1. /\ at["relay_c"] = "bridge" /\ "down" \notin done["relay_c"]
        /\ UNCHANGED <<at, answer, sent, received, exit, broken>>
    BY <1>25 DEF Pipe, Bridging, shared
  <2>2. ToConnect("eof") = 0
    BY <1>0, <1>t, <2>1 DEF OutputFlows
  <2>3. ASSUME wire["relay_a"] # <<>>
        PROVE  OutputIsSafe'
    <3>1. /\ wire' = [wire EXCEPT !["relay_a"] = Tail(@),
                                  !["connect"] = Append(@, Head(wire["relay_a"]))]
          /\ done' = IF Head(wire["relay_a"]) = "eof"
                     THEN [done EXCEPT !["relay_c"] = @ \cup {"down"}] ELSE done
      BY <1>25, <2>3 DEF Pipe, End
    <3>2. /\ EndsAreLast' /\ (Head(wire["relay_a"]) = "eof" => wire'["relay_a"] = <<>>)
          /\ \A x \in {"Ready", "data", "eof"} :
                 LET n == IF Head(wire["relay_a"]) = x THEN 1 ELSE 0 IN
                 /\ ToRelay(x) = ToRelay(x)' + n /\ ToRelay(x)' \in Nat
                 /\ ToConnect(x)' = ToConnect(x) + n
      BY <1>0, <2>2, <2>3, <3>1, RelayPasses
    <3>3. Head(wire["relay_a"]) = "eof" =>
              ToRelay("data")' = 0 /\ ToRelay("eof")' = 0
      BY <3>2, CountEmpty DEF ToRelay
    <3>4. CASE Head(wire["relay_a"]) = "eof"
      <4>1. /\ ToRelay("eof") > 0 /\ ToRelay("Ready")' = ToRelay("Ready")
            /\ ToConnect("Ready")' = ToConnect("Ready")
            /\ ToConnect("data")' = ToConnect("data") /\ ToRelay("data")' = ToRelay("data")
            /\ ToConnect("eof")' = 1
        BY <1>t, <2>2, <3>2, <3>4
      <4>2. /\ done'["relay_c"] = done["relay_c"] \cup {"down"}
            /\ done'["agent"] = done["agent"]
        BY <1>t, <3>1, <3>4
      <4> QED
        BY <1>0, <1>t, <2>1, <3>2, <3>3, <4>1, <4>2 DEF OutputIsSafe, ReadyIsMeant,
           OutputFlows, CleanExitIsComplete, Bridged, EndsAreLast
    <3>5. CASE Head(wire["relay_a"]) # "eof"
      <4>1. /\ ToRelay("eof")' = ToRelay("eof") /\ ToConnect("eof")' = ToConnect("eof")
            /\ ToRelay("data")' + ToConnect("data")' = ToRelay("data") + ToConnect("data")
            /\ ToRelay("Ready")' > 0 => ToRelay("Ready") > 0
        BY <1>t, <3>2, <3>5
      <4>2. done' = done /\ ToRelay("data")' \in Nat /\ ToConnect("data")' \in Nat
        BY <1>t, <3>1, <3>2, <3>5
      <4>3. answer = "stream" /\ Bridged("relay_c")
        BY <1>0, <1>t, <2>1, <3>2 DEF HandlersMeet, Bridged
      <4> QED
        <5>1. ReadyIsMeant'
          BY <1>0, <2>1, <4>1, <4>2, <4>3 DEF ReadyIsMeant, Bridged
        <5>2. OutputFlows'
          <6>1. sent' = received' + ToRelay("data")' + ToConnect("data")'
            BY <1>0, <1>t, <2>1, <4>1, <4>2 DEF OutputFlows, ValuesTyped
          <6>2. (EndsLast(wire["relay_a"]) /\ EndsLast(wire["connect"]))'
            BY <3>2 DEF EndsAreLast
          <6> QED
            BY <1>0, <2>1, <4>1, <4>2, <6>1, <6>2 DEF OutputFlows
        <5> QED
          BY <2>1, <4>2, <5>1, <5>2 DEF OutputIsSafe, CleanExitIsComplete
    <3> QED
      BY <3>4, <3>5
  <2>4. ASSUME wire["relay_a"] = <<>>
        PROVE  OutputIsSafe'
    <3>1. /\ wire' = [wire EXCEPT !["connect"] = Append(@, "eof")]
          /\ at["agent"] = "ended" /\ done' = [done EXCEPT !["relay_c"] = @ \cup {"down"}]
      BY <1>25, <2>4 DEF Pipe, End, Peer
    <3>2. /\ EndsAreLast'
          /\ \A x \in {"Ready", "data", "eof"} :
                 /\ ToRelay(x)' = ToRelay(x)
                 /\ ToConnect(x)' = ToConnect(x) + (IF "eof" = x THEN 1 ELSE 0)
      BY <1>0, <2>2, <3>1, RelayCloses
    <3>3. \A x : ToRelay(x) = 0
      BY <1>0, <2>4, RelayWaits
    <3>4. /\ done'["relay_c"] = done["relay_c"] \cup {"down"}
          /\ done'["agent"] = done["agent"]
      BY <1>t, <3>1
    <3>5. broken \/ "down" \in done["agent"]
      <4>1. answer = "stream"
        BY <2>1 DEF HandlersMeet
      <4>2. Bridged("agent")
        BY <1>0, <4>1 DEF ReadyIsMeant
      <4> QED
        BY <3>1, <4>2 DEF Bridged
    <3> QED
      BY <1>0, <1>t, <2>1, <2>2, <3>1, <3>2, <3>3, <3>4, <3>5 DEF OutputIsSafe,
         ReadyIsMeant, OutputFlows, CleanExitIsComplete, Bridged, EndsAreLast
  <2> QED
    BY <2>3, <2>4
<1>26. CASE Serve
  <2>1. at["agent"] = "bridge" /\ UNCHANGED <<at, answer, received, exit, broken>>
    BY <1>26 DEF Serve, Bridging, shared
  <2>2. ASSUME wire'["relay_a"] = wire["relay_a"], wire'["connect"] = wire["connect"],
               done' = done \/ End("agent", "up"), UNCHANGED sent
        PROVE  OutputIsSafe'
    <3>1. KeepsOutput
      BY <1>0, <2>2 DEF KeepsOutput, EndsAreLast, EndsLast, ToRelay, ToConnect
    <3>2. Ordinary
      BY <1>0, <1>t, <2>1, <2>2, <3>1 DEF Ordinary, End, Bridged
    <3> QED
      BY <3>2, OrdinaryKeeps, Zenon
  <2>3. \A m : Hear("agent", m, <<>>) =>
            wire'["relay_a"] = wire["relay_a"] /\ wire'["connect"] = wire["connect"]
    BY <1>0 DEF Hear, Peer, WiresTyped
  <2>4. ASSUME "down" \notin done["agent"], Say("agent", <<"data">>), sent' = sent + 1,
               UNCHANGED done
        PROVE  OutputIsSafe'
    <3>1. ToRelay("eof") = 0
      BY <1>0, <1>t, <2>4 DEF OutputFlows
    <3>2. /\ EndsAreLast'
          /\ \A x : /\ ToRelay(x)' = ToRelay(x) + (IF "data" = x THEN 1 ELSE 0)
                    /\ ToConnect(x)' = ToConnect(x)
      BY <1>0, <2>4, <3>1, AgentSays, MessagesAre
    <3>3. received \in Nat /\ sent \in Nat
      BY DEF ValuesTyped
    <3>4. "down" \in done["relay_c"] => broken
      BY <1>0, <2>4 DEF OutputFlows
    <3> QED
      BY <1>0, <1>t, <2>1, <2>4, <3>1, <3>2, <3>3, <3>4 DEF OutputIsSafe, ReadyIsMeant,
         OutputFlows, CleanExitIsComplete, Bridged, EndsAreLast
  <2> QED
    BY <1>26, <2>2, <2>3, <2>4 DEF Serve
<1>27. CASE ServerEnds
  <2>1. /\ at["agent"] = "bridge" /\ "down" \notin done["agent"]
        /\ Say("agent", <<"eof">>) /\ done' = [done EXCEPT !["agent"] = @ \cup {"down"}]
        /\ UNCHANGED <<at, answer, sent, received, exit, broken>>
    BY <1>27 DEF ServerEnds, Bridging, End, shared
  <2>2. ToRelay("eof") = 0
    BY <1>0, <1>t, <2>1 DEF OutputFlows
  <2>3. /\ EndsAreLast'
        /\ \A x : /\ ToRelay(x)' = ToRelay(x) + (IF "eof" = x THEN 1 ELSE 0)
                  /\ ToConnect(x)' = ToConnect(x)
    BY <1>0, <2>1, <2>2, AgentSays, MessagesAre
  <2>4. /\ done'["agent"] = done["agent"] \cup {"down"}
        /\ done'["relay_c"] = done["relay_c"]
    BY <1>t, <2>1
  <2>5. "down" \notin done["relay_c"]
    BY <1>0, <2>1 DEF OutputFlows
  <2> QED
    BY <1>0, <1>t, <2>1, <2>2, <2>3, <2>4, <2>5 DEF OutputIsSafe, ReadyIsMeant,
       OutputFlows, CleanExitIsComplete, Bridged, EndsAreLast
<1>28. ASSUME NEW e \in Ends, BridgeEnds(e)
      PROVE  OutputIsSafe'
  <2>1. KeepsOutput
    BY <1>0, <1>28, SilenceKeeps DEF BridgeEnds
  <2>2. Ordinary
    BY <1>0, <1>t, <1>28, <2>1 DEF Ordinary, BridgeEnds, Wait, Drop, Reply,
         shared, bridgeVars, Receiving, Clients, Handlers, Bridged
  <2> QED
    BY <2>2, OrdinaryKeeps, Zenon
<1>29. ASSUME NEW e \in Ends, BridgeFails(e)
      PROVE  OutputIsSafe'
  <2>1. KeepsOutput
    BY <1>0, <1>29, SilenceKeeps DEF BridgeFails
  <2>2. Ordinary
    BY <1>0, <1>t, <1>29, <2>1 DEF Ordinary, BridgeFails, Wait, Drop, Reply,
         shared, bridgeVars, Receiving, Clients, Handlers, Bridged
  <2> QED
    BY <2>2, OrdinaryKeeps, Zenon
<1>30. CASE Tick
  <2>1. KeepsOutput
    BY <1>0, <1>30, SilenceKeeps DEF Tick
  <2>2. Ordinary
    BY <1>0, <1>t, <1>30, <2>1 DEF Ordinary, Tick, Wait, Drop, Reply, shared,
         bridgeVars, Receiving, Clients, Handlers, Bridged
  <2> QED
    BY <2>2, OrdinaryKeeps, Zenon
<1>31. CASE UNCHANGED vars
  BY <1>31 DEF vars, shared, bridgeVars, OutputIsSafe, ReadyIsMeant, OutputFlows,
     CleanExitIsComplete, Bridged, ToRelay, ToConnect, Count, EndsLast
<1> QED
  BY <1>1, <1>2, <1>3, <1>4, <1>5, <1>6, <1>7, <1>8, <1>9, <1>10, <1>11,
       <1>12, <1>13, <1>14, <1>15, <1>16, <1>17, <1>18, <1>19, <1>20, <1>21,
       <1>22, <1>23, <1>24, <1>25, <1>26, <1>27, <1>28, <1>29, <1>30, <1>31
       DEF Next, Bridges

-----------------------------------------------------------------------------
(* The theorems.                                                           *)

Parts ==
    /\ WiresTyped /\ TimersTyped /\ PlacesTyped /\ ValuesTyped /\ FlagsTyped
    /\ SlotsAreTimed /\ HandlersMeet /\ OutputIsSafe

LEMMA PartsInit == Init => Parts
<1> SUFFICES ASSUME Init PROVE Parts
  OBVIOUS
<1>1. \A e \in Ends : wire[e] = <<>> /\ timer[e] = Off
  BY DEF Init
<1>2. WiresTyped /\ TimersTyped
  <2>1. timer \in [Ends -> Int]
    BY Deadlines DEF Init
  <2>2. wire \in [Ends -> Seq(Messages)]
    BY DEF Init
  <2> QED
    BY <1>1, <2>1, <2>2, Deadlines DEF WiresTyped, TimersTyped
<1>3. PlacesTyped
  BY DEF Init, PlacesTyped, Labels, Unborn, Ends, Clients, Handlers
<1>4. ValuesTyped
  BY BoundsAssumption DEF Init, ValuesTyped
<1>5. FlagsTyped
  BY Zenon DEF Init, FlagsTyped
<1>6. SlotsAreTimed /\ HandlersMeet
  BY <1>3 DEF Init, SlotsAreTimed, HandlersMeet, PlacesTyped, Ends, Clients, Handlers
<1>7. OutputIsSafe
  <2>1. \A x : ToRelay(x) = 0 /\ ToConnect(x) = 0
    BY <1>1, CountEmpty DEF ToRelay, ToConnect, Ends, Clients, Handlers
  <2>2. EndsLast(wire["relay_a"]) /\ EndsLast(wire["connect"])
    BY <1>1 DEF EndsLast, Ends, Clients, Handlers
  <2>3. /\ answer = "empty" /\ exit = "none" /\ sent = 0 /\ received = 0
        /\ done["agent"] = {} /\ done["relay_c"] = {} /\ at["connect"] = "start"
    BY DEF Init, Ends, Clients, Handlers
  <2> QED
    BY <2>1, <2>2, <2>3
       DEF OutputIsSafe, ReadyIsMeant, OutputFlows, CleanExitIsComplete
<1> QED
  BY <1>2, <1>3, <1>4, <1>5, <1>6, <1>7 DEF Parts

\* The parts hold always: each step keeps every one of them.
LEMMA PartsAlways == Spec => []Parts
<1>1. Parts /\ [Next]_vars => Parts'
  BY WiresStep, TimersStep, PlacesStep, ValuesStep, FlagsStep, SlotsStep, MeetStep,
     OutputStep, Zenon DEF Parts
<1> QED
  BY PartsInit, <1>1, PTL DEF Spec

\* What is received was sent.
LEMMA Received ==
    ASSUME Parts
    PROVE  received \in 0..MaxOutput
<1>1. sent \in 0..MaxOutput /\ received \in Nat /\ MaxOutput \in Nat
  BY BoundsAssumption DEF Parts, ValuesTyped
<1>2. ToRelay("data") \in Nat /\ ToConnect("data") \in Nat
  BY CountsAre DEF Parts
<1>3. sent = received + ToRelay("data") + ToConnect("data")
  BY DEF Parts, OutputIsSafe, OutputFlows
<1> QED
  BY <1>1, <1>2, <1>3

LEMMA PartsAreTyped ==
    ASSUME Parts
    PROVE  TypeOK
<1>1. at \in [Ends -> Labels] /\ wire \in [Ends -> Seq(Messages)]
  BY DEF Parts, PlacesTyped, WiresTyped
<1>2. \A e \in Ends : timer[e] = Off \/ \E t \in Times : timer[e] \in 0..t
  BY Zenon DEF Parts, TimersTyped, Deadline
<1>3. pending \in BOOLEAN /\ told \in BOOLEAN /\ broken \in BOOLEAN
  BY Zenon DEF Parts, FlagsTyped
<1>4. {sent, received} \subseteq 0..MaxOutput
  BY Received DEF Parts, ValuesTyped
<1>5. /\ asks \in {"list", "open"} /\ answer \in {"empty", "stream", "error"}
      /\ done \in [{"connect", "relay_c", "agent"} -> SUBSET {"up", "down"}]
      /\ input \in 0..MaxInput /\ exit \in {"none", "ok", "error"}
      /\ age \in [Handlers -> Nat]
  BY Zenon DEF Parts, ValuesTyped
<1> QED
  BY <1>1, <1>2, <1>3, <1>4, <1>5, Zenon DEF TypeOK

\* The inductive invariant: types, labels and timers; what a handler has spent
\* and has left of its deadlines; the hand-off; where Ready and the output are.
THEOREM Invariant == Spec => []IInv
<1>1. Parts => IInv
  <2> SUFFICES ASSUME Parts PROVE IInv
    OBVIOUS
  <2>1. TypeOK
    BY PartsAreTyped
  <2>2. Placed
    BY Zenon DEF Parts, PlacesTyped, TimersTyped, Placed
  <2> QED
    BY <2>1, <2>2, Zenon DEF Parts, OutputIsSafe, IInv
<1> QED
  BY PartsAlways, <1>1, PTL

\* The state has its type: each end waits in a label of its own protocol, and
\* each running timer is what is left of one of the program's deadlines.
THEOREM TypeCorrect == Spec => []TypeOK
<1>1. IInv => TypeOK
  BY DEF IInv
<1> QED
  BY Invariant, <1>1, PTL

\* A connection that does not authenticate gives its slot back in the time of
\* the handshake and the Hello together, and one that does in the time of all
\* four deadlines, however slowly its messages come (handle_connection
\* 263-269 and the timeouts of server.rs); whatever the deadlines are.
THEOREM SlotsComeBack == Spec => []SlotsAreBrief
<1>1. Parts => SlotsAreBrief
  <2> SUFFICES ASSUME Parts, NEW e \in Handlers
               PROVE  /\ at[e] \in {"m1", "m3"} => age[e] <= HandshakeTime
                      /\ at[e] = "Hello" => age[e] <= HandshakeTime + HelloTime
                      /\ at[e] \notin Settled => age[e] <= MaxTime
    BY DEF SlotsAreBrief
  <2>1. age[e] \in Nat
    BY DEF Parts, ValuesTyped
  <2>2. at[e] \in {"listening", "m1", "m3", "Hello", "Request", "Attach", "opening",
                   "Ready"} \cup Settled
    BY DEF Parts, PlacesTyped, Handlers, Settled
  <2>3. /\ at[e] = "listening" => age[e] = 0
        /\ at[e] \in {"m1", "m3"} => Within(e, HandshakeTime, 0)
        /\ at[e] = "Hello" => Within(e, HelloTime, HandshakeTime)
        /\ at[e] \in {"Request", "Attach"} =>
               Within(e, RequestTime, HandshakeTime + HelloTime)
        /\ at[e] \in {"opening", "Ready"} =>
               Within(e, AnswerTime, HandshakeTime + HelloTime + RequestTime)
    BY Zenon DEF Parts, SlotsAreTimed
  <2>4. ASSUME NEW time \in Nat, NEW before \in Nat, Within(e, time, before)
        PROVE  age[e] <= before + time
    BY <2>1, <2>4 DEF Within
  <2>5. /\ at[e] \in {"m1", "m3"} => age[e] <= 0 + HandshakeTime
        /\ at[e] = "Hello" => age[e] <= HandshakeTime + HelloTime
        /\ at[e] \in {"Request", "Attach"} =>
               age[e] <= HandshakeTime + HelloTime + RequestTime
        /\ at[e] \in {"opening", "Ready"} =>
               age[e] <= HandshakeTime + HelloTime + RequestTime + AnswerTime
    BY <2>3, <2>4, TimesAre
  <2> QED
    BY <2>1, <2>2, <2>3, <2>5, TimesAre DEF MaxTime
<1> QED
  BY PartsAlways, <1>1, PTL

\* connect is told Ready only when the agent has reached its SSH server and
\* the relay holds both streams (run_session 354-378, handle_agent_session
\* 644-648): Ready is on its way to connect only from a handler that bridges,
\* which took a stream that the agent's Ready had put into the reply channel.
THEOREM ReadyIsKept == Spec => []ReadyMeansReached
<1>1. Parts => ReadyMeansReached
  <2> SUFFICES ASSUME Parts,
                      at["connect"] = "bridge" \/ "Ready" \in Range(wire["connect"])
               PROVE  /\ at["agent"] \in {"bridge", "ended"}
                      /\ at["relay_a"] = "handed" <=> at["relay_c"] = "bridge"
    BY DEF ReadyMeansReached
  <2>1. ToConnect("Ready") > 0 \/ at["connect"] = "bridge"
    <3>1. wire["connect"] \in Seq(Messages)
      BY DEF Parts, WiresTyped, Ends, Clients, Handlers
    <3>2. "Ready" \in Range(wire["connect"]) =>
              \E i \in DOMAIN wire["connect"] : wire["connect"][i] = "Ready"
      BY Zenon DEF Range
    <3>3. "Ready" \in Range(wire["connect"]) => ToConnect("Ready") > 0
      BY <3>1, <3>2, CountFinds, Zenon DEF ToConnect
    <3> QED
      BY <3>3
  <2>2. Bridged("relay_c") /\ answer = "stream" /\ Bridged("agent")
    BY <2>1, Zenon DEF Parts, OutputIsSafe, ReadyIsMeant
  <2> QED
    BY <2>2 DEF Parts, HandlersMeet, Bridged
<1> QED
  BY PartsAlways, <1>1, PTL

\* Unless a bridge failed, connect ends well only with all that the SSH server
\* sent (bridge.rs 29-51): the end of the output follows all of it through both
\* connections, and the relay passes an end on only after the agent's.
THEOREM NoOutputIsCutShort == Spec => []CleanExitIsComplete
<1>1. IInv => CleanExitIsComplete
  BY DEF IInv
<1> QED
  BY Invariant, <1>1, PTL

=============================================================================
