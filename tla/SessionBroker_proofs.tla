-------------------------- MODULE SessionBroker_proofs --------------------------
(***************************************************************************)
(* Theorems about SessionBroker, for every set of connections, every       *)
(* device and session id, and every limit.                                 *)
(***************************************************************************)
EXTENDS SessionBrokerRefines, FiniteSetTheorems, TLAPS

-----------------------------------------------------------------------------
(* The inductive invariant.                                                *)

\* What a handler's label says it has found.
HandlesAreSet ==
    /\ \A s \in Attachers :
           /\ attach[s] # "idle" => job[s] \in Jobs
           /\ attach[s] \in {"looked", "accepting", "awaiting"} =>
                  /\ attached[s] \in Agents
                  /\ DeviceOf[attached[s]] = job[s].device
    /\ \A c \in Controllers :
           ctl[c] \in {"looked", "queueing", "waiting", "expired", "disconnected"} =>
               /\ opened[c] \in Agents
               /\ DeviceOf[opened[c]] = Target[c]

\* A stream is in a reply channel, or with the handler that received it.
StreamsAreReplies ==
    \A c \in Controllers :
        /\ stream[c] # None =>
               /\ reply[c] = "stream"
               /\ ctl[c] \in {"queueing", "waiting", "granted", "bridging"}
        /\ ctl[c] \in {"new", "hello", "looked"} => reply[c] = "empty"
        /\ ctl[c] \in {"granted", "bridging"} => stream[c] # None
        /\ reply[c] = "stream" /\ ctl[c] \in {"queueing", "waiting"} => stream[c] # None

HandedHaveHolder ==
    \A s \in Attachers : attach[s] = "handed" => \E c \in Controllers : stream[c] = s

IInv ==
    /\ TypeOK /\ RegistryIsServed /\ UnstoppedIsReachable /\ HandlesAreSet
    /\ SendersHaveOneOwner /\ StreamsAreReplies /\ StreamsMatchRequests
    /\ HandedHaveHolder

-----------------------------------------------------------------------------
USE DEF AgentLabels, AttachLabels, CtlLabels, Jobs

-----------------------------------------------------------------------------
(* Types.                                                                  *)

\* The initial values have their types.
LEMMA TypeInit == Init => TypeOK
BY ConnectionsAssumption, RequestsAssumption, LimitsAssumption
   DEF Init, TypeOK

\* Every handler step keeps the types; what a handler uses, it has found.
LEMMA TypeStep ==
    TypeOK /\ HandlesAreSet /\ StreamsAreReplies /\ [Next]_vars => TypeOK'
<1> SUFFICES ASSUME TypeOK, HandlesAreSet, StreamsAreReplies, [Next]_vars
             PROVE  TypeOK'
  OBVIOUS
<1> USE RequestsAssumption, LimitsAssumption
        DEF TypeOK, agentVars, attachVars, ctlVars
<1>1. ASSUME NEW a \in Agents, AcceptAgent(a)
      PROVE  TypeOK'
  BY <1>1 DEF AcceptAgent
<1>2. ASSUME NEW a \in Agents, AgentHelloFails(a)
      PROVE  TypeOK'
  BY <1>2 DEF AgentHelloFails
<1>3. ASSUME NEW a \in Agents, RegisterAgent(a)
      PROVE  TypeOK'
  BY <1>3 DEF RegisterAgent
<1>4. ASSUME NEW a \in Agents, StopPrevious(a)
      PROVE  TypeOK'
  BY <1>4 DEF StopPrevious
<1>5. ASSUME NEW a \in Agents, ForwardOpen(a)
      PROVE  TypeOK'
  BY <1>5 DEF ForwardOpen
<1>6. ASSUME NEW a \in Agents, BlockForward(a)
      PROVE  TypeOK'
  BY <1>6 DEF BlockForward
<1>7. ASSUME NEW a \in Agents, ResumeForward(a)
      PROVE  TypeOK'
  BY <1>7 DEF ResumeForward
<1>8. ASSUME NEW a \in Agents, NEW s \in Attachers, WriteOpen(a, s)
      PROVE  TypeOK'
  BY <1>8 DEF WriteOpen
<1>9. ASSUME NEW a \in Agents, ObserveShutdown(a)
      PROVE  TypeOK'
  BY <1>9 DEF ObserveShutdown
<1>10. ASSUME NEW a \in Agents, ControlEnds(a)
      PROVE  TypeOK'
  BY <1>10 DEF ControlEnds
<1>11. ASSUME NEW a \in Agents, FailPending(a)
      PROVE  TypeOK'
  BY <1>11 DEF FailPending, Notified
<1>12. ASSUME NEW a \in Agents, Unregister(a)
      PROVE  TypeOK'
  BY <1>12 DEF Unregister
<1>13. ASSUME NEW a \in Agents, AgentLeaves(a)
      PROVE  TypeOK'
  BY <1>13 DEF AgentLeaves
<1>14. ASSUME NEW s \in Attachers, AcceptAttacher(s)
      PROVE  TypeOK'
  BY <1>14 DEF AcceptAttacher
<1>15. ASSUME NEW s \in Attachers, AttachHelloFails(s)
      PROVE  TypeOK'
  BY <1>15 DEF AttachHelloFails
<1>16. ASSUME NEW s \in Attachers, LookupAttach(s)
      PROVE  TypeOK'
  BY <1>16 DEF LookupAttach, HandlesAreSet
<1>17. ASSUME NEW s \in Attachers, TakePending(s)
      PROVE  TypeOK'
  BY <1>17 DEF TakePending, HandlesAreSet
<1>18. ASSUME NEW s \in Attachers, NothingPending(s)
      PROVE  TypeOK'
  BY <1>18 DEF NothingPending
<1>19. ASSUME NEW s \in Attachers, RefuseAttach(s)
      PROVE  TypeOK'
  BY <1>19 DEF RefuseAttach
<1>20. ASSUME NEW s \in Attachers, WriteAccepted(s)
      PROVE  TypeOK'
  BY <1>20 DEF WriteAccepted
<1>21. ASSUME NEW s \in Attachers, SessionFails(s)
      PROVE  TypeOK'
  BY <1>21 DEF SessionFails, Notified
<1>22. ASSUME NEW s \in Attachers, HandOff(s)
      PROVE  TypeOK'
  BY <1>22 DEF HandOff, Listening
<1>23. ASSUME NEW s \in Attachers, HandOffTooLate(s)
      PROVE  TypeOK'
  BY <1>23 DEF HandOffTooLate
<1>24. ASSUME NEW c \in Controllers, AcceptController(c)
      PROVE  TypeOK'
  BY <1>24 DEF AcceptController
<1>25. ASSUME NEW c \in Controllers, ControllerHelloFails(c)
      PROVE  TypeOK'
  BY <1>25 DEF ControllerHelloFails
<1>26. ASSUME NEW c \in Controllers, ListDevices(c)
      PROVE  TypeOK'
  BY <1>26 DEF ListDevices
<1>27. ASSUME NEW c \in Controllers, LookupTarget(c)
      PROVE  TypeOK'
  BY <1>27 DEF LookupTarget
<1>28. ASSUME NEW c \in Controllers, RegisterPending(c)
      PROVE  TypeOK'
  BY <1>28 DEF RegisterPending, HandlesAreSet
<1>29. ASSUME NEW c \in Controllers, TooManyPending(c)
      PROVE  TypeOK'
  BY <1>29 DEF TooManyPending
<1>30. ASSUME NEW c \in Controllers, QueueOpen(c)
      PROVE  TypeOK'
  BY <1>30 DEF QueueOpen, HandlesAreSet
<1>31. ASSUME NEW c \in Controllers, QueueDisconnected(c)
      PROVE  TypeOK'
  BY <1>31 DEF QueueDisconnected, DropReceiver, HandlesAreSet
<1>32. ASSUME NEW c \in Controllers, OpenExpires(c)
      PROVE  TypeOK'
  BY <1>32 DEF OpenExpires, DropReceiver
<1>33. ASSUME NEW c \in Controllers, ReceiveReply(c)
      PROVE  TypeOK'
  BY <1>33 DEF ReceiveReply
<1>34. ASSUME NEW c \in Controllers, WithdrawPending(c)
      PROVE  TypeOK'
  <2>1. opened[c] \in Agents /\ IdOf[c] \in Ids
    BY <1>34 DEF WithdrawPending, HandlesAreSet
  <2>2. pending' \in [Agents -> [Ids -> Controllers \cup {None}]]
    <3>1. pending' = [pending EXCEPT ![opened[c]][IdOf[c]] = None]
      BY <1>34 DEF WithdrawPending
    <3> QED
      BY <2>1, <3>1
  <2>3. reply' \in [Controllers -> {"empty", "stream", "error", "closed"}]
    BY <1>34 DEF WithdrawPending, Notified
  <2> QED
    BY <1>34, <2>2, <2>3 DEF WithdrawPending
<1>35. ASSUME NEW c \in Controllers, RefuseController(c)
      PROVE  TypeOK'
  BY <1>35 DEF RefuseController
<1>36. ASSUME NEW c \in Controllers, WriteReady(c)
      PROVE  TypeOK'
  BY <1>36 DEF WriteReady
<1>37. ASSUME NEW c \in Controllers, CloseBoth(c)
      PROVE  TypeOK'
  BY <1>37 DEF CloseBoth, StreamsAreReplies
<1>38. CASE UNCHANGED vars
  BY <1>38 DEF vars
<1> HIDE RequestsAssumption, LimitsAssumption
         DEF TypeOK, agentVars, attachVars, ctlVars
<1>39. ASSUME NEW a \in Agents, AgentStep(a)
      PROVE  TypeOK'
  BY <1>39, <1>1, <1>2, <1>3, <1>4, <1>5, <1>6, <1>7, <1>8, <1>9, <1>10,
     <1>11, <1>12, <1>13
  DEF AgentStep
<1>40. ASSUME NEW s \in Attachers, AttachStep(s)
      PROVE  TypeOK'
  BY <1>40, <1>14, <1>15, <1>16, <1>17, <1>18, <1>19, <1>20, <1>21, <1>22,
     <1>23
  DEF AttachStep
<1>41. ASSUME NEW c \in Controllers, ControllerStep(c)
      PROVE  TypeOK'
  BY <1>41, <1>24, <1>25, <1>26, <1>27, <1>28, <1>29, <1>30, <1>31, <1>32,
     <1>33, <1>34, <1>35, <1>36, <1>37
  DEF ControllerStep, ControllerMoves
<1> QED
  BY <1>38, <1>39, <1>40, <1>41 DEF Next, Quiet

-----------------------------------------------------------------------------
(* The registry.                                                           *)

\* RegistryIsServed and UnstoppedIsReachable depend on the agents alone.
RegistryOK == RegistryIsServed /\ UnstoppedIsReachable

\* Every step keeps lookups and handlers in agreement.
LEMMA RegistryStep ==
    TypeOK /\ RegistryOK /\ [Next]_vars => RegistryOK'
<1> SUFFICES ASSUME TypeOK, RegistryOK, [Next]_vars
             PROVE  RegistryOK'
  OBVIOUS
<1> USE ConnectionsAssumption, RequestsAssumption DEF RegistryOK, RegistryIsServed, UnstoppedIsReachable
<1>1. ASSUME NEW a \in Agents, AgentStep(a)
      PROVE  RegistryOK'
  <2>1. CASE AcceptAgent(a)
    BY <2>1 DEF AcceptAgent, TypeOK
  <2>2. CASE AgentHelloFails(a)
    BY <2>2 DEF AgentHelloFails, TypeOK
  <2>3. CASE RegisterAgent(a)
    <3>1. RegistryIsServed'
      BY <2>3 DEF RegisterAgent, TypeOK
    <3>2. ASSUME NEW e \in Agents, ~shutdown'[e],
                 agent'[e] \in {"registered", "serving", "forwarding"}
          PROVE  \/ registry'[DeviceOf[e]] = e
                 \/ \E b \in Agents : agent'[b] = "registered" /\ previous'[b] = e
      <4>1. CASE e = a
        BY <2>3, <4>1 DEF RegisterAgent, TypeOK
      <4>2. CASE e # a /\ registry[DeviceOf[e]] = e
        BY <2>3, <4>2 DEF RegisterAgent, TypeOK
      <4>3. CASE e # a /\ registry[DeviceOf[e]] # e
        <5>1. PICK b \in Agents : agent[b] = "registered" /\ previous[b] = e
          BY <2>3, <3>2, <4>3 DEF RegisterAgent, TypeOK
        <5> QED
          BY <2>3, <5>1 DEF RegisterAgent, TypeOK
      <4> QED
        BY <4>1, <4>2, <4>3
    <3> QED
      BY <3>1, <3>2
  <2>4. CASE StopPrevious(a)
    <3>1. RegistryIsServed'
      BY <2>4 DEF StopPrevious, TypeOK
    <3>2. ASSUME NEW e \in Agents, ~shutdown'[e],
                 agent'[e] \in {"registered", "serving", "forwarding"}
          PROVE  \/ registry'[DeviceOf[e]] = e
                 \/ \E b \in Agents : agent'[b] = "registered" /\ previous'[b] = e
      <4>1. /\ e # previous[a] /\ ~shutdown[e]
            /\ agent[e] \in {"registered", "serving", "forwarding"}
        <5>1. shutdown'[e] = (shutdown[e] \/ e = previous[a])
          BY <2>4, Zenon DEF StopPrevious
        <5>2. e # previous[a] /\ ~shutdown[e]
          BY <3>2, <5>1, Zenon
        <5>3. agent[e] \in {"registered", "serving", "forwarding"}
          BY <2>4, <3>2 DEF StopPrevious, TypeOK
        <5> QED
          BY <5>2, <5>3
      <4>2. CASE registry[DeviceOf[e]] = e
        BY <2>4, <4>2 DEF StopPrevious
      <4>3. CASE registry[DeviceOf[e]] # e
        <5>1. PICK b \in Agents : agent[b] = "registered" /\ previous[b] = e
          BY <4>1, <4>3
        <5>2. b # a
          BY <4>1, <5>1
        <5> QED
          BY <2>4, <5>1, <5>2 DEF StopPrevious, TypeOK
      <4> QED
        BY <4>2, <4>3
    <3> QED
      BY <3>1, <3>2
  <2>5. CASE ForwardOpen(a) \/ (\E s \in Attachers : WriteOpen(a, s))
    BY <2>5 DEF ForwardOpen, WriteOpen
  <2>6. CASE BlockForward(a)
    BY <2>6 DEF BlockForward, TypeOK
  <2>7. CASE ResumeForward(a)
    BY <2>7 DEF ResumeForward, TypeOK
  <2>8. CASE ObserveShutdown(a)
    BY <2>8 DEF ObserveShutdown, TypeOK
  <2>12. CASE ControlEnds(a)
    BY <2>12 DEF ControlEnds, TypeOK
  <2>9. CASE FailPending(a)
    BY <2>9 DEF FailPending, TypeOK
  <2>10. CASE Unregister(a)
    BY <2>10 DEF Unregister, TypeOK
  <2>11. CASE AgentLeaves(a)
    BY <2>11 DEF AgentLeaves, TypeOK
  <2> QED
    BY <1>1, <2>1, <2>2, <2>3, <2>4, <2>5, <2>6, <2>7, <2>8, <2>9, <2>10, <2>11,
       <2>12
    DEF AgentStep
<1>2. ASSUME UNCHANGED <<registry, agent, previous, shutdown>>
      PROVE  RegistryOK'
  BY <1>2
<1>3. ASSUME NEW s \in Attachers, AttachStep(s)
      PROVE  UNCHANGED <<registry, agent, previous, shutdown>>
  BY <1>3 DEF AttachStep, AcceptAttacher, AttachHelloFails, LookupAttach,
     TakePending, NothingPending, RefuseAttach, WriteAccepted, SessionFails,
     HandOff, HandOffTooLate, agentVars
<1>4. ASSUME NEW c \in Controllers, ControllerStep(c)
      PROVE  UNCHANGED <<registry, agent, previous, shutdown>>
  BY <1>4 DEF ControllerStep, ControllerMoves, AcceptController,
     ControllerHelloFails, ListDevices, LookupTarget, RegisterPending,
     TooManyPending, QueueOpen, QueueDisconnected, OpenExpires, ReceiveReply,
     WithdrawPending, RefuseController, WriteReady, CloseBoth, agentVars
<1>5. CASE UNCHANGED vars
  BY <1>2, <1>5 DEF vars, agentVars
<1> QED
  BY <1>1, <1>2, <1>3, <1>4, <1>5 DEF Next, Quiet


-----------------------------------------------------------------------------
(* Requests, senders and streams.                                          *)

\* The stream a controller holds was handed off and not closed since.
LEMMA StreamIsHanded ==
    ASSUME StreamsMatchRequests, NEW c \in Controllers, stream[c] # None
    PROVE  attach[stream[c]] = "handed"
BY DEF StreamsMatchRequests

\* A sender that an attacher took is in no pending map.
LEMMA TakenIsNotPending ==
    ASSUME SendersHaveOneOwner, NEW s \in Attachers, Taken(s),
           NEW a \in Agents, NEW x \in Ids
    PROVE  pending[a][x] # sender[s]
BY DEF SendersHaveOneOwner, PendingAreOpening, TakenAreOwned

\* Labels, lookups and devices stay together.
LEMMA HandlesStep ==
    TypeOK /\ RegistryIsServed /\ HandlesAreSet /\ StreamsAreReplies /\ StreamsMatchRequests /\ [Next]_vars
        => HandlesAreSet'
<1> SUFFICES ASSUME TypeOK, RegistryIsServed, HandlesAreSet,
                             StreamsAreReplies, StreamsMatchRequests,
                             [Next]_vars
             PROVE  HandlesAreSet'
  OBVIOUS
<1> USE ConnectionsAssumption, RequestsAssumption
        DEF HandlesAreSet
<1>1. ASSUME UNCHANGED <<job, attached, attach, ctl, opened>>
      PROVE  HandlesAreSet'
  BY <1>1
<1>2. ASSUME NEW a \in Agents, AgentStep(a)
      PROVE  HandlesAreSet'
  <2>1. CASE AcceptAgent(a) \/ AgentHelloFails(a) \/ RegisterAgent(a) \/
            StopPrevious(a) \/ ForwardOpen(a) \/ BlockForward(a) \/
            ResumeForward(a) \/ ObserveShutdown(a) \/ ControlEnds(a) \/
            FailPending(a) \/ Unregister(a) \/ AgentLeaves(a)
    BY <1>1, <2>1 DEF AcceptAgent, AgentHelloFails, RegisterAgent, StopPrevious, ForwardOpen,
       BlockForward, ResumeForward, ObserveShutdown, ControlEnds, FailPending,
       Unregister, AgentLeaves, agentVars, attachVars, ctlVars
  <2>2. ASSUME NEW s \in Attachers, WriteOpen(a, s)
        PROVE  HandlesAreSet'
    BY <2>2 DEF WriteOpen, TypeOK, RegistryIsServed, StreamsAreReplies,
       StreamsMatchRequests, agentVars, attachVars, ctlVars
  <2> QED
    BY <1>2, <2>1, <2>2 DEF AgentStep
<1>3. ASSUME NEW s \in Attachers, AttachStep(s)
      PROVE  HandlesAreSet'
  <2>1. CASE AcceptAttacher(s)
    BY <2>1 DEF AcceptAttacher, TypeOK, RegistryIsServed, StreamsAreReplies,
       StreamsMatchRequests, agentVars, attachVars, ctlVars
  <2>2. CASE AttachHelloFails(s)
    BY <2>2 DEF AttachHelloFails, TypeOK, RegistryIsServed, StreamsAreReplies,
       StreamsMatchRequests, agentVars, attachVars, ctlVars
  <2>3. CASE LookupAttach(s)
    BY <2>3 DEF LookupAttach, TypeOK, RegistryIsServed, StreamsAreReplies,
       StreamsMatchRequests, agentVars, attachVars, ctlVars
  <2>4. CASE TakePending(s)
    BY <2>4 DEF TakePending, TypeOK, RegistryIsServed, StreamsAreReplies,
       StreamsMatchRequests, agentVars, attachVars, ctlVars
  <2>5. CASE NothingPending(s)
    BY <2>5 DEF NothingPending, TypeOK, RegistryIsServed, StreamsAreReplies,
       StreamsMatchRequests, agentVars, attachVars, ctlVars
  <2>6. CASE RefuseAttach(s)
    BY <2>6 DEF RefuseAttach, TypeOK, RegistryIsServed, StreamsAreReplies,
       StreamsMatchRequests, agentVars, attachVars, ctlVars
  <2>7. CASE WriteAccepted(s)
    BY <2>7 DEF WriteAccepted, TypeOK, RegistryIsServed, StreamsAreReplies,
       StreamsMatchRequests, agentVars, attachVars, ctlVars
  <2>8. CASE SessionFails(s)
    BY <2>8 DEF SessionFails, Notified, TypeOK, RegistryIsServed, StreamsAreReplies,
       StreamsMatchRequests, agentVars, attachVars, ctlVars
  <2>9. CASE HandOff(s)
    BY <2>9 DEF HandOff, Listening, TypeOK, RegistryIsServed, StreamsAreReplies,
       StreamsMatchRequests, agentVars, attachVars, ctlVars
  <2>10. CASE HandOffTooLate(s)
    BY <2>10 DEF HandOffTooLate, TypeOK, RegistryIsServed, StreamsAreReplies,
       StreamsMatchRequests, agentVars, attachVars, ctlVars
  <2> QED
    BY <1>3, <2>1, <2>2, <2>3, <2>4, <2>5, <2>6, <2>7, <2>8, <2>9, <2>10 DEF AttachStep
<1>4. ASSUME NEW c \in Controllers, ControllerStep(c)
      PROVE  HandlesAreSet'
  <2>1. CASE AcceptController(c)
    BY <2>1 DEF AcceptController, TypeOK, RegistryIsServed, StreamsAreReplies,
       StreamsMatchRequests, agentVars, attachVars, ctlVars
  <2>2. CASE ControllerHelloFails(c)
    BY <2>2 DEF ControllerHelloFails, TypeOK, RegistryIsServed, StreamsAreReplies,
       StreamsMatchRequests, agentVars, attachVars, ctlVars
  <2>3. CASE ListDevices(c)
    BY <2>3 DEF ListDevices, TypeOK, RegistryIsServed, StreamsAreReplies,
       StreamsMatchRequests, agentVars, attachVars, ctlVars
  <2>4. CASE LookupTarget(c)
    BY <2>4 DEF LookupTarget, TypeOK, RegistryIsServed, StreamsAreReplies,
       StreamsMatchRequests, agentVars, attachVars, ctlVars
  <2>5. CASE RegisterPending(c)
    BY <2>5 DEF RegisterPending, TypeOK, RegistryIsServed, StreamsAreReplies,
       StreamsMatchRequests, agentVars, attachVars, ctlVars
  <2>6. CASE TooManyPending(c)
    BY <2>6 DEF TooManyPending, TypeOK, RegistryIsServed, StreamsAreReplies,
       StreamsMatchRequests, agentVars, attachVars, ctlVars
  <2>7. CASE QueueOpen(c)
    BY <2>7 DEF QueueOpen, TypeOK, RegistryIsServed, StreamsAreReplies,
       StreamsMatchRequests, agentVars, attachVars, ctlVars
  <2>8. CASE QueueDisconnected(c)
    <3>1. \A s \in Attachers :
             attach'[s] # attach[s] => attach'[s] = "gone" /\ attach[s] = "handed"
      BY <2>8, StreamIsHanded DEF QueueDisconnected, DropReceiver, TypeOK, StreamsAreReplies
    <3> QED
      BY <2>8, <3>1 DEF QueueDisconnected, DropReceiver, TypeOK, attachVars
  <2>9. CASE OpenExpires(c)
    <3>1. \A s \in Attachers :
             attach'[s] # attach[s] => attach'[s] = "gone" /\ attach[s] = "handed"
      BY <2>9, StreamIsHanded DEF OpenExpires, DropReceiver, TypeOK, StreamsAreReplies
    <3> QED
      BY <2>9, <3>1 DEF OpenExpires, DropReceiver, TypeOK, attachVars
  <2>10. CASE ReceiveReply(c)
    BY <2>10 DEF ReceiveReply, TypeOK, RegistryIsServed, StreamsAreReplies,
       StreamsMatchRequests, agentVars, attachVars, ctlVars
  <2>11. CASE WithdrawPending(c)
    BY <2>11 DEF WithdrawPending, Notified, TypeOK, RegistryIsServed, StreamsAreReplies,
       StreamsMatchRequests, agentVars, attachVars, ctlVars
  <2>12. CASE RefuseController(c)
    BY <2>12 DEF RefuseController, TypeOK, RegistryIsServed, StreamsAreReplies,
       StreamsMatchRequests, agentVars, attachVars, ctlVars
  <2>13. CASE WriteReady(c)
    BY <2>13 DEF WriteReady, TypeOK, RegistryIsServed, StreamsAreReplies,
       StreamsMatchRequests, agentVars, attachVars, ctlVars
  <2>14. CASE CloseBoth(c)
    <3>1. \A s \in Attachers :
             attach'[s] # attach[s] => attach'[s] = "gone" /\ attach[s] = "handed"
      BY <2>14, StreamIsHanded DEF CloseBoth, TypeOK, StreamsAreReplies
    <3> QED
      BY <2>14, <3>1 DEF CloseBoth, TypeOK, attachVars
  <2> QED
    BY <1>4, <2>1, <2>2, <2>3, <2>4, <2>5, <2>6, <2>7, <2>8, <2>9, <2>10,
       <2>11, <2>12, <2>13, <2>14 DEF ControllerStep, ControllerMoves
<1>5. CASE UNCHANGED vars
  BY <1>1, <1>5 DEF vars, agentVars, attachVars, ctlVars
<1> QED
  BY <1>2, <1>3, <1>4, <1>5 DEF Next, Quiet

\* A stream and the reply that carries it stay together.
LEMMA RepliesStep ==
    TypeOK /\ HandlesAreSet /\ SendersHaveOneOwner /\ StreamsAreReplies /\ [Next]_vars
        => StreamsAreReplies'
<1> SUFFICES ASSUME TypeOK, HandlesAreSet, SendersHaveOneOwner,
                             StreamsAreReplies, [Next]_vars
             PROVE  StreamsAreReplies'
  OBVIOUS
<1> USE ConnectionsAssumption, RequestsAssumption
        DEF StreamsAreReplies, Listening, PendingSenders, PendingIds,
            SendersHaveOneOwner, PendingAreOpening, TakenAreOwned, Taken
<1>1. ASSUME UNCHANGED <<reply, stream, ctl>>
      PROVE  StreamsAreReplies'
  BY <1>1
<1>2. ASSUME NEW a \in Agents, AgentStep(a)
      PROVE  StreamsAreReplies'
  <2>1. CASE AcceptAgent(a) \/ AgentHelloFails(a) \/ RegisterAgent(a) \/
            StopPrevious(a) \/ ForwardOpen(a) \/ BlockForward(a) \/
            ResumeForward(a) \/ (\E s \in Attachers : WriteOpen(a, s))
            \/ ObserveShutdown(a) \/ ControlEnds(a) \/ Unregister(a) \/
            AgentLeaves(a)
    BY <1>1, <2>1 DEF AcceptAgent, AgentHelloFails, RegisterAgent, StopPrevious, ForwardOpen,
       BlockForward, ResumeForward, WriteOpen, ObserveShutdown, ControlEnds,
       Unregister, AgentLeaves, agentVars, attachVars, ctlVars
  <2>2. CASE FailPending(a)
    BY <2>2 DEF FailPending, Notified, TypeOK, HandlesAreSet, SendersHaveOneOwner,
       agentVars, attachVars, ctlVars
  <2> QED
    BY <1>2, <2>1, <2>2 DEF AgentStep
<1>3. ASSUME NEW s \in Attachers, AttachStep(s)
      PROVE  StreamsAreReplies'
  <2>1. CASE AcceptAttacher(s) \/ AttachHelloFails(s) \/ LookupAttach(s)
            \/ TakePending(s) \/ NothingPending(s) \/ RefuseAttach(s) \/
            WriteAccepted(s) \/ HandOffTooLate(s)
    BY <1>1, <2>1 DEF AcceptAttacher, AttachHelloFails, LookupAttach, TakePending,
       NothingPending, RefuseAttach, WriteAccepted, HandOffTooLate, agentVars,
       attachVars, ctlVars
  <2>2. CASE SessionFails(s)
    BY <2>2 DEF SessionFails, Notified, TypeOK, HandlesAreSet, SendersHaveOneOwner,
       agentVars, attachVars, ctlVars
  <2>3. CASE HandOff(s)
    BY <2>3 DEF HandOff, Listening, TypeOK, HandlesAreSet, SendersHaveOneOwner,
       agentVars, attachVars, ctlVars
  <2> QED
    BY <1>3, <2>1, <2>2, <2>3 DEF AttachStep
<1>4. ASSUME NEW c \in Controllers, ControllerStep(c)
      PROVE  StreamsAreReplies'
  <2>1. CASE AcceptController(c)
    BY <2>1 DEF AcceptController, TypeOK, HandlesAreSet, SendersHaveOneOwner,
       agentVars, attachVars, ctlVars
  <2>2. CASE ControllerHelloFails(c)
    BY <2>2 DEF ControllerHelloFails, TypeOK, HandlesAreSet, SendersHaveOneOwner,
       agentVars, attachVars, ctlVars
  <2>3. CASE ListDevices(c)
    BY <2>3 DEF ListDevices, TypeOK, HandlesAreSet, SendersHaveOneOwner, agentVars,
       attachVars, ctlVars
  <2>4. CASE LookupTarget(c)
    BY <2>4 DEF LookupTarget, TypeOK, HandlesAreSet, SendersHaveOneOwner, agentVars,
       attachVars, ctlVars
  <2>5. CASE RegisterPending(c)
    BY <2>5 DEF RegisterPending, TypeOK, HandlesAreSet, SendersHaveOneOwner, agentVars,
       attachVars, ctlVars
  <2>6. CASE TooManyPending(c)
    BY <2>6 DEF TooManyPending, TypeOK, HandlesAreSet, SendersHaveOneOwner, agentVars,
       attachVars, ctlVars
  <2>7. CASE QueueOpen(c)
    BY <2>7 DEF QueueOpen, TypeOK, HandlesAreSet, SendersHaveOneOwner, agentVars,
       attachVars, ctlVars
  <2>8. CASE QueueDisconnected(c)
    BY <2>8 DEF QueueDisconnected, DropReceiver, TypeOK, HandlesAreSet,
       SendersHaveOneOwner, agentVars, attachVars, ctlVars
  <2>9. CASE OpenExpires(c)
    BY <2>9 DEF OpenExpires, DropReceiver, TypeOK, HandlesAreSet, SendersHaveOneOwner,
       agentVars, attachVars, ctlVars
  <2>10. CASE ReceiveReply(c)
    BY <2>10 DEF ReceiveReply, TypeOK, HandlesAreSet, SendersHaveOneOwner, agentVars,
       attachVars, ctlVars
  <2>11. CASE WithdrawPending(c)
    BY <2>11 DEF WithdrawPending, Notified, TypeOK, HandlesAreSet, SendersHaveOneOwner,
       agentVars, attachVars, ctlVars
  <2>12. CASE RefuseController(c)
    BY <2>12 DEF RefuseController, TypeOK, HandlesAreSet, SendersHaveOneOwner,
       agentVars, attachVars, ctlVars
  <2>13. CASE WriteReady(c)
    BY <2>13 DEF WriteReady, TypeOK, HandlesAreSet, SendersHaveOneOwner, agentVars,
       attachVars, ctlVars
  <2>14. CASE CloseBoth(c)
    BY <2>14 DEF CloseBoth, TypeOK, HandlesAreSet, SendersHaveOneOwner, agentVars,
       attachVars, ctlVars
  <2> QED
    BY <1>4, <2>1, <2>2, <2>3, <2>4, <2>5, <2>6, <2>7, <2>8, <2>9, <2>10,
       <2>11, <2>12, <2>13, <2>14 DEF ControllerStep, ControllerMoves
<1>5. CASE UNCHANGED vars
  BY <1>1, <1>5 DEF vars, agentVars, attachVars, ctlVars
<1> QED
  BY <1>2, <1>3, <1>4, <1>5 DEF Next, Quiet

\* Each reply sender keeps its one owner.
LEMMA SendersStep ==
    TypeOK /\ HandlesAreSet /\ SendersHaveOneOwner /\ StreamsAreReplies /\ StreamsMatchRequests /\ [Next]_vars
        => SendersHaveOneOwner'
<1> SUFFICES ASSUME TypeOK, HandlesAreSet, SendersHaveOneOwner,
                             StreamsAreReplies, StreamsMatchRequests,
                             [Next]_vars
             PROVE  SendersHaveOneOwner'
  OBVIOUS
<1> USE ConnectionsAssumption, RequestsAssumption
        DEF SendersHaveOneOwner, Listening, PendingSenders, PendingIds,
            PendingAreOpening, TakenAreOwned, Taken
<1>1. ASSUME UNCHANGED <<pending, opened, ctl, reply, attach, sender, attached, job>>
      PROVE  SendersHaveOneOwner'
  BY <1>1
<1>2. ASSUME NEW a \in Agents, AgentStep(a)
      PROVE  SendersHaveOneOwner'
  <2>1. CASE AcceptAgent(a) \/ AgentHelloFails(a) \/ RegisterAgent(a) \/
            StopPrevious(a) \/ ForwardOpen(a) \/ BlockForward(a) \/
            ResumeForward(a) \/ ObserveShutdown(a) \/ ControlEnds(a) \/
            Unregister(a) \/ AgentLeaves(a)
    BY <1>1, <2>1 DEF AcceptAgent, AgentHelloFails, RegisterAgent, StopPrevious, ForwardOpen,
       BlockForward, ResumeForward, ObserveShutdown, ControlEnds, Unregister,
       AgentLeaves, agentVars, attachVars, ctlVars
  <2>2. ASSUME NEW s \in Attachers, WriteOpen(a, s)
        PROVE  SendersHaveOneOwner'
    BY <2>2 DEF WriteOpen, TypeOK, HandlesAreSet, StreamsAreReplies,
       StreamsMatchRequests, agentVars, attachVars, ctlVars
  <2>3. CASE FailPending(a)
    BY <2>3 DEF FailPending, Notified, TypeOK, HandlesAreSet, StreamsAreReplies,
       StreamsMatchRequests, agentVars, attachVars, ctlVars
  <2> QED
    BY <1>2, <2>1, <2>2, <2>3 DEF AgentStep
<1>3. ASSUME NEW s \in Attachers, AttachStep(s)
      PROVE  SendersHaveOneOwner'
  <2>1. CASE AcceptAttacher(s)
    BY <2>1 DEF AcceptAttacher, TypeOK, HandlesAreSet, StreamsAreReplies,
       StreamsMatchRequests, agentVars, attachVars, ctlVars
  <2>2. CASE AttachHelloFails(s)
    BY <2>2 DEF AttachHelloFails, TypeOK, HandlesAreSet, StreamsAreReplies,
       StreamsMatchRequests, agentVars, attachVars, ctlVars
  <2>3. CASE LookupAttach(s)
    BY <2>3 DEF LookupAttach, TypeOK, HandlesAreSet, StreamsAreReplies,
       StreamsMatchRequests, agentVars, attachVars, ctlVars
  <2>4. CASE TakePending(s)
    <3> DEFINE b == attached[s]
               y == job[s].id
               c == pending[b][y]
    <3>1. /\ b \in Agents /\ y \in Ids /\ c \in Controllers
          /\ ~Taken(s) /\ opened[c] = b /\ IdOf[c] = y /\ reply[c] = "empty"
          /\ ctl[c] \in {"queueing", "waiting", "expired", "disconnected"}
      BY <2>4 DEF TakePending, HandlesAreSet, TypeOK
    <3>2. /\ pending' = [pending EXCEPT ![b][y] = None]
          /\ sender' = [sender EXCEPT ![s] = c]
          /\ attach' = [attach EXCEPT ![s] = "accepting"]
          /\ UNCHANGED <<opened, ctl, reply, attached, job>>
      BY <2>4 DEF TakePending, ctlVars
    <3>3. \A a \in Agents, x \in Ids : pending'[a][x] # None =>
             pending'[a][x] = pending[a][x] /\ pending'[a][x] # c
      BY <3>1, <3>2 DEF TypeOK
    <3>4. PendingAreOpening'
      BY <3>2, <3>3
    <3>5. \A t \in Attachers : Taken(t)' /\ t # s =>
             Taken(t) /\ sender'[t] = sender[t] /\ sender[t] # c
      <4> SUFFICES ASSUME NEW t \in Attachers, Taken(t)', t # s
                   PROVE  Taken(t) /\ sender'[t] = sender[t] /\ sender[t] # c
        OBVIOUS
      <4>1. attach'[t] = attach[t] /\ sender'[t] = sender[t]
        <5>1. attach \in [Attachers -> AttachLabels]
              /\ sender \in [Attachers -> Controllers \cup {None}]
          BY DEF TypeOK
        <5> QED
          BY <3>2, <5>1
      <4>2. Taken(t)
        BY <4>1 DEF Taken
      <4>3. pending[b][y] # sender[t]
        <5>1. \A e \in Agents, x \in Ids : pending[e][x] # sender[t]
          BY <4>2, TakenIsNotPending
        <5> QED
          BY <3>1, <5>1
      <4> QED
        BY <4>1, <4>2, <4>3
    <3>6. \A t \in Attachers : Taken(t)' /\ t # s =>
             pending'[attached[t]][job[t].id] # sender[t]
      BY <3>2, <3>5 DEF TypeOK, HandlesAreSet
    <3>7. pending'[b][y] = None /\ sender'[s] = c /\ Taken(s)'
      BY <3>1, <3>2 DEF TypeOK
    <3>8. TakenAreOwned'
      <4>1. ASSUME NEW t \in Attachers, t # s, Taken(t)'
            PROVE  /\ sender'[t] = sender[t] /\ sender[t] # None /\ sender[t] # c
                   /\ opened[sender[t]] = attached[t] /\ IdOf[sender[t]] = job[t].id
                   /\ pending'[attached[t]][job[t].id] # sender[t]
                   /\ ctl[sender[t]] \notin {"new", "hello", "looked"}
                   /\ ctl[sender[t]] \in {"queueing", "waiting"} => reply[sender[t]] = "empty"
        BY <3>5, <3>6, <4>1
      <4>2. \A t, u \in Attachers :
               Taken(t)' /\ Taken(u)' /\ sender'[t] = sender'[u] => t = u
        BY <3>5, <3>7
      <4>3. c # None /\ pending'[b][y] # c
        BY <3>1, <3>7, ConnectionsAssumption
      <4>4. /\ sender'[s] # None
            /\ opened[sender'[s]] = attached[s] /\ IdOf[sender'[s]] = job[s].id
            /\ pending'[attached[s]][job[s].id] # sender'[s]
            /\ ctl[sender'[s]] \notin {"new", "hello", "looked"}
            /\ ctl[sender'[s]] \in {"queueing", "waiting"} => reply[sender'[s]] = "empty"
        BY <3>1, <3>7, <4>3
      <4> HIDE DEF b, y, c
      <4>5. ASSUME NEW t \in Attachers, Taken(t)'
            PROVE  /\ sender'[t] # None
                   /\ opened[sender'[t]] = attached[t] /\ IdOf[sender'[t]] = job[t].id
                   /\ pending'[attached[t]][job[t].id] # sender'[t]
                   /\ ctl[sender'[t]] \notin {"new", "hello", "looked"}
                   /\ ctl[sender'[t]] \in {"queueing", "waiting"} => reply[sender'[t]] = "empty"
        BY <4>1, <4>4, <4>5
      <4> QED
        BY <3>2, <4>2, <4>5
    <3> QED
      BY <3>4, <3>8
  <2>5. CASE NothingPending(s)
    BY <2>5 DEF NothingPending, TypeOK, HandlesAreSet, StreamsAreReplies,
       StreamsMatchRequests, agentVars, attachVars, ctlVars
  <2>6. CASE RefuseAttach(s)
    BY <2>6 DEF RefuseAttach, TypeOK, HandlesAreSet, StreamsAreReplies,
       StreamsMatchRequests, agentVars, attachVars, ctlVars
  <2>7. CASE WriteAccepted(s)
    BY <2>7 DEF WriteAccepted, TypeOK, HandlesAreSet, StreamsAreReplies,
       StreamsMatchRequests, agentVars, attachVars, ctlVars
  <2>8. CASE SessionFails(s)
    <3>1. \A a \in Agents, x \in Ids : pending[a][x] # sender[s]
      BY <2>8, TakenIsNotPending DEF SessionFails
    <3>2. \A e \in Controllers : e # sender[s] => reply'[e] = reply[e]
      BY <2>8 DEF SessionFails, Notified, TypeOK
    <3>3. UNCHANGED <<pending, opened, ctl, attached, job>>
      BY <2>8 DEF SessionFails, agentVars
    <3>4. PendingAreOpening'
      BY <3>1, <3>2, <3>3 DEF TypeOK
    <3>5. \A t \in Attachers : Taken(t)' =>
             /\ t # s /\ Taken(t) /\ sender'[t] = sender[t]
             /\ sender[t] \in Controllers /\ sender[t] # sender[s]
      BY <2>8 DEF SessionFails, TypeOK
    <3>6. TakenAreOwned'
      BY <3>2, <3>3, <3>5
    <3> QED
      BY <3>4, <3>6
  <2>9. CASE HandOff(s)
    <3>1. \A a \in Agents, x \in Ids : pending[a][x] # sender[s]
      BY <2>9, TakenIsNotPending DEF HandOff
    <3>2. \A e \in Controllers : e # sender[s] => reply'[e] = reply[e]
      BY <2>9 DEF HandOff, TypeOK
    <3>3. UNCHANGED <<pending, opened, ctl, attached, job>>
      BY <2>9 DEF HandOff, agentVars
    <3>4. PendingAreOpening'
      BY <3>1, <3>2, <3>3 DEF TypeOK
    <3>5. \A t \in Attachers : Taken(t)' =>
             /\ t # s /\ Taken(t) /\ sender'[t] = sender[t]
             /\ sender[t] \in Controllers /\ sender[t] # sender[s]
      BY <2>9 DEF HandOff, TypeOK
    <3>6. TakenAreOwned'
      BY <3>2, <3>3, <3>5
    <3> QED
      BY <3>4, <3>6
  <2>10. CASE HandOffTooLate(s)
    BY <2>10 DEF HandOffTooLate, TypeOK, HandlesAreSet, StreamsAreReplies,
       StreamsMatchRequests, agentVars, attachVars, ctlVars
  <2> QED
    BY <1>3, <2>1, <2>2, <2>3, <2>4, <2>5, <2>6, <2>7, <2>8, <2>9, <2>10 DEF AttachStep
<1>4. ASSUME NEW c \in Controllers, ControllerStep(c)
      PROVE  SendersHaveOneOwner'
  <2>1. CASE AcceptController(c)
    BY <2>1 DEF AcceptController, TypeOK, HandlesAreSet, StreamsAreReplies,
       StreamsMatchRequests, agentVars, attachVars, ctlVars
  <2>2. CASE ControllerHelloFails(c)
    BY <2>2 DEF ControllerHelloFails, TypeOK, HandlesAreSet, StreamsAreReplies,
       StreamsMatchRequests, agentVars, attachVars, ctlVars
  <2>3. CASE ListDevices(c)
    BY <2>3 DEF ListDevices, TypeOK, HandlesAreSet, StreamsAreReplies,
       StreamsMatchRequests, agentVars, attachVars, ctlVars
  <2>4. CASE LookupTarget(c)
    BY <2>4 DEF LookupTarget, TypeOK, HandlesAreSet, StreamsAreReplies,
       StreamsMatchRequests, agentVars, attachVars, ctlVars
  <2>5. CASE RegisterPending(c)
    BY <2>5 DEF RegisterPending, TypeOK, HandlesAreSet, StreamsAreReplies,
       StreamsMatchRequests, agentVars, attachVars, ctlVars
  <2>6. CASE TooManyPending(c)
    BY <2>6 DEF TooManyPending, TypeOK, HandlesAreSet, StreamsAreReplies,
       StreamsMatchRequests, agentVars, attachVars, ctlVars
  <2>7. CASE QueueOpen(c)
    BY <2>7 DEF QueueOpen, TypeOK, HandlesAreSet, StreamsAreReplies,
       StreamsMatchRequests, agentVars, attachVars, ctlVars
  <2>8. CASE QueueDisconnected(c)
    BY <2>8 DEF QueueDisconnected, DropReceiver, TypeOK, HandlesAreSet,
       StreamsAreReplies, StreamsMatchRequests, agentVars, attachVars, ctlVars
  <2>9. CASE OpenExpires(c)
    BY <2>9 DEF OpenExpires, DropReceiver, TypeOK, HandlesAreSet, StreamsAreReplies,
       StreamsMatchRequests, agentVars, attachVars, ctlVars
  <2>10. CASE ReceiveReply(c)
    <3>1. ASSUME NEW a \in Agents, NEW x \in Ids, pending[a][x] # None
          PROVE  pending[a][x] # c
      BY <2>10, <3>1 DEF ReceiveReply
    <3>2. ctl[c] = "waiting" /\ reply[c] # "empty"
      BY <2>10 DEF ReceiveReply
    <3>3. \A e \in Controllers : e # c => ctl'[e] = ctl[e]
      BY <2>10 DEF ReceiveReply, TypeOK
    <3>4. ctl'[c] \in {"granted", "refusing", "disconnected"}
      BY <2>10 DEF ReceiveReply, TypeOK
    <3>5. UNCHANGED <<pending, opened, reply, attach, sender, attached, job>>
      BY <2>10 DEF ReceiveReply, agentVars, attachVars
    <3>6. PendingAreOpening'
      BY <3>1, <3>3, <3>5 DEF TypeOK
    <3>7. TakenAreOwned'
      <4>1. ASSUME NEW s \in Attachers, Taken(s)
            PROVE  sender[s] # c /\ sender[s] \in Controllers
        BY <3>2, <4>1 DEF TypeOK
      <4> QED
        BY <3>3, <3>5, <4>1
    <3> QED
      BY <3>6, <3>7
  <2>11. CASE WithdrawPending(c)
    BY <2>11, SMTT(30) DEF WithdrawPending, Notified, TypeOK, HandlesAreSet, StreamsAreReplies,
       StreamsMatchRequests, agentVars, attachVars, ctlVars
  <2>12. CASE RefuseController(c)
    BY <2>12 DEF RefuseController, TypeOK, HandlesAreSet, StreamsAreReplies,
       StreamsMatchRequests, agentVars, attachVars, ctlVars
  <2>13. CASE WriteReady(c)
    BY <2>13 DEF WriteReady, TypeOK, HandlesAreSet, StreamsAreReplies,
       StreamsMatchRequests, agentVars, attachVars, ctlVars
  <2>14. CASE CloseBoth(c)
    BY <2>14 DEF CloseBoth, TypeOK, HandlesAreSet, StreamsAreReplies,
       StreamsMatchRequests, agentVars, attachVars, ctlVars
  <2> QED
    BY <1>4, <2>1, <2>2, <2>3, <2>4, <2>5, <2>6, <2>7, <2>8, <2>9, <2>10,
       <2>11, <2>12, <2>13, <2>14 DEF ControllerStep, ControllerMoves
<1>5. CASE UNCHANGED vars
  BY <1>1, <1>5 DEF vars, agentVars, attachVars, ctlVars
<1> QED
  BY <1>2, <1>3, <1>4, <1>5 DEF Next, Quiet

\* A stream reaches only the controller that asked for it.
LEMMA StreamsStep ==
    TypeOK /\ HandlesAreSet /\ SendersHaveOneOwner /\ StreamsAreReplies /\ StreamsMatchRequests /\ [Next]_vars
        => StreamsMatchRequests'
<1> SUFFICES ASSUME TypeOK, HandlesAreSet, SendersHaveOneOwner,
                             StreamsAreReplies, StreamsMatchRequests,
                             [Next]_vars
             PROVE  StreamsMatchRequests'
  OBVIOUS
<1> USE ConnectionsAssumption, RequestsAssumption
        DEF StreamsMatchRequests
<1>1. ASSUME UNCHANGED <<stream, job, attach>>
      PROVE  StreamsMatchRequests'
  BY <1>1
<1>2. ASSUME NEW a \in Agents, AgentStep(a)
      PROVE  StreamsMatchRequests'
  <2>1. CASE AcceptAgent(a) \/ AgentHelloFails(a) \/ RegisterAgent(a) \/
            StopPrevious(a) \/ ForwardOpen(a) \/ BlockForward(a) \/
            ResumeForward(a) \/ ObserveShutdown(a) \/ ControlEnds(a) \/
            FailPending(a) \/ Unregister(a) \/ AgentLeaves(a)
    BY <1>1, <2>1 DEF AcceptAgent, AgentHelloFails, RegisterAgent, StopPrevious, ForwardOpen,
       BlockForward, ResumeForward, ObserveShutdown, ControlEnds, FailPending,
       Unregister, AgentLeaves, agentVars, attachVars, ctlVars
  <2>2. ASSUME NEW s \in Attachers, WriteOpen(a, s)
        PROVE  StreamsMatchRequests'
    BY <2>2 DEF WriteOpen, TypeOK, HandlesAreSet, SendersHaveOneOwner,
       StreamsAreReplies, agentVars, attachVars, ctlVars
  <2> QED
    BY <1>2, <2>1, <2>2 DEF AgentStep
<1>3. ASSUME NEW s \in Attachers, AttachStep(s)
      PROVE  StreamsMatchRequests'
  <2>1. CASE AcceptAttacher(s)
    BY <2>1 DEF AcceptAttacher, TypeOK, HandlesAreSet, SendersHaveOneOwner,
       StreamsAreReplies, agentVars, attachVars, ctlVars
  <2>2. CASE AttachHelloFails(s)
    BY <2>2 DEF AttachHelloFails, TypeOK, HandlesAreSet, SendersHaveOneOwner,
       StreamsAreReplies, agentVars, attachVars, ctlVars
  <2>3. CASE LookupAttach(s)
    BY <2>3 DEF LookupAttach, TypeOK, HandlesAreSet, SendersHaveOneOwner,
       StreamsAreReplies, agentVars, attachVars, ctlVars
  <2>4. CASE TakePending(s)
    BY <2>4 DEF TakePending, TypeOK, HandlesAreSet, SendersHaveOneOwner,
       StreamsAreReplies, agentVars, attachVars, ctlVars
  <2>5. CASE NothingPending(s)
    BY <2>5 DEF NothingPending, TypeOK, HandlesAreSet, SendersHaveOneOwner,
       StreamsAreReplies, agentVars, attachVars, ctlVars
  <2>6. CASE RefuseAttach(s)
    BY <2>6 DEF RefuseAttach, TypeOK, HandlesAreSet, SendersHaveOneOwner,
       StreamsAreReplies, agentVars, attachVars, ctlVars
  <2>7. CASE WriteAccepted(s)
    BY <2>7 DEF WriteAccepted, TypeOK, HandlesAreSet, SendersHaveOneOwner,
       StreamsAreReplies, agentVars, attachVars, ctlVars
  <2>8. CASE SessionFails(s)
    BY <2>8 DEF SessionFails, Notified, TypeOK, HandlesAreSet, SendersHaveOneOwner,
       StreamsAreReplies, agentVars, attachVars, ctlVars
  <2>9. CASE HandOff(s)
    <3> DEFINE c == sender[s]
    <3>1. /\ c \in Controllers /\ stream[c] = None /\ attach[s] = "awaiting"
          /\ opened[c] = attached[s] /\ IdOf[c] = job[s].id
      BY <2>9 DEF HandOff, Listening, TypeOK, SendersHaveOneOwner, TakenAreOwned,
         Taken, StreamsAreReplies
    <3>2. job[s] = [device |-> Target[c], id |-> IdOf[c]]
      BY <2>9, <3>1 DEF HandOff, Listening, HandlesAreSet
    <3>3. \A e \in Controllers : stream[e] # s
      BY <3>1
    <3>4. /\ stream' = [stream EXCEPT ![c] = s]
          /\ attach' = [attach EXCEPT ![s] = "handed"]
          /\ job' = job
      BY <2>9 DEF HandOff
    <3> HIDE DEF c
    <3>5. ASSUME NEW e \in Controllers, stream'[e] # None
          PROVE  /\ job'[stream'[e]] = [device |-> Target[e], id |-> IdOf[e]]
                 /\ attach'[stream'[e]] = "handed"
      <4>1. CASE e = c
        <5>1. stream'[e] = s /\ attach'[s] = "handed" /\ job'[s] = job[s]
          BY <3>1, <3>4, <4>1 DEF TypeOK
        <5> QED
          BY <3>2, <4>1, <5>1
      <4>2. CASE e # c
        BY <3>1, <3>4, <3>5, <4>2 DEF TypeOK
      <4> QED
        BY <4>1, <4>2
    <3>6. \A e, f \in Controllers :
             stream'[e] # None /\ stream'[f] = stream'[e] => f = e
      <4>1. \A e \in Controllers : stream'[e] = IF e = c THEN s ELSE stream[e]
        BY <3>1, <3>4 DEF TypeOK
      <4> QED
        BY <3>3, <4>1, ZenonT(30)
    <3> QED
      BY <3>5, <3>6
  <2>10. CASE HandOffTooLate(s)
    BY <2>10 DEF HandOffTooLate, TypeOK, HandlesAreSet, SendersHaveOneOwner,
       StreamsAreReplies, agentVars, attachVars, ctlVars
  <2> QED
    BY <1>3, <2>1, <2>2, <2>3, <2>4, <2>5, <2>6, <2>7, <2>8, <2>9, <2>10 DEF AttachStep
<1>4. ASSUME NEW c \in Controllers, ControllerStep(c)
      PROVE  StreamsMatchRequests'
  <2>1. CASE AcceptController(c) \/ ControllerHelloFails(c) \/
            ListDevices(c) \/ LookupTarget(c) \/ RegisterPending(c) \/
            TooManyPending(c) \/ QueueOpen(c) \/ ReceiveReply(c) \/
            WithdrawPending(c) \/ RefuseController(c) \/ WriteReady(c)
    BY <1>1, <2>1 DEF AcceptController, ControllerHelloFails, ListDevices, LookupTarget,
       RegisterPending, TooManyPending, QueueOpen, ReceiveReply,
       WithdrawPending, RefuseController, WriteReady, agentVars, attachVars,
       ctlVars
  <2>2. CASE QueueDisconnected(c)
    BY <2>2 DEF QueueDisconnected, DropReceiver, TypeOK, HandlesAreSet,
       SendersHaveOneOwner, StreamsAreReplies, agentVars, attachVars, ctlVars
  <2>3. CASE OpenExpires(c)
    BY <2>3 DEF OpenExpires, DropReceiver, TypeOK, HandlesAreSet, SendersHaveOneOwner,
       StreamsAreReplies, agentVars, attachVars, ctlVars
  <2>4. CASE CloseBoth(c)
    BY <2>4 DEF CloseBoth, TypeOK, HandlesAreSet, SendersHaveOneOwner,
       StreamsAreReplies, agentVars, attachVars, ctlVars
  <2> QED
    BY <1>4, <2>1, <2>2, <2>3, <2>4 DEF ControllerStep, ControllerMoves
<1>5. CASE UNCHANGED vars
  BY <1>1, <1>5 DEF vars, agentVars, attachVars, ctlVars
<1> QED
  BY <1>2, <1>3, <1>4, <1>5 DEF Next, Quiet

\* A stream that was handed off stays with a controller until it is closed.
LEMMA HeldStep ==
    TypeOK /\ SendersHaveOneOwner /\ StreamsAreReplies /\ StreamsMatchRequests /\ HandedHaveHolder /\ [Next]_vars
        => HandedHaveHolder'
<1> SUFFICES ASSUME TypeOK, SendersHaveOneOwner, StreamsAreReplies,
                             StreamsMatchRequests, HandedHaveHolder,
                             [Next]_vars
             PROVE  HandedHaveHolder'
  OBVIOUS
<1> USE ConnectionsAssumption, RequestsAssumption
        DEF HandedHaveHolder
<1>1. ASSUME UNCHANGED <<stream, attach>>
      PROVE  HandedHaveHolder'
  BY <1>1
<1>2. ASSUME NEW a \in Agents, AgentStep(a)
      PROVE  HandedHaveHolder'
  <2>1. CASE AcceptAgent(a) \/ AgentHelloFails(a) \/ RegisterAgent(a) \/
            StopPrevious(a) \/ ForwardOpen(a) \/ BlockForward(a) \/
            ResumeForward(a) \/ ObserveShutdown(a) \/ ControlEnds(a) \/
            FailPending(a) \/ Unregister(a) \/ AgentLeaves(a)
    BY <1>1, <2>1 DEF AcceptAgent, AgentHelloFails, RegisterAgent, StopPrevious, ForwardOpen,
       BlockForward, ResumeForward, ObserveShutdown, ControlEnds, FailPending,
       Unregister, AgentLeaves, agentVars, attachVars, ctlVars
  <2>2. ASSUME NEW s \in Attachers, WriteOpen(a, s)
        PROVE  HandedHaveHolder'
    BY <2>2 DEF WriteOpen, TypeOK, SendersHaveOneOwner, StreamsAreReplies,
       StreamsMatchRequests, agentVars, attachVars, ctlVars
  <2> QED
    BY <1>2, <2>1, <2>2 DEF AgentStep
<1>3. ASSUME NEW s \in Attachers, AttachStep(s)
      PROVE  HandedHaveHolder'
  <2>1. CASE AcceptAttacher(s)
    BY <2>1 DEF AcceptAttacher, TypeOK, SendersHaveOneOwner, StreamsAreReplies,
       StreamsMatchRequests, agentVars, attachVars, ctlVars
  <2>2. CASE AttachHelloFails(s)
    BY <2>2 DEF AttachHelloFails, TypeOK, SendersHaveOneOwner, StreamsAreReplies,
       StreamsMatchRequests, agentVars, attachVars, ctlVars
  <2>3. CASE LookupAttach(s)
    BY <2>3 DEF LookupAttach, TypeOK, SendersHaveOneOwner, StreamsAreReplies,
       StreamsMatchRequests, agentVars, attachVars, ctlVars
  <2>4. CASE TakePending(s)
    BY <2>4 DEF TakePending, TypeOK, SendersHaveOneOwner, StreamsAreReplies,
       StreamsMatchRequests, agentVars, attachVars, ctlVars
  <2>5. CASE NothingPending(s)
    BY <2>5 DEF NothingPending, TypeOK, SendersHaveOneOwner, StreamsAreReplies,
       StreamsMatchRequests, agentVars, attachVars, ctlVars
  <2>6. CASE RefuseAttach(s)
    BY <2>6 DEF RefuseAttach, TypeOK, SendersHaveOneOwner, StreamsAreReplies,
       StreamsMatchRequests, agentVars, attachVars, ctlVars
  <2>7. CASE WriteAccepted(s)
    BY <2>7 DEF WriteAccepted, TypeOK, SendersHaveOneOwner, StreamsAreReplies,
       StreamsMatchRequests, agentVars, attachVars, ctlVars
  <2>8. CASE SessionFails(s)
    BY <2>8 DEF SessionFails, Notified, TypeOK, SendersHaveOneOwner, StreamsAreReplies,
       StreamsMatchRequests, agentVars, attachVars, ctlVars
  <2>9. CASE HandOff(s)
    <3>1. sender[s] \in Controllers /\ stream[sender[s]] = None
      BY <2>9 DEF HandOff, Listening, TypeOK, SendersHaveOneOwner, TakenAreOwned,
         Taken, StreamsAreReplies
    <3> QED
      BY <2>9, <3>1, ConnectionsAssumption DEF HandOff, TypeOK
  <2>10. CASE HandOffTooLate(s)
    BY <2>10 DEF HandOffTooLate, TypeOK, SendersHaveOneOwner, StreamsAreReplies,
       StreamsMatchRequests, agentVars, attachVars, ctlVars
  <2> QED
    BY <1>3, <2>1, <2>2, <2>3, <2>4, <2>5, <2>6, <2>7, <2>8, <2>9, <2>10 DEF AttachStep
<1>4. ASSUME NEW c \in Controllers, ControllerStep(c)
      PROVE  HandedHaveHolder'
  <2>1. CASE AcceptController(c) \/ ControllerHelloFails(c) \/
            ListDevices(c) \/ LookupTarget(c) \/ RegisterPending(c) \/
            TooManyPending(c) \/ QueueOpen(c) \/ ReceiveReply(c) \/
            WithdrawPending(c) \/ RefuseController(c) \/ WriteReady(c)
    BY <1>1, <2>1 DEF AcceptController, ControllerHelloFails, ListDevices, LookupTarget,
       RegisterPending, TooManyPending, QueueOpen, ReceiveReply,
       WithdrawPending, RefuseController, WriteReady, agentVars, attachVars,
       ctlVars
  <2>2. CASE QueueDisconnected(c)
    BY <2>2 DEF QueueDisconnected, DropReceiver, TypeOK, SendersHaveOneOwner,
       StreamsAreReplies, StreamsMatchRequests, agentVars, attachVars, ctlVars
  <2>3. CASE OpenExpires(c)
    BY <2>3 DEF OpenExpires, DropReceiver, TypeOK, SendersHaveOneOwner,
       StreamsAreReplies, StreamsMatchRequests, agentVars, attachVars, ctlVars
  <2>4. CASE CloseBoth(c)
    BY <2>4 DEF CloseBoth, TypeOK, SendersHaveOneOwner, StreamsAreReplies,
       StreamsMatchRequests, agentVars, attachVars, ctlVars
  <2> QED
    BY <1>4, <2>1, <2>2, <2>3, <2>4 DEF ControllerStep, ControllerMoves
<1>5. CASE UNCHANGED vars
  BY <1>1, <1>5 DEF vars, agentVars, attachVars, ctlVars
<1> QED
  BY <1>2, <1>3, <1>4, <1>5 DEF Next, Quiet


-----------------------------------------------------------------------------
(* The theorems.                                                           *)

\* The initial states satisfy every part of the invariant.
LEMMA InvariantInit == Init => IInv
<1> SUFFICES ASSUME Init PROVE IInv
  OBVIOUS
<1>1. TypeOK
  BY TypeInit
<1>2. RegistryIsServed /\ UnstoppedIsReachable
  BY DEF Init, RegistryIsServed, UnstoppedIsReachable
<1>3. HandlesAreSet /\ StreamsAreReplies /\ StreamsMatchRequests /\ HandedHaveHolder
  BY DEF Init, HandlesAreSet, StreamsAreReplies, StreamsMatchRequests,
     HandedHaveHolder
<1>4. SendersHaveOneOwner
  BY DEF Init, SendersHaveOneOwner, PendingAreOpening, TakenAreOwned, Taken
<1> QED
  BY <1>1, <1>2, <1>3, <1>4 DEF IInv

\* Every step preserves the invariant, part by part.
LEMMA InvariantStep == IInv /\ [Next]_vars => IInv'
BY TypeStep, RegistryStep, HandlesStep, SendersStep, RepliesStep, StreamsStep,
   HeldStep
DEF IInv, RegistryOK

\* The inductive invariant holds in every reachable state.
THEOREM Invariant == Spec => []IInv
BY InvariantInit, InvariantStep, PTL DEF Spec

\* Every variable keeps its type.
THEOREM TypeCorrect == Spec => []TypeOK
<1>1. IInv => TypeOK
  BY DEF IInv
<1> QED
  BY Invariant, <1>1, PTL

\* Whatever generations come and go, a lookup finds a handler that still has
\* its unregister ahead of it (handle_agent 461-464, 563-572).
THEOREM LookupsFindServedDevices == Spec => []RegistryIsServed
<1>1. IInv => RegistryIsServed
  BY DEF IInv
<1> QED
  BY Invariant, <1>1, PTL

\* Among any number of generations of a device, one that was not told to stop
\* is reachable or about to be stopped (handle_agent 461-468, unregister).
THEOREM UnstoppedHandlersAreReachable == Spec => []UnstoppedIsReachable
<1>1. IInv => UnstoppedIsReachable
  BY DEF IInv
<1> QED
  BY Invariant, <1>1, PTL

\* No reply sender is ever in two places or outlives its request in a pending
\* map, even when session ids repeat (register_pending, take_pending).
THEOREM OneOwnerPerSender == Spec => []SendersHaveOneOwner
<1>1. IInv => SendersHaveOneOwner
  BY DEF IInv
<1> QED
  BY Invariant, <1>1, PTL

\* A controller only ever holds a stream that an agent of its target dialled
\* for its session id, and holds it alone (handle_agent_session 644-648).
THEOREM StreamsReachTheirRequest == Spec => []StreamsMatchRequests
<1>1. IInv => StreamsMatchRequests
  BY DEF IInv
<1> QED
  BY Invariant, <1>1, PTL

\* A handed-off stream always has a controller that will close it (745-779).
THEOREM HandedStreamsHaveAHolder == Spec => []HandedStreamsAreHeld
<1>1. ASSUME IInv, NEW s \in Attachers, attach[s] = "handed"
      PROVE  \E c \in Controllers : stream[c] = s /\ ctl[c] # "gone"
  <2>1. PICK c \in Controllers : stream[c] = s
    BY <1>1 DEF IInv, HandedHaveHolder
  <2>2. ctl[c] \in {"queueing", "waiting", "granted", "bridging"}
    BY <1>1, <2>1, ConnectionsAssumption DEF IInv, StreamsAreReplies
  <2> QED
    BY <2>1, <2>2
<1>2. IInv => HandedStreamsAreHeld
  BY <1>1 DEF HandedStreamsAreHeld
<1> QED
  BY Invariant, <1>2, PTL

-----------------------------------------------------------------------------
(* Permits.                                                                *)

\* The permits a handler accounts for at its label.
HeldByAgent(l)      == IF l \in {"new", "gone"} THEN 0 ELSE 1
HeldByAttacher(l)   == IF l \in {"idle", "dialing", "gone"} THEN 0 ELSE 1
HeldByController(l) == IF l \in {"new", "gone"} THEN 0 ELSE 1

\* Two sets that agree but for one element differ in size by that element.
LEMMA SizeWithout ==
    ASSUME NEW S, IsFiniteSet(S), NEW T, NEW x,
           \A y : y # x => (y \in T <=> y \in S)
    PROVE  /\ Cardinality(S) \in Nat /\ Cardinality(T) \in Nat
           /\ Cardinality(T) + (IF x \in S THEN 1 ELSE 0)
                  = Cardinality(S) + (IF x \in T THEN 1 ELSE 0)
<1>0. Cardinality(S) \in Nat
  BY FS_CardinalityType
<1>1. CASE x \in S <=> x \in T
  <2>1. S = T
    BY <1>1
  <2> QED
    BY <1>0, <2>1
<1>2. CASE x \in S /\ x \notin T
  <2>1. T = S \ {x}
    BY <1>2
  <2>2. IsFiniteSet(T) /\ Cardinality(T) = Cardinality(S) - 1
    BY <1>2, <2>1, FS_RemoveElement, Zenon
  <2>3. Cardinality(T) \in Nat
    BY <2>2, FS_CardinalityType, Zenon
  <2> QED
    BY <1>0, <1>2, <2>2, <2>3
<1>3. CASE x \notin S /\ x \in T
  <2>1. T = S \cup {x}
    BY <1>3
  <2>2. IsFiniteSet(T) /\ Cardinality(T) = Cardinality(S) + 1
    BY <1>3, <2>1, FS_AddElement, Zenon
  <2> QED
    BY <1>0, <1>3, <2>2
<1> QED
  BY <1>1, <1>2, <1>3

\* The open connections of each kind can be counted.
LEMMA OpenAreFinite ==
    /\ IsFiniteSet(OpenAgents) /\ Cardinality(OpenAgents) \in Nat
    /\ IsFiniteSet(OpenAttachers) /\ Cardinality(OpenAttachers) \in Nat
    /\ IsFiniteSet(OpenControllers) /\ Cardinality(OpenControllers) \in Nat
<1>1. OpenAgents \subseteq Agents /\ OpenAttachers \subseteq Attachers
      /\ OpenControllers \subseteq Controllers
  BY DEF OpenAgents, OpenAttachers, OpenControllers
<1>2. IsFiniteSet(OpenAgents) /\ IsFiniteSet(OpenAttachers) /\ IsFiniteSet(OpenControllers)
  BY <1>1, ConnectionsAssumption, FS_Subset, Zenon
<1> QED
  BY <1>2, FS_CardinalityType, Zenon

\* When one agent moves, the number of open ones follows its label.
LEMMA AgentCounts ==
    ASSUME NEW a \in Agents, \A e \in Agents : e # a => agent'[e] = agent[e]
    PROVE  /\ Cardinality(OpenAgents') \in Nat
           /\ Cardinality(OpenAgents') + HeldByAgent(agent[a])
                  = Cardinality(OpenAgents) + HeldByAgent(agent'[a])
<1>1. \A y : y # a => (y \in OpenAgents' <=> y \in OpenAgents)
  BY DEF OpenAgents
<1>2. IsFiniteSet(OpenAgents)
  BY OpenAreFinite, Zenon
<1>3. /\ Cardinality(OpenAgents') \in Nat
      /\ Cardinality(OpenAgents') + (IF a \in OpenAgents THEN 1 ELSE 0)
             = Cardinality(OpenAgents) + (IF a \in OpenAgents' THEN 1 ELSE 0)
  BY <1>1, <1>2, SizeWithout, Zenon
<1>4. /\ a \in OpenAgents <=> HeldByAgent(agent[a]) = 1
      /\ a \in OpenAgents' <=> HeldByAgent(agent'[a]) = 1
      /\ HeldByAgent(agent[a]) \in {0, 1} /\ HeldByAgent(agent'[a]) \in {0, 1}
  BY DEF OpenAgents, HeldByAgent
<1> QED
  BY <1>3, <1>4, OpenAreFinite

\* When one attacher moves, the number of open ones follows its label.
LEMMA AttacherCounts ==
    ASSUME NEW s \in Attachers, \A e \in Attachers : e # s => attach'[e] = attach[e]
    PROVE  /\ Cardinality(OpenAttachers') \in Nat
           /\ Cardinality(OpenAttachers') + HeldByAttacher(attach[s])
                  = Cardinality(OpenAttachers) + HeldByAttacher(attach'[s])
<1>1. \A y : y # s => (y \in OpenAttachers' <=> y \in OpenAttachers)
  BY DEF OpenAttachers
<1>2. IsFiniteSet(OpenAttachers)
  BY OpenAreFinite, Zenon
<1>3. /\ Cardinality(OpenAttachers') \in Nat
      /\ Cardinality(OpenAttachers') + (IF s \in OpenAttachers THEN 1 ELSE 0)
             = Cardinality(OpenAttachers) + (IF s \in OpenAttachers' THEN 1 ELSE 0)
  BY <1>1, <1>2, SizeWithout, Zenon
<1>4. /\ s \in OpenAttachers <=> HeldByAttacher(attach[s]) = 1
      /\ s \in OpenAttachers' <=> HeldByAttacher(attach'[s]) = 1
      /\ HeldByAttacher(attach[s]) \in {0, 1} /\ HeldByAttacher(attach'[s]) \in {0, 1}
  BY DEF OpenAttachers, HeldByAttacher
<1> QED
  BY <1>3, <1>4, OpenAreFinite

\* When one controller moves, the number of open ones follows its label.
LEMMA ControllerCounts ==
    ASSUME NEW c \in Controllers, \A e \in Controllers : e # c => ctl'[e] = ctl[e]
    PROVE  /\ Cardinality(OpenControllers') \in Nat
           /\ Cardinality(OpenControllers') + HeldByController(ctl[c])
                  = Cardinality(OpenControllers) + HeldByController(ctl'[c])
<1>1. \A y : y # c => (y \in OpenControllers' <=> y \in OpenControllers)
  BY DEF OpenControllers
<1>2. IsFiniteSet(OpenControllers)
  BY OpenAreFinite, Zenon
<1>3. /\ Cardinality(OpenControllers') \in Nat
      /\ Cardinality(OpenControllers') + (IF c \in OpenControllers THEN 1 ELSE 0)
             = Cardinality(OpenControllers) + (IF c \in OpenControllers' THEN 1 ELSE 0)
  BY <1>1, <1>2, SizeWithout, Zenon
<1>4. /\ c \in OpenControllers <=> HeldByController(ctl[c]) = 1
      /\ c \in OpenControllers' <=> HeldByController(ctl'[c]) = 1
      /\ HeldByController(ctl[c]) \in {0, 1} /\ HeldByController(ctl'[c]) \in {0, 1}
  BY DEF OpenControllers, HeldByController
<1> QED
  BY <1>3, <1>4, OpenAreFinite

\* A step of one agent that returns what its label gives up balances.
LEMMA AgentBalances ==
    ASSUME PermitsMatchConnections, free \in Nat, UNCHANGED <<attach, ctl>>,
           NEW a \in Agents, \A e \in Agents : e # a => agent'[e] = agent[e],
           free' + HeldByAgent(agent'[a]) = free + HeldByAgent(agent[a]),
           free' \in Nat
    PROVE  PermitsMatchConnections'
<1>1. /\ Cardinality(OpenAgents') \in Nat
      /\ Cardinality(OpenAgents') + HeldByAgent(agent[a])
             = Cardinality(OpenAgents) + HeldByAgent(agent'[a])
  BY AgentCounts, Zenon
<1>2. OpenAttachers' = OpenAttachers /\ OpenControllers' = OpenControllers
  BY DEF OpenAttachers, OpenControllers
<1>3. HeldByAgent(agent[a]) \in {0, 1} /\ HeldByAgent(agent'[a]) \in {0, 1}
  BY DEF HeldByAgent
<1> QED
  BY <1>1, <1>2, <1>3, OpenAreFinite, LimitsAssumption DEF PermitsMatchConnections

\* A step of one attacher that returns what its label gives up balances.
LEMMA AttacherBalances ==
    ASSUME PermitsMatchConnections, free \in Nat, UNCHANGED <<agent, ctl>>,
           NEW s \in Attachers, \A e \in Attachers : e # s => attach'[e] = attach[e],
           free' + HeldByAttacher(attach'[s]) = free + HeldByAttacher(attach[s]),
           free' \in Nat
    PROVE  PermitsMatchConnections'
<1>1. /\ Cardinality(OpenAttachers') \in Nat
      /\ Cardinality(OpenAttachers') + HeldByAttacher(attach[s])
             = Cardinality(OpenAttachers) + HeldByAttacher(attach'[s])
  BY AttacherCounts, Zenon
<1>2. OpenAgents' = OpenAgents /\ OpenControllers' = OpenControllers
  BY DEF OpenAgents, OpenControllers
<1>3. HeldByAttacher(attach[s]) \in {0, 1} /\ HeldByAttacher(attach'[s]) \in {0, 1}
  BY DEF HeldByAttacher
<1> QED
  BY <1>1, <1>2, <1>3, OpenAreFinite, LimitsAssumption DEF PermitsMatchConnections

\* A step of one controller that returns what its label gives up balances.
LEMMA ControllerBalances ==
    ASSUME PermitsMatchConnections, free \in Nat, UNCHANGED <<agent, attach>>,
           NEW c \in Controllers, \A e \in Controllers : e # c => ctl'[e] = ctl[e],
           free' + HeldByController(ctl'[c]) = free + HeldByController(ctl[c]),
           free' \in Nat
    PROVE  PermitsMatchConnections'
<1>1. /\ Cardinality(OpenControllers') \in Nat
      /\ Cardinality(OpenControllers') + HeldByController(ctl[c])
             = Cardinality(OpenControllers) + HeldByController(ctl'[c])
  BY ControllerCounts, Zenon
<1>2. OpenAgents' = OpenAgents /\ OpenAttachers' = OpenAttachers
  BY DEF OpenAgents, OpenAttachers
<1>3. HeldByController(ctl[c]) \in {0, 1} /\ HeldByController(ctl'[c]) \in {0, 1}
  BY DEF HeldByController
<1> QED
  BY <1>1, <1>2, <1>3, OpenAreFinite, LimitsAssumption DEF PermitsMatchConnections

\* So does a step of a controller that closes the stream it holds.
LEMMA SessionBalances ==
    ASSUME PermitsMatchConnections, free \in Nat, UNCHANGED agent,
           NEW c \in Controllers, \A e \in Controllers : e # c => ctl'[e] = ctl[e],
           NEW s \in Attachers, \A e \in Attachers : e # s => attach'[e] = attach[e],
           free' + HeldByController(ctl'[c]) + HeldByAttacher(attach'[s])
               = free + HeldByController(ctl[c]) + HeldByAttacher(attach[s]),
           free' \in Nat
    PROVE  PermitsMatchConnections'
<1>1. /\ Cardinality(OpenControllers') \in Nat
      /\ Cardinality(OpenControllers') + HeldByController(ctl[c])
             = Cardinality(OpenControllers) + HeldByController(ctl'[c])
  BY ControllerCounts, Zenon
<1>2. /\ Cardinality(OpenAttachers') \in Nat
      /\ Cardinality(OpenAttachers') + HeldByAttacher(attach[s])
             = Cardinality(OpenAttachers) + HeldByAttacher(attach'[s])
  BY AttacherCounts, Zenon
<1>3. OpenAgents' = OpenAgents
  BY DEF OpenAgents
<1>4. /\ HeldByController(ctl[c]) \in {0, 1} /\ HeldByController(ctl'[c]) \in {0, 1}
      /\ HeldByAttacher(attach[s]) \in {0, 1} /\ HeldByAttacher(attach'[s]) \in {0, 1}
  BY DEF HeldByController, HeldByAttacher
<1> QED
  BY <1>1, <1>2, <1>3, <1>4, OpenAreFinite, LimitsAssumption
     DEF PermitsMatchConnections

\* Nothing is open before the first connection.
LEMMA PermitsInit == Init => PermitsMatchConnections
<1> SUFFICES ASSUME Init PROVE PermitsMatchConnections
  OBVIOUS
<1>1. OpenAgents = {} /\ OpenAttachers = {} /\ OpenControllers = {}
  BY DEF Init, OpenAgents, OpenAttachers, OpenControllers
<1>2. Cardinality({}) = 0
  BY FS_EmptySet
<1> QED
  BY <1>1, <1>2, LimitsAssumption DEF Init, PermitsMatchConnections

\* Every step takes or returns as many permits as it opens or closes
\* connections; a stream's permit is returned by whoever closes it.
LEMMA PermitsStep ==
    IInv /\ IInv' /\ PermitsMatchConnections /\ [Next]_vars => PermitsMatchConnections'
<1> SUFFICES ASSUME IInv, IInv', PermitsMatchConnections, [Next]_vars
             PROVE  PermitsMatchConnections'
  OBVIOUS
<1> USE DEF agentVars, attachVars, ctlVars
<1>0. TypeOK /\ StreamsMatchRequests /\ free \in Nat /\ free' \in Nat
  BY DEF IInv, TypeOK
<1>s. ASSUME NEW c \in Controllers, stream[c] # None
      PROVE  stream[c] \in Attachers /\ attach[stream[c]] = "handed"
  BY <1>0, <1>s, StreamIsHanded DEF TypeOK
<1>1. ASSUME NEW a \in Agents, AcceptAgent(a)
      PROVE  PermitsMatchConnections'
  <2>1. /\ UNCHANGED <<attach, ctl>>
        /\ \A e \in Agents : e # a => agent'[e] = agent[e]
        /\ free' + HeldByAgent(agent'[a]) = free + HeldByAgent(agent[a])
    BY <1>0, <1>1 DEF AcceptAgent, TypeOK, HeldByAgent
  <2> QED
    BY <1>0, <2>1, AgentBalances, Zenon
<1>2. ASSUME NEW a \in Agents, AgentHelloFails(a)
      PROVE  PermitsMatchConnections'
  <2>1. /\ UNCHANGED <<attach, ctl>>
        /\ \A e \in Agents : e # a => agent'[e] = agent[e]
        /\ free' + HeldByAgent(agent'[a]) = free + HeldByAgent(agent[a])
    BY <1>0, <1>2 DEF AgentHelloFails, TypeOK, HeldByAgent
  <2> QED
    BY <1>0, <2>1, AgentBalances, Zenon
<1>3. ASSUME NEW a \in Agents, RegisterAgent(a)
      PROVE  PermitsMatchConnections'
  <2>1. /\ UNCHANGED <<attach, ctl>>
        /\ \A e \in Agents : e # a => agent'[e] = agent[e]
        /\ free' + HeldByAgent(agent'[a]) = free + HeldByAgent(agent[a])
    BY <1>0, <1>3 DEF RegisterAgent, TypeOK, HeldByAgent
  <2> QED
    BY <1>0, <2>1, AgentBalances, Zenon
<1>4. ASSUME NEW a \in Agents, StopPrevious(a)
      PROVE  PermitsMatchConnections'
  <2>1. /\ UNCHANGED <<attach, ctl>>
        /\ \A e \in Agents : e # a => agent'[e] = agent[e]
        /\ free' + HeldByAgent(agent'[a]) = free + HeldByAgent(agent[a])
    BY <1>0, <1>4 DEF StopPrevious, TypeOK, HeldByAgent
  <2> QED
    BY <1>0, <2>1, AgentBalances, Zenon
<1>5. ASSUME NEW a \in Agents, ForwardOpen(a)
      PROVE  PermitsMatchConnections'
  <2>1. /\ UNCHANGED <<attach, ctl>>
        /\ \A e \in Agents : e # a => agent'[e] = agent[e]
        /\ free' + HeldByAgent(agent'[a]) = free + HeldByAgent(agent[a])
    BY <1>0, <1>5 DEF ForwardOpen, TypeOK, HeldByAgent
  <2> QED
    BY <1>0, <2>1, AgentBalances, Zenon
<1>6. ASSUME NEW a \in Agents, BlockForward(a)
      PROVE  PermitsMatchConnections'
  <2>1. /\ UNCHANGED <<attach, ctl>>
        /\ \A e \in Agents : e # a => agent'[e] = agent[e]
        /\ free' + HeldByAgent(agent'[a]) = free + HeldByAgent(agent[a])
    BY <1>0, <1>6 DEF BlockForward, TypeOK, HeldByAgent
  <2> QED
    BY <1>0, <2>1, AgentBalances, Zenon
<1>7. ASSUME NEW a \in Agents, ResumeForward(a)
      PROVE  PermitsMatchConnections'
  <2>1. /\ UNCHANGED <<attach, ctl>>
        /\ \A e \in Agents : e # a => agent'[e] = agent[e]
        /\ free' + HeldByAgent(agent'[a]) = free + HeldByAgent(agent[a])
    BY <1>0, <1>7 DEF ResumeForward, TypeOK, HeldByAgent
  <2> QED
    BY <1>0, <2>1, AgentBalances, Zenon
<1>8. ASSUME NEW a \in Agents, ObserveShutdown(a)
      PROVE  PermitsMatchConnections'
  <2>1. /\ UNCHANGED <<attach, ctl>>
        /\ \A e \in Agents : e # a => agent'[e] = agent[e]
        /\ free' + HeldByAgent(agent'[a]) = free + HeldByAgent(agent[a])
    BY <1>0, <1>8 DEF ObserveShutdown, TypeOK, HeldByAgent
  <2> QED
    BY <1>0, <2>1, AgentBalances, Zenon
<1>9. ASSUME NEW a \in Agents, ControlEnds(a)
      PROVE  PermitsMatchConnections'
  <2>1. /\ UNCHANGED <<attach, ctl>>
        /\ \A e \in Agents : e # a => agent'[e] = agent[e]
        /\ free' + HeldByAgent(agent'[a]) = free + HeldByAgent(agent[a])
    BY <1>0, <1>9 DEF ControlEnds, TypeOK, HeldByAgent
  <2> QED
    BY <1>0, <2>1, AgentBalances, Zenon
<1>10. ASSUME NEW a \in Agents, FailPending(a)
      PROVE  PermitsMatchConnections'
  <2>1. /\ UNCHANGED <<attach, ctl>>
        /\ \A e \in Agents : e # a => agent'[e] = agent[e]
        /\ free' + HeldByAgent(agent'[a]) = free + HeldByAgent(agent[a])
    BY <1>0, <1>10 DEF FailPending, TypeOK, HeldByAgent
  <2> QED
    BY <1>0, <2>1, AgentBalances, Zenon
<1>11. ASSUME NEW a \in Agents, Unregister(a)
      PROVE  PermitsMatchConnections'
  <2>1. /\ UNCHANGED <<attach, ctl>>
        /\ \A e \in Agents : e # a => agent'[e] = agent[e]
        /\ free' + HeldByAgent(agent'[a]) = free + HeldByAgent(agent[a])
    BY <1>0, <1>11 DEF Unregister, TypeOK, HeldByAgent
  <2> QED
    BY <1>0, <2>1, AgentBalances, Zenon
<1>12. ASSUME NEW a \in Agents, AgentLeaves(a)
      PROVE  PermitsMatchConnections'
  <2>1. /\ UNCHANGED <<attach, ctl>>
        /\ \A e \in Agents : e # a => agent'[e] = agent[e]
        /\ free' + HeldByAgent(agent'[a]) = free + HeldByAgent(agent[a])
    BY <1>0, <1>12 DEF AgentLeaves, TypeOK, HeldByAgent
  <2> QED
    BY <1>0, <2>1, AgentBalances, Zenon
<1>13. ASSUME NEW a \in Agents, NEW s \in Attachers, WriteOpen(a, s)
      PROVE  PermitsMatchConnections'
  <2>1. /\ UNCHANGED <<agent, ctl>>
        /\ \A e \in Attachers : e # s => attach'[e] = attach[e]
        /\ free' + HeldByAttacher(attach'[s]) = free + HeldByAttacher(attach[s])
    BY <1>0, <1>13 DEF WriteOpen, TypeOK, HeldByAttacher
  <2> QED
    BY <1>0, <2>1, AttacherBalances, Zenon
<1>14. ASSUME NEW s \in Attachers, AcceptAttacher(s)
      PROVE  PermitsMatchConnections'
  <2>1. /\ UNCHANGED <<agent, ctl>>
        /\ \A e \in Attachers : e # s => attach'[e] = attach[e]
        /\ free' + HeldByAttacher(attach'[s]) = free + HeldByAttacher(attach[s])
    BY <1>0, <1>14 DEF AcceptAttacher, TypeOK, HeldByAttacher
  <2> QED
    BY <1>0, <2>1, AttacherBalances, Zenon
<1>15. ASSUME NEW s \in Attachers, AttachHelloFails(s)
      PROVE  PermitsMatchConnections'
  <2>1. /\ UNCHANGED <<agent, ctl>>
        /\ \A e \in Attachers : e # s => attach'[e] = attach[e]
        /\ free' + HeldByAttacher(attach'[s]) = free + HeldByAttacher(attach[s])
    BY <1>0, <1>15 DEF AttachHelloFails, TypeOK, HeldByAttacher
  <2> QED
    BY <1>0, <2>1, AttacherBalances, Zenon
<1>16. ASSUME NEW s \in Attachers, LookupAttach(s)
      PROVE  PermitsMatchConnections'
  <2>1. /\ UNCHANGED <<agent, ctl>>
        /\ \A e \in Attachers : e # s => attach'[e] = attach[e]
        /\ free' + HeldByAttacher(attach'[s]) = free + HeldByAttacher(attach[s])
    BY <1>0, <1>16 DEF LookupAttach, TypeOK, HeldByAttacher
  <2> QED
    BY <1>0, <2>1, AttacherBalances, Zenon
<1>17. ASSUME NEW s \in Attachers, TakePending(s)
      PROVE  PermitsMatchConnections'
  <2>1. /\ UNCHANGED <<agent, ctl>>
        /\ \A e \in Attachers : e # s => attach'[e] = attach[e]
        /\ free' + HeldByAttacher(attach'[s]) = free + HeldByAttacher(attach[s])
    BY <1>0, <1>17 DEF TakePending, TypeOK, HeldByAttacher
  <2> QED
    BY <1>0, <2>1, AttacherBalances, Zenon
<1>18. ASSUME NEW s \in Attachers, NothingPending(s)
      PROVE  PermitsMatchConnections'
  <2>1. /\ UNCHANGED <<agent, ctl>>
        /\ \A e \in Attachers : e # s => attach'[e] = attach[e]
        /\ free' + HeldByAttacher(attach'[s]) = free + HeldByAttacher(attach[s])
    BY <1>0, <1>18 DEF NothingPending, TypeOK, HeldByAttacher
  <2> QED
    BY <1>0, <2>1, AttacherBalances, Zenon
<1>19. ASSUME NEW s \in Attachers, RefuseAttach(s)
      PROVE  PermitsMatchConnections'
  <2>1. /\ UNCHANGED <<agent, ctl>>
        /\ \A e \in Attachers : e # s => attach'[e] = attach[e]
        /\ free' + HeldByAttacher(attach'[s]) = free + HeldByAttacher(attach[s])
    BY <1>0, <1>19 DEF RefuseAttach, TypeOK, HeldByAttacher
  <2> QED
    BY <1>0, <2>1, AttacherBalances, Zenon
<1>20. ASSUME NEW s \in Attachers, WriteAccepted(s)
      PROVE  PermitsMatchConnections'
  <2>1. /\ UNCHANGED <<agent, ctl>>
        /\ \A e \in Attachers : e # s => attach'[e] = attach[e]
        /\ free' + HeldByAttacher(attach'[s]) = free + HeldByAttacher(attach[s])
    BY <1>0, <1>20 DEF WriteAccepted, TypeOK, HeldByAttacher
  <2> QED
    BY <1>0, <2>1, AttacherBalances, Zenon
<1>21. ASSUME NEW s \in Attachers, SessionFails(s)
      PROVE  PermitsMatchConnections'
  <2>1. /\ UNCHANGED <<agent, ctl>>
        /\ \A e \in Attachers : e # s => attach'[e] = attach[e]
        /\ free' + HeldByAttacher(attach'[s]) = free + HeldByAttacher(attach[s])
    BY <1>0, <1>21 DEF SessionFails, TypeOK, HeldByAttacher
  <2> QED
    BY <1>0, <2>1, AttacherBalances, Zenon
<1>22. ASSUME NEW s \in Attachers, HandOff(s)
      PROVE  PermitsMatchConnections'
  <2>1. /\ UNCHANGED <<agent, ctl>>
        /\ \A e \in Attachers : e # s => attach'[e] = attach[e]
        /\ free' + HeldByAttacher(attach'[s]) = free + HeldByAttacher(attach[s])
    BY <1>0, <1>22 DEF HandOff, TypeOK, HeldByAttacher
  <2> QED
    BY <1>0, <2>1, AttacherBalances, Zenon
<1>23. ASSUME NEW s \in Attachers, HandOffTooLate(s)
      PROVE  PermitsMatchConnections'
  <2>1. /\ UNCHANGED <<agent, ctl>>
        /\ \A e \in Attachers : e # s => attach'[e] = attach[e]
        /\ free' + HeldByAttacher(attach'[s]) = free + HeldByAttacher(attach[s])
    BY <1>0, <1>23 DEF HandOffTooLate, TypeOK, HeldByAttacher
  <2> QED
    BY <1>0, <2>1, AttacherBalances, Zenon
<1>24. ASSUME NEW c \in Controllers, AcceptController(c)
      PROVE  PermitsMatchConnections'
  <2>1. /\ UNCHANGED <<agent, attach>>
        /\ \A e \in Controllers : e # c => ctl'[e] = ctl[e]
        /\ free' + HeldByController(ctl'[c]) = free + HeldByController(ctl[c])
    BY <1>0, <1>24 DEF AcceptController, TypeOK, HeldByController
  <2> QED
    BY <1>0, <2>1, ControllerBalances, Zenon
<1>25. ASSUME NEW c \in Controllers, ControllerHelloFails(c)
      PROVE  PermitsMatchConnections'
  <2>1. /\ UNCHANGED <<agent, attach>>
        /\ \A e \in Controllers : e # c => ctl'[e] = ctl[e]
        /\ free' + HeldByController(ctl'[c]) = free + HeldByController(ctl[c])
    BY <1>0, <1>25 DEF ControllerHelloFails, TypeOK, HeldByController
  <2> QED
    BY <1>0, <2>1, ControllerBalances, Zenon
<1>26. ASSUME NEW c \in Controllers, ListDevices(c)
      PROVE  PermitsMatchConnections'
  <2>1. /\ UNCHANGED <<agent, attach>>
        /\ \A e \in Controllers : e # c => ctl'[e] = ctl[e]
        /\ free' + HeldByController(ctl'[c]) = free + HeldByController(ctl[c])
    BY <1>0, <1>26 DEF ListDevices, TypeOK, HeldByController
  <2> QED
    BY <1>0, <2>1, ControllerBalances, Zenon
<1>27. ASSUME NEW c \in Controllers, LookupTarget(c)
      PROVE  PermitsMatchConnections'
  <2>1. /\ UNCHANGED <<agent, attach>>
        /\ \A e \in Controllers : e # c => ctl'[e] = ctl[e]
        /\ free' + HeldByController(ctl'[c]) = free + HeldByController(ctl[c])
    BY <1>0, <1>27 DEF LookupTarget, TypeOK, HeldByController
  <2> QED
    BY <1>0, <2>1, ControllerBalances, Zenon
<1>28. ASSUME NEW c \in Controllers, RegisterPending(c)
      PROVE  PermitsMatchConnections'
  <2>1. /\ UNCHANGED <<agent, attach>>
        /\ \A e \in Controllers : e # c => ctl'[e] = ctl[e]
        /\ free' + HeldByController(ctl'[c]) = free + HeldByController(ctl[c])
    BY <1>0, <1>28 DEF RegisterPending, TypeOK, HeldByController
  <2> QED
    BY <1>0, <2>1, ControllerBalances, Zenon
<1>29. ASSUME NEW c \in Controllers, TooManyPending(c)
      PROVE  PermitsMatchConnections'
  <2>1. /\ UNCHANGED <<agent, attach>>
        /\ \A e \in Controllers : e # c => ctl'[e] = ctl[e]
        /\ free' + HeldByController(ctl'[c]) = free + HeldByController(ctl[c])
    BY <1>0, <1>29 DEF TooManyPending, TypeOK, HeldByController
  <2> QED
    BY <1>0, <2>1, ControllerBalances, Zenon
<1>30. ASSUME NEW c \in Controllers, QueueOpen(c)
      PROVE  PermitsMatchConnections'
  <2>1. /\ UNCHANGED <<agent, attach>>
        /\ \A e \in Controllers : e # c => ctl'[e] = ctl[e]
        /\ free' + HeldByController(ctl'[c]) = free + HeldByController(ctl[c])
    BY <1>0, <1>30 DEF QueueOpen, TypeOK, HeldByController
  <2> QED
    BY <1>0, <2>1, ControllerBalances, Zenon
<1>31. ASSUME NEW c \in Controllers, QueueDisconnected(c)
      PROVE  PermitsMatchConnections'
  <2>1. CASE stream[c] = None
    <3>1. attach' = attach
      BY <1>0, <1>31, <2>1, ConnectionsAssumption DEF QueueDisconnected, DropReceiver, TypeOK
    <3>2. /\ UNCHANGED <<agent, attach>>
          /\ \A e \in Controllers : e # c => ctl'[e] = ctl[e]
          /\ free' + HeldByController(ctl'[c]) = free + HeldByController(ctl[c])
      BY <1>0, <1>31, <2>1, <3>1 DEF QueueDisconnected, DropReceiver, TypeOK, HeldByController
    <3> QED
      BY <1>0, <3>2, ControllerBalances, Zenon
  <2>2. CASE stream[c] # None
    <3>1. stream[c] \in Attachers /\ attach[stream[c]] = "handed"
      BY <1>s, <2>2
    <3>2. /\ UNCHANGED agent
          /\ \A e \in Controllers : e # c => ctl'[e] = ctl[e]
          /\ \A e \in Attachers : e # stream[c] => attach'[e] = attach[e]
          /\ attach'[stream[c]] = "gone"
          /\ ctl'[c] # "new" /\ ctl'[c] # "gone" /\ ctl[c] # "new" /\ ctl[c] # "gone"
          /\ free' = free + 1
      BY <1>0, <1>31, <2>2, <3>1 DEF QueueDisconnected, DropReceiver, TypeOK
    <3>3. free' + HeldByController(ctl'[c]) + HeldByAttacher(attach'[stream[c]])
              = free + HeldByController(ctl[c]) + HeldByAttacher(attach[stream[c]])
      BY <1>0, <3>1, <3>2 DEF HeldByController, HeldByAttacher
    <3> QED
      BY <1>0, <3>1, <3>2, <3>3, SessionBalances, Zenon
  <2> QED
    BY <2>1, <2>2
<1>32. ASSUME NEW c \in Controllers, OpenExpires(c)
      PROVE  PermitsMatchConnections'
  <2>1. CASE stream[c] = None
    <3>1. attach' = attach
      BY <1>0, <1>32, <2>1, ConnectionsAssumption DEF OpenExpires, DropReceiver, TypeOK
    <3>2. /\ UNCHANGED <<agent, attach>>
          /\ \A e \in Controllers : e # c => ctl'[e] = ctl[e]
          /\ free' + HeldByController(ctl'[c]) = free + HeldByController(ctl[c])
      BY <1>0, <1>32, <2>1, <3>1 DEF OpenExpires, DropReceiver, TypeOK, HeldByController
    <3> QED
      BY <1>0, <3>2, ControllerBalances, Zenon
  <2>2. CASE stream[c] # None
    <3>1. stream[c] \in Attachers /\ attach[stream[c]] = "handed"
      BY <1>s, <2>2
    <3>2. /\ UNCHANGED agent
          /\ \A e \in Controllers : e # c => ctl'[e] = ctl[e]
          /\ \A e \in Attachers : e # stream[c] => attach'[e] = attach[e]
          /\ attach'[stream[c]] = "gone"
          /\ ctl'[c] # "new" /\ ctl'[c] # "gone" /\ ctl[c] # "new" /\ ctl[c] # "gone"
          /\ free' = free + 1
      BY <1>0, <1>32, <2>2, <3>1 DEF OpenExpires, DropReceiver, TypeOK
    <3>3. free' + HeldByController(ctl'[c]) + HeldByAttacher(attach'[stream[c]])
              = free + HeldByController(ctl[c]) + HeldByAttacher(attach[stream[c]])
      BY <1>0, <3>1, <3>2 DEF HeldByController, HeldByAttacher
    <3> QED
      BY <1>0, <3>1, <3>2, <3>3, SessionBalances, Zenon
  <2> QED
    BY <2>1, <2>2
<1>33. ASSUME NEW c \in Controllers, ReceiveReply(c)
      PROVE  PermitsMatchConnections'
  <2>1. /\ UNCHANGED <<agent, attach>>
        /\ \A e \in Controllers : e # c => ctl'[e] = ctl[e]
        /\ free' + HeldByController(ctl'[c]) = free + HeldByController(ctl[c])
    BY <1>0, <1>33 DEF ReceiveReply, TypeOK, HeldByController
  <2> QED
    BY <1>0, <2>1, ControllerBalances, Zenon
<1>34. ASSUME NEW c \in Controllers, WithdrawPending(c)
      PROVE  PermitsMatchConnections'
  <2>1. /\ UNCHANGED <<agent, attach>>
        /\ \A e \in Controllers : e # c => ctl'[e] = ctl[e]
        /\ free' + HeldByController(ctl'[c]) = free + HeldByController(ctl[c])
    BY <1>0, <1>34 DEF WithdrawPending, TypeOK, HeldByController
  <2> QED
    BY <1>0, <2>1, ControllerBalances, Zenon
<1>35. ASSUME NEW c \in Controllers, RefuseController(c)
      PROVE  PermitsMatchConnections'
  <2>1. /\ UNCHANGED <<agent, attach>>
        /\ \A e \in Controllers : e # c => ctl'[e] = ctl[e]
        /\ free' + HeldByController(ctl'[c]) = free + HeldByController(ctl[c])
    BY <1>0, <1>35 DEF RefuseController, TypeOK, HeldByController
  <2> QED
    BY <1>0, <2>1, ControllerBalances, Zenon
<1>36. ASSUME NEW c \in Controllers, WriteReady(c)
      PROVE  PermitsMatchConnections'
  <2>1. /\ UNCHANGED <<agent, attach>>
        /\ \A e \in Controllers : e # c => ctl'[e] = ctl[e]
        /\ free' + HeldByController(ctl'[c]) = free + HeldByController(ctl[c])
    BY <1>0, <1>36 DEF WriteReady, TypeOK, HeldByController
  <2> QED
    BY <1>0, <2>1, ControllerBalances, Zenon
<1>37. ASSUME NEW c \in Controllers, CloseBoth(c)
      PROVE  PermitsMatchConnections'
  <2>1. stream[c] # None
    BY <1>37 DEF CloseBoth, IInv, StreamsAreReplies
  <2>2. stream[c] \in Attachers /\ attach[stream[c]] = "handed"
    BY <1>s, <2>1
  <2>3. /\ UNCHANGED agent
        /\ \A e \in Controllers : e # c => ctl'[e] = ctl[e]
        /\ \A e \in Attachers : e # stream[c] => attach'[e] = attach[e]
        /\ attach'[stream[c]] = "gone" /\ ctl'[c] = "gone"
        /\ ctl[c] # "new" /\ ctl[c] # "gone"
        /\ free' = free + 2
    BY <1>0, <1>37, <2>2 DEF CloseBoth, TypeOK
  <2>4. free' + HeldByController(ctl'[c]) + HeldByAttacher(attach'[stream[c]])
            = free + HeldByController(ctl[c]) + HeldByAttacher(attach[stream[c]])
    BY <1>0, <2>2, <2>3 DEF HeldByController, HeldByAttacher
  <2> QED
    BY <1>0, <2>2, <2>3, <2>4, SessionBalances, Zenon
<1>38. CASE UNCHANGED vars
  BY <1>38 DEF vars, PermitsMatchConnections, OpenAgents, OpenAttachers, OpenControllers
<1> HIDE DEF agentVars, attachVars, ctlVars
<1>39. ASSUME NEW a \in Agents, AgentStep(a)
      PROVE  PermitsMatchConnections'
  BY <1>39, <1>1, <1>2, <1>3, <1>4, <1>5, <1>6, <1>7, <1>8, <1>9, <1>10, <1>11,
     <1>12, <1>13
     DEF AgentStep
<1>40. ASSUME NEW s \in Attachers, AttachStep(s)
      PROVE  PermitsMatchConnections'
  BY <1>40, <1>14, <1>15, <1>16, <1>17, <1>18, <1>19, <1>20, <1>21, <1>22, <1>23
     DEF AttachStep
<1>41. ASSUME NEW c \in Controllers, ControllerStep(c)
      PROVE  PermitsMatchConnections'
  BY <1>41, <1>24, <1>25, <1>26, <1>27, <1>28, <1>29, <1>30, <1>31, <1>32, <1>33,
     <1>34, <1>35, <1>36, <1>37
     DEF ControllerStep, ControllerMoves
<1> QED
  BY <1>38, <1>39, <1>40, <1>41 DEF Next, Quiet

\* However connections fail, are refused, give up or end, no permit is lost and
\* none is returned twice (accept loop, SessionHandoff 98-101).
THEOREM NoPermitIsLost == Spec => []PermitsMatchConnections
BY Invariant, PermitsInit, PermitsStep, PTL DEF Spec

-----------------------------------------------------------------------------
(* The promise.                                                            *)

\* A controller's answer is its last act, but for Ready, which a bridge follows.
AnswersAreLast ==
    \A c \in Controllers : frame[c] # "none" => ctl[c] \in {"bridging", "gone"}

LEMMA AnswersStep ==
    TypeOK /\ AnswersAreLast /\ [Next]_vars => AnswersAreLast'
<1> SUFFICES ASSUME TypeOK, AnswersAreLast, [Next]_vars
             PROVE  AnswersAreLast'
  OBVIOUS
<1>0. /\ ctl \in [Controllers -> CtlLabels]
      /\ frame \in [Controllers -> {"none", "DeviceList", "Failed", "Ready"}]
  BY DEF TypeOK
<1>1. CASE UNCHANGED <<ctl, frame>>
  BY <1>1 DEF AnswersAreLast
<1>2. ASSUME NEW a \in Agents, AgentStep(a)
      PROVE  UNCHANGED <<ctl, frame>>
  BY <1>2 DEF AgentStep, AcceptAgent, AgentHelloFails, RegisterAgent, StopPrevious,
     ForwardOpen, BlockForward, ResumeForward, WriteOpen, ObserveShutdown,
     ControlEnds, FailPending, Unregister, AgentLeaves, ctlVars
<1>3. ASSUME NEW s \in Attachers, AttachStep(s)
      PROVE  UNCHANGED <<ctl, frame>>
  BY <1>3 DEF AttachStep, AcceptAttacher, AttachHelloFails, LookupAttach,
     TakePending, NothingPending, RefuseAttach, WriteAccepted, SessionFails,
     HandOff, HandOffTooLate, ctlVars
<1>4. ASSUME NEW c \in Controllers,
             \/ AcceptController(c) \/ ControllerHelloFails(c) \/ ListDevices(c)
             \/ LookupTarget(c) \/ RegisterPending(c) \/ TooManyPending(c)
             \/ QueueOpen(c) \/ QueueDisconnected(c) \/ OpenExpires(c)
             \/ ReceiveReply(c) \/ WithdrawPending(c)
      PROVE  AnswersAreLast'
  BY <1>0, <1>4 DEF AnswersAreLast, AcceptController, ControllerHelloFails,
     ListDevices, LookupTarget, RegisterPending, TooManyPending, QueueOpen,
     QueueDisconnected, OpenExpires, ReceiveReply, WithdrawPending
<1>5. ASSUME NEW c \in Controllers,
             RefuseController(c) \/ WriteReady(c) \/ CloseBoth(c)
      PROVE  AnswersAreLast'
  BY <1>0, <1>5 DEF AnswersAreLast, RefuseController, WriteReady, CloseBoth
<1>6. ASSUME NEW c \in Controllers, ControllerStep(c)
      PROVE  AnswersAreLast'
  BY <1>4, <1>5, <1>6 DEF ControllerStep, ControllerMoves
<1>7. CASE UNCHANGED vars
  BY <1>1, <1>7 DEF vars, ctlVars
<1> QED
  BY <1>1, <1>2, <1>3, <1>6, <1>7 DEF Next, Quiet

\* What the refinement relies on.
PInv == IInv /\ AnswersAreLast

LEMMA PInvAlways == Spec => []PInv
<1>1. Init => AnswersAreLast
  BY DEF Init, AnswersAreLast
<1>2. IInv => TypeOK
  BY DEF IInv
<1> QED
  BY Invariant, <1>1, <1>2, AnswersStep, PTL DEF Spec, PInv

\* Some controller has been told Ready and is bridged to the stream s.
Bridged(s) == \E c \in Controllers : ctl[c] = "bridging" /\ stream[c] = s

\* What the abstract view shows of one stream and of one controller.
LEMMA BridgeIs ==
    ASSUME NEW c \in Controllers
    PROVE  /\ bridgeBar[c] = IF ctl[c] = "bridging" THEN stream[c] ELSE None
           /\ bridgeBar'[c] = IF ctl'[c] = "bridging" THEN stream'[c] ELSE None
BY DEF bridgeBar

LEMMA OfferIs ==
    ASSUME NEW s \in Attachers
    PROVE  /\ offerBar[s] = IF attach[s] = "gone" THEN "closed"
                            ELSE IF attach[s] # "handed" THEN "none"
                            ELSE IF Bridged(s) THEN "granted" ELSE "offered"
           /\ offerBar'[s] = IF attach'[s] = "gone" THEN "closed"
                             ELSE IF attach'[s] # "handed" THEN "none"
                             ELSE IF Bridged(s)' THEN "granted" ELSE "offered"
<1>1. Bridged(s) <=> \E c \in Controllers : bridgeBar[c] = s
  BY BridgeIs, ConnectionsAssumption DEF Bridged
<1>2. Bridged(s)' <=> \E c \in Controllers : bridgeBar'[c] = s
  BY BridgeIs, ConnectionsAssumption DEF Bridged
<1> QED
  BY <1>1, <1>2, Zenon DEF offerBar

\* A function that changed at one stream was updated there.
LEMMA OfferChanges ==
    ASSUME NEW s \in Attachers, NEW v,
           \A t \in Attachers : offerBar'[t] = IF t = s THEN v ELSE offerBar[t]
    PROVE  offerBar' = [offerBar EXCEPT ![s] = v]
<1>1. offerBar = [t \in Attachers |-> offerBar[t]]
  BY DEF offerBar
<1>2. offerBar' = [t \in Attachers |-> offerBar'[t]]
  BY DEF offerBar
<1> QED
  BY <1>1, <1>2

\* A stream in a controller's hands is bridged only if that controller is.
LEMMA BridgedByHolder ==
    ASSUME StreamsMatchRequests, NEW c \in Controllers, stream[c] # None,
           Bridged(stream[c])
    PROVE  ctl[c] = "bridging"
BY DEF StreamsMatchRequests, Bridged

\* Nobody is bridged to a stream that was not handed off.
LEMMA BridgedIsHanded ==
    ASSUME StreamsMatchRequests, NEW s \in Attachers, Bridged(s)
    PROVE  attach[s] = "handed"
BY ConnectionsAssumption DEF StreamsMatchRequests, Bridged

\* No controller starts or ends a bridge.
BridgesStay ==
    \A c \in Controllers :
        /\ ctl'[c] = "bridging" <=> ctl[c] = "bridging"
        /\ ctl[c] = "bridging" => stream'[c] = stream[c]

LEMMA BridgesStayed ==
    ASSUME BridgesStay
    PROVE  bridgeBar' = bridgeBar /\ \A s \in Attachers : Bridged(s)' <=> Bridged(s)
BY DEF BridgesStay, bridgeBar, Bridged

\* A step that answers nobody, moves no bridge and neither hands off nor ends a
\* stream cannot be seen.
LEMMA Unseen ==
    ASSUME BridgesStay, UNCHANGED frame,
           \A s \in Attachers :
               /\ attach'[s] = "gone" <=> attach[s] = "gone"
               /\ attach'[s] = "handed" <=> attach[s] = "handed"
               /\ attach[s] = "handed" => job'[s] = job[s]
    PROVE  UNCHANGED Promise!vars
<1>1. bridgeBar' = bridgeBar /\ \A s \in Attachers : Bridged(s)' <=> Bridged(s)
  BY BridgesStayed
<1>2. \A s \in Attachers : offerBar'[s] = offerBar[s]
  BY <1>1, OfferIs
<1>3. offerBar' = offerBar
  BY <1>2 DEF offerBar
<1>4. offeredBar' = offeredBar
  BY DEF offeredBar
<1> QED
  BY <1>1, <1>3, <1>4 DEF Promise!vars

\* The end of a stream that nobody is bridged to is a Drop.
LEMMA Dropped ==
    ASSUME BridgesStay, UNCHANGED <<frame, job>>,
           NEW s \in Attachers, attach[s] # "gone", ~Bridged(s),
           attach'[s] = "gone",
           \A t \in Attachers : t # s => attach'[t] = attach[t]
    PROVE  Promise!Drop(s)
<1>1. bridgeBar' = bridgeBar /\ \A t \in Attachers : Bridged(t)' <=> Bridged(t)
  BY BridgesStayed
<1>2. offerBar[s] \in {"none", "offered"}
  BY OfferIs
<1>3. \A t \in Attachers : offerBar'[t] = IF t = s THEN "closed" ELSE offerBar[t]
  BY <1>1, OfferIs
<1>4. offerBar' = [offerBar EXCEPT ![s] = "closed"]
  BY <1>3, OfferChanges, Zenon
<1>5. offeredBar' = [offeredBar EXCEPT ![s] = None]
  BY DEF offeredBar
<1> QED
  BY <1>1, <1>2, <1>4, <1>5 DEF Promise!Drop

\* Every step of the relay is a step of the promise or cannot be seen.
LEMMA PromiseStep ==
    PInv /\ [Next]_vars => [Promise!Next]_Promise!vars
<1> SUFFICES ASSUME PInv, [Next]_vars
             PROVE  [Promise!Next]_Promise!vars
  OBVIOUS
<1>0. /\ IInv /\ StreamsMatchRequests /\ StreamsAreReplies /\ HandlesAreSet
      /\ AnswersAreLast
  BY DEF PInv, IInv
<1>t. /\ attach \in [Attachers -> AttachLabels]
      /\ job \in [Attachers -> Jobs \cup {None}]
      /\ sender \in [Attachers -> Controllers \cup {None}]
      /\ ctl \in [Controllers -> CtlLabels]
      /\ stream \in [Controllers -> Attachers \cup {None}]
      /\ frame \in [Controllers -> {"none", "DeviceList", "Failed", "Ready"}]
  BY DEF PInv, IInv, TypeOK
<1>d. ASSUME NEW s \in Attachers, Promise!Drop(s)
      PROVE  Promise!Next
  BY <1>d DEF Promise!Next
<1>u. ASSUME UNCHANGED <<attach, job, ctl, stream, frame>>
      PROVE  UNCHANGED Promise!vars
  BY <1>u, Unseen DEF BridgesStay
<1>1. ASSUME NEW a \in Agents,
             \/ AcceptAgent(a) \/ AgentHelloFails(a) \/ RegisterAgent(a)
             \/ StopPrevious(a) \/ ForwardOpen(a) \/ BlockForward(a)
             \/ ResumeForward(a) \/ ObserveShutdown(a) \/ ControlEnds(a)
             \/ FailPending(a) \/ Unregister(a) \/ AgentLeaves(a)
      PROVE  [Promise!Next]_Promise!vars
  <2>1. UNCHANGED <<attach, job, ctl, stream, frame>>
    BY <1>1 DEF AcceptAgent, AgentHelloFails, RegisterAgent, StopPrevious, ForwardOpen,
       BlockForward, ResumeForward, ObserveShutdown, ControlEnds, FailPending,
       Unregister, AgentLeaves, attachVars, ctlVars
  <2> QED
    BY <2>1, <1>u
<1>2. ASSUME NEW a \in Agents, NEW s \in Attachers, WriteOpen(a, s)
      PROVE  [Promise!Next]_Promise!vars
  <2>1. /\ BridgesStay /\ UNCHANGED frame
        /\ \A t \in Attachers :
              /\ attach'[t] = "gone" <=> attach[t] = "gone"
              /\ attach'[t] = "handed" <=> attach[t] = "handed"
              /\ attach[t] = "handed" => job'[t] = job[t]
    BY <1>t, <1>2 DEF WriteOpen, BridgesStay, ctlVars
  <2> QED
    BY <2>1, Unseen, Zenon
<1>3. ASSUME NEW s \in Attachers, AcceptAttacher(s)
      PROVE  [Promise!Next]_Promise!vars
  <2>1. /\ BridgesStay /\ UNCHANGED <<frame, job>>
        /\ attach[s] = "dialing" /\ attach'[s] \in {"hello", "gone"}
        /\ \A t \in Attachers : t # s => attach'[t] = attach[t]
    BY <1>t, <1>3 DEF AcceptAttacher, BridgesStay, ctlVars
  <2>2. CASE attach'[s] = "hello"
    <3>1. \A t \in Attachers :
              /\ attach'[t] = "gone" <=> attach[t] = "gone"
              /\ attach'[t] = "handed" <=> attach[t] = "handed"
              /\ attach[t] = "handed" => job'[t] = job[t]
      BY <2>1, <2>2
    <3> QED
      BY <2>1, <3>1, Unseen
  <2>3. CASE attach'[s] = "gone"
    <3>1. ~Bridged(s) /\ attach[s] # "gone"
      BY <1>0, <2>1, BridgedIsHanded
    <3> QED
      BY <1>d, <2>1, <2>3, <3>1, Dropped, Zenon
  <2> QED
    BY <2>1, <2>2, <2>3
<1>4. ASSUME NEW s \in Attachers, AttachHelloFails(s)
      PROVE  [Promise!Next]_Promise!vars
  <2>1. /\ BridgesStay /\ UNCHANGED <<frame, job>>
        /\ attach[s] \notin {"gone", "handed"} /\ attach'[s] = "gone"
        /\ \A t \in Attachers : t # s => attach'[t] = attach[t]
    BY <1>t, <1>4 DEF AttachHelloFails, BridgesStay, ctlVars
  <2>2. ~Bridged(s) /\ attach[s] # "gone"
    BY <1>0, <2>1, BridgedIsHanded
  <2> QED
    BY <1>d, <2>1, <2>2, Dropped, Zenon
<1>5. ASSUME NEW s \in Attachers, LookupAttach(s)
      PROVE  [Promise!Next]_Promise!vars
  <2>1. /\ BridgesStay /\ UNCHANGED frame
        /\ \A t \in Attachers :
              /\ attach'[t] = "gone" <=> attach[t] = "gone"
              /\ attach'[t] = "handed" <=> attach[t] = "handed"
              /\ attach[t] = "handed" => job'[t] = job[t]
    BY <1>t, <1>5 DEF LookupAttach, BridgesStay, ctlVars
  <2> QED
    BY <2>1, Unseen, Zenon
<1>6. ASSUME NEW s \in Attachers, TakePending(s)
      PROVE  [Promise!Next]_Promise!vars
  <2>1. /\ BridgesStay /\ UNCHANGED frame
        /\ \A t \in Attachers :
              /\ attach'[t] = "gone" <=> attach[t] = "gone"
              /\ attach'[t] = "handed" <=> attach[t] = "handed"
              /\ attach[t] = "handed" => job'[t] = job[t]
    BY <1>t, <1>6 DEF TakePending, BridgesStay, ctlVars
  <2> QED
    BY <2>1, Unseen, Zenon
<1>7. ASSUME NEW s \in Attachers, NothingPending(s)
      PROVE  [Promise!Next]_Promise!vars
  <2>1. /\ BridgesStay /\ UNCHANGED frame
        /\ \A t \in Attachers :
              /\ attach'[t] = "gone" <=> attach[t] = "gone"
              /\ attach'[t] = "handed" <=> attach[t] = "handed"
              /\ attach[t] = "handed" => job'[t] = job[t]
    BY <1>t, <1>7 DEF NothingPending, BridgesStay, ctlVars
  <2> QED
    BY <2>1, Unseen, Zenon
<1>8. ASSUME NEW s \in Attachers, RefuseAttach(s)
      PROVE  [Promise!Next]_Promise!vars
  <2>1. /\ BridgesStay /\ UNCHANGED <<frame, job>>
        /\ attach[s] \notin {"gone", "handed"} /\ attach'[s] = "gone"
        /\ \A t \in Attachers : t # s => attach'[t] = attach[t]
    BY <1>t, <1>8 DEF RefuseAttach, BridgesStay, ctlVars
  <2>2. ~Bridged(s) /\ attach[s] # "gone"
    BY <1>0, <2>1, BridgedIsHanded
  <2> QED
    BY <1>d, <2>1, <2>2, Dropped, Zenon
<1>9. ASSUME NEW s \in Attachers, WriteAccepted(s)
      PROVE  [Promise!Next]_Promise!vars
  <2>1. /\ BridgesStay /\ UNCHANGED frame
        /\ \A t \in Attachers :
              /\ attach'[t] = "gone" <=> attach[t] = "gone"
              /\ attach'[t] = "handed" <=> attach[t] = "handed"
              /\ attach[t] = "handed" => job'[t] = job[t]
    BY <1>t, <1>9 DEF WriteAccepted, BridgesStay, ctlVars
  <2> QED
    BY <2>1, Unseen, Zenon
<1>10. ASSUME NEW s \in Attachers, SessionFails(s)
      PROVE  [Promise!Next]_Promise!vars
  <2>1. /\ BridgesStay /\ UNCHANGED <<frame, job>>
        /\ attach[s] \notin {"gone", "handed"} /\ attach'[s] = "gone"
        /\ \A t \in Attachers : t # s => attach'[t] = attach[t]
    BY <1>t, <1>10 DEF SessionFails, BridgesStay
  <2>2. ~Bridged(s) /\ attach[s] # "gone"
    BY <1>0, <2>1, BridgedIsHanded
  <2> QED
    BY <1>d, <2>1, <2>2, Dropped, Zenon
<1>11. ASSUME NEW s \in Attachers, HandOff(s)
      PROVE  [Promise!Next]_Promise!vars
  <2>1. /\ attach[s] = "awaiting" /\ attach'[s] = "handed"
        /\ \A t \in Attachers : t # s => attach'[t] = attach[t]
        /\ UNCHANGED <<frame, job, ctl>>
    BY <1>t, <1>11 DEF HandOff
  <2>2. BridgesStay
    BY <1>t, <1>11 DEF HandOff, Listening, BridgesStay
  <2>3. bridgeBar' = bridgeBar /\ \A t \in Attachers : Bridged(t)' <=> Bridged(t)
    BY <2>2, BridgesStayed
  <2>4. ~Bridged(s)
    BY <1>0, <2>1, BridgedIsHanded
  <2>5. \A t \in Attachers : offerBar'[t] = IF t = s THEN "offered" ELSE offerBar[t]
    BY <2>1, <2>3, <2>4, OfferIs
  <2>6. offerBar[s] = "none" /\ offerBar' = [offerBar EXCEPT ![s] = "offered"]
    <3>1. offerBar[s] = "none"
      BY <2>1, OfferIs
    <3> QED
      BY <2>5, <3>1, OfferChanges, Zenon
  <2>7. offeredBar' = [offeredBar EXCEPT ![s] = job[s]]
    BY <2>1 DEF offeredBar
  <2>8. job[s] \in Promise!Sessions
    BY <1>0, <2>1 DEF HandlesAreSet, Promise!Sessions
  <2>9. Promise!Offer(s, job[s])
    BY <2>1, <2>3, <2>6, <2>7, Zenon DEF Promise!Offer
  <2> QED
    BY <2>8, <2>9, Zenon DEF Promise!Next
<1>12. ASSUME NEW s \in Attachers, HandOffTooLate(s)
      PROVE  [Promise!Next]_Promise!vars
  <2>1. /\ BridgesStay /\ UNCHANGED <<frame, job>>
        /\ attach[s] \notin {"gone", "handed"} /\ attach'[s] = "gone"
        /\ \A t \in Attachers : t # s => attach'[t] = attach[t]
    BY <1>t, <1>12 DEF HandOffTooLate, BridgesStay, ctlVars
  <2>2. ~Bridged(s) /\ attach[s] # "gone"
    BY <1>0, <2>1, BridgedIsHanded
  <2> QED
    BY <1>d, <2>1, <2>2, Dropped, Zenon
<1>13. ASSUME NEW c \in Controllers, AcceptController(c)
      PROVE  [Promise!Next]_Promise!vars
  <2>1. /\ BridgesStay /\ UNCHANGED frame
        /\ \A t \in Attachers :
              /\ attach'[t] = "gone" <=> attach[t] = "gone"
              /\ attach'[t] = "handed" <=> attach[t] = "handed"
              /\ attach[t] = "handed" => job'[t] = job[t]
    BY <1>t, <1>13 DEF AcceptController, BridgesStay, attachVars
  <2> QED
    BY <2>1, Unseen, Zenon
<1>14. ASSUME NEW c \in Controllers, ControllerHelloFails(c)
      PROVE  [Promise!Next]_Promise!vars
  <2>1. /\ BridgesStay /\ UNCHANGED frame
        /\ \A t \in Attachers :
              /\ attach'[t] = "gone" <=> attach[t] = "gone"
              /\ attach'[t] = "handed" <=> attach[t] = "handed"
              /\ attach[t] = "handed" => job'[t] = job[t]
    BY <1>t, <1>14 DEF ControllerHelloFails, BridgesStay, attachVars
  <2> QED
    BY <2>1, Unseen, Zenon
<1>15. ASSUME NEW c \in Controllers, NEW f \in {"none", "Failed", "DeviceList"},
             ctl[c] \in {"hello", "refusing"}, ctl' = [ctl EXCEPT ![c] = "gone"],
             frame' = [frame EXCEPT ![c] = f], UNCHANGED <<attach, job, stream>>
      PROVE  [Promise!Next]_Promise!vars
  <2>1. BridgesStay
    BY <1>t, <1>15 DEF BridgesStay
  <2>2. frame[c] = "none"
    BY <1>0, <1>15 DEF AnswersAreLast
  <2>3. CASE f = "none"
    <3>1. frame' = frame
      BY <1>t, <1>15, <2>2, <2>3
    <3> QED
      BY <1>15, <2>1, <3>1, Unseen
  <2>4. CASE f # "none"
    <3>1. bridgeBar' = bridgeBar /\ \A s \in Attachers : Bridged(s)' <=> Bridged(s)
      BY <2>1, BridgesStayed
    <3>2. \A s \in Attachers : offerBar'[s] = offerBar[s]
      BY <1>15, <3>1, OfferIs
    <3>3. offerBar' = offerBar /\ offeredBar' = offeredBar
      BY <1>15, <3>2 DEF offerBar, offeredBar
    <3>4. Promise!Answer(c, f)
      BY <1>15, <2>2, <3>1, <3>3, Zenon DEF Promise!Answer
    <3>5. f \in {"Failed", "DeviceList"}
      BY <2>4
    <3> QED
      BY <3>4, <3>5, Zenon DEF Promise!Next
  <2> QED
    BY <2>3, <2>4
<1>16. ASSUME NEW c \in Controllers, ListDevices(c)
      PROVE  [Promise!Next]_Promise!vars
  BY <1>16, <1>15 DEF ListDevices, attachVars
<1>17. ASSUME NEW c \in Controllers, RefuseController(c)
      PROVE  [Promise!Next]_Promise!vars
  <2>1. PICK f \in {"none", "Failed"} : frame' = [frame EXCEPT ![c] = f]
    BY <1>17 DEF RefuseController
  <2> QED
    BY <1>17, <2>1, <1>15 DEF RefuseController, attachVars
<1>18. ASSUME NEW c \in Controllers, LookupTarget(c)
      PROVE  [Promise!Next]_Promise!vars
  <2>1. /\ BridgesStay /\ UNCHANGED frame
        /\ \A t \in Attachers :
              /\ attach'[t] = "gone" <=> attach[t] = "gone"
              /\ attach'[t] = "handed" <=> attach[t] = "handed"
              /\ attach[t] = "handed" => job'[t] = job[t]
    BY <1>t, <1>18 DEF LookupTarget, BridgesStay, attachVars
  <2> QED
    BY <2>1, Unseen, Zenon
<1>19. ASSUME NEW c \in Controllers, RegisterPending(c)
      PROVE  [Promise!Next]_Promise!vars
  <2>1. /\ BridgesStay /\ UNCHANGED frame
        /\ \A t \in Attachers :
              /\ attach'[t] = "gone" <=> attach[t] = "gone"
              /\ attach'[t] = "handed" <=> attach[t] = "handed"
              /\ attach[t] = "handed" => job'[t] = job[t]
    BY <1>t, <1>19 DEF RegisterPending, BridgesStay, attachVars
  <2> QED
    BY <2>1, Unseen, Zenon
<1>20. ASSUME NEW c \in Controllers, TooManyPending(c)
      PROVE  [Promise!Next]_Promise!vars
  <2>1. /\ BridgesStay /\ UNCHANGED frame
        /\ \A t \in Attachers :
              /\ attach'[t] = "gone" <=> attach[t] = "gone"
              /\ attach'[t] = "handed" <=> attach[t] = "handed"
              /\ attach[t] = "handed" => job'[t] = job[t]
    BY <1>t, <1>20 DEF TooManyPending, BridgesStay, attachVars
  <2> QED
    BY <2>1, Unseen, Zenon
<1>21. ASSUME NEW c \in Controllers, QueueOpen(c)
      PROVE  [Promise!Next]_Promise!vars
  <2>1. /\ BridgesStay /\ UNCHANGED frame
        /\ \A t \in Attachers :
              /\ attach'[t] = "gone" <=> attach[t] = "gone"
              /\ attach'[t] = "handed" <=> attach[t] = "handed"
              /\ attach[t] = "handed" => job'[t] = job[t]
    BY <1>t, <1>21 DEF QueueOpen, BridgesStay, attachVars
  <2> QED
    BY <2>1, Unseen, Zenon
<1>22. ASSUME NEW c \in Controllers, ctl[c] # "bridging", DropReceiver(c),
             ctl'[c] # "bridging", UNCHANGED <<job, frame>>,
             \A e \in Controllers : e # c => ctl'[e] = ctl[e]
      PROVE  [Promise!Next]_Promise!vars
  <2>1. BridgesStay
    BY <1>t, <1>22 DEF DropReceiver, BridgesStay
  <2>2. CASE stream[c] = None
    <3>1. \A s \in Attachers : attach'[s] = attach[s]
      BY <1>22, <2>2, ConnectionsAssumption DEF DropReceiver
    <3> QED
      BY <1>22, <2>1, <3>1, Unseen
  <2>3. CASE stream[c] # None
    <3>1. stream[c] \in Attachers /\ attach[stream[c]] = "handed"
      BY <1>0, <1>t, <2>3, StreamIsHanded
    <3>2. ~Bridged(stream[c])
      BY <1>0, <1>22, <2>3, BridgedByHolder
    <3>3. /\ attach'[stream[c]] = "gone"
          /\ \A t \in Attachers : t # stream[c] => attach'[t] = attach[t]
      BY <1>22, <3>1 DEF DropReceiver
    <3>4. attach[stream[c]] # "gone"
      BY <3>1
    <3>5. Promise!Drop(stream[c])
      BY <1>22, <2>1, <3>1, <3>2, <3>3, <3>4, Dropped, Zenon
    <3> QED
      BY <1>d, <3>1, <3>5
  <2> QED
    BY <2>2, <2>3
<1>23. ASSUME NEW c \in Controllers, QueueDisconnected(c)
      PROVE  [Promise!Next]_Promise!vars
  <2>1. /\ ctl[c] # "bridging" /\ ctl'[c] # "bridging" /\ UNCHANGED <<job, frame>>
        /\ \A e \in Controllers : e # c => ctl'[e] = ctl[e]
    BY <1>t, <1>23 DEF QueueDisconnected
  <2>2. DropReceiver(c)
    BY <1>23 DEF QueueDisconnected
  <2> QED
    BY <2>1, <2>2, <1>22
<1>24. ASSUME NEW c \in Controllers, OpenExpires(c)
      PROVE  [Promise!Next]_Promise!vars
  <2>1. /\ ctl[c] # "bridging" /\ ctl'[c] # "bridging" /\ UNCHANGED <<job, frame>>
        /\ \A e \in Controllers : e # c => ctl'[e] = ctl[e]
    BY <1>t, <1>24 DEF OpenExpires
  <2>2. DropReceiver(c)
    BY <1>24 DEF OpenExpires
  <2> QED
    BY <2>1, <2>2, <1>22
<1>25. ASSUME NEW c \in Controllers, ReceiveReply(c)
      PROVE  [Promise!Next]_Promise!vars
  <2>1. /\ BridgesStay /\ UNCHANGED frame
        /\ \A t \in Attachers :
              /\ attach'[t] = "gone" <=> attach[t] = "gone"
              /\ attach'[t] = "handed" <=> attach[t] = "handed"
              /\ attach[t] = "handed" => job'[t] = job[t]
    BY <1>t, <1>25 DEF ReceiveReply, BridgesStay, attachVars
  <2> QED
    BY <2>1, Unseen, Zenon
<1>26. ASSUME NEW c \in Controllers, WithdrawPending(c)
      PROVE  [Promise!Next]_Promise!vars
  <2>1. /\ BridgesStay /\ UNCHANGED frame
        /\ \A t \in Attachers :
              /\ attach'[t] = "gone" <=> attach[t] = "gone"
              /\ attach'[t] = "handed" <=> attach[t] = "handed"
              /\ attach[t] = "handed" => job'[t] = job[t]
    BY <1>t, <1>26 DEF WithdrawPending, BridgesStay, attachVars
  <2> QED
    BY <2>1, Unseen, Zenon
<1>27. ASSUME NEW c \in Controllers, WriteReady(c)
      PROVE  [Promise!Next]_Promise!vars
  <2> DEFINE s == stream[c]
  <2>1. /\ ctl[c] = "granted" /\ ctl' = [ctl EXCEPT ![c] = "bridging"]
        /\ frame' = [frame EXCEPT ![c] = "Ready"] /\ UNCHANGED <<attach, job, stream>>
    BY <1>27 DEF WriteReady, attachVars
  <2>2. s # None
    BY <1>0, <2>1 DEF StreamsAreReplies
  <2>3. /\ s \in Attachers /\ attach[s] = "handed"
        /\ job[s] = [device |-> Target[c], id |-> IdOf[c]]
    BY <1>0, <1>t, <2>2 DEF StreamsMatchRequests
  <2>4. ~Bridged(s)
    BY <1>0, <2>1, <2>2, BridgedByHolder
  <2>5. bridgeBar' = [bridgeBar EXCEPT ![c] = s]
    BY <1>t, <2>1 DEF bridgeBar
  <2>6. ASSUME NEW t \in Attachers
        PROVE  Bridged(t)' <=> (Bridged(t) \/ t = s)
    BY <1>t, <2>1 DEF Bridged
  <2>7. \A t \in Attachers : offerBar'[t] = IF t = s THEN "granted" ELSE offerBar[t]
    BY <2>1, <2>3, <2>6, OfferIs
  <2>8. offerBar[s] = "offered"
    BY <2>3, <2>4, OfferIs
  <2>9. offerBar' = [offerBar EXCEPT ![s] = "granted"]
    BY <2>3, <2>7, OfferChanges, Zenon
  <2>10. offeredBar' = offeredBar /\ offeredBar[s] = job[s]
    BY <2>1, <2>3 DEF offeredBar
  <2>11. frame[c] = "none"
    BY <1>0, <2>1 DEF AnswersAreLast
  <2>12. Promise!Grant(c, s)
    BY <2>1, <2>3, <2>5, <2>8, <2>9, <2>10, <2>11, Zenon DEF Promise!Grant
  <2> QED
    BY <2>3, <2>12, Zenon DEF Promise!Next
<1>28. ASSUME NEW c \in Controllers, CloseBoth(c)
      PROVE  [Promise!Next]_Promise!vars
  <2> DEFINE s == stream[c]
  <2>1. /\ ctl[c] \in {"granted", "bridging"} /\ ctl' = [ctl EXCEPT ![c] = "gone"]
        /\ attach' = [attach EXCEPT ![s] = "gone"]
        /\ stream' = [stream EXCEPT ![c] = None] /\ UNCHANGED <<job, frame>>
    BY <1>28 DEF CloseBoth
  <2>2. s # None
    BY <1>0, <2>1 DEF StreamsAreReplies
  <2>3. s \in Attachers /\ attach[s] = "handed"
    BY <1>0, <1>t, <2>2, StreamIsHanded
  <2>4. /\ attach'[s] = "gone" /\ attach[s] # "gone"
        /\ \A t \in Attachers : t # s => attach'[t] = attach[t]
    BY <1>t, <2>1, <2>3
  <2>5. CASE ctl[c] = "granted"
    <3>1. BridgesStay
      BY <1>t, <2>1, <2>5 DEF BridgesStay
    <3>2. ~Bridged(s)
      BY <1>0, <2>2, <2>5, BridgedByHolder
    <3>3. Promise!Drop(s)
      BY <2>1, <2>3, <2>4, <3>1, <3>2, Dropped, Zenon
    <3> QED
      BY <1>d, <2>3, <3>3
  <2>6. CASE ctl[c] = "bridging"
    <3>1. bridgeBar[c] = s /\ bridgeBar' = [bridgeBar EXCEPT ![c] = None]
      BY <1>t, <2>1, <2>6 DEF bridgeBar
    <3>2. ASSUME NEW t \in Attachers, t # s
          PROVE  Bridged(t)' <=> Bridged(t)
      BY <1>t, <2>1, <2>6, <3>2 DEF Bridged
    <3>3. \A t \in Attachers : offerBar'[t] = IF t = s THEN "closed" ELSE offerBar[t]
      BY <2>4, <3>2, OfferIs
    <3>4. offerBar' = [offerBar EXCEPT ![s] = "closed"]
      BY <2>3, <3>3, OfferChanges, Zenon
    <3>5. offeredBar' = [offeredBar EXCEPT ![s] = None]
      BY <2>1, <2>4 DEF offeredBar
    <3>6. Promise!Close(c)
      BY <2>1, <2>2, <3>1, <3>4, <3>5, Zenon DEF Promise!Close
    <3> QED
      BY <3>6, Zenon DEF Promise!Next
  <2> QED
    BY <2>1, <2>5, <2>6
<1>29. CASE UNCHANGED vars
  BY <1>u, <1>29 DEF vars, attachVars, ctlVars
<1>30. ASSUME NEW a \in Agents, AgentStep(a)
      PROVE  [Promise!Next]_Promise!vars
  BY <1>30, <1>1, <1>2
     DEF AgentStep
<1>31. ASSUME NEW s \in Attachers, AttachStep(s)
      PROVE  [Promise!Next]_Promise!vars
  BY <1>31, <1>3, <1>4, <1>5, <1>6, <1>7, <1>8, <1>9, <1>10, <1>11, <1>12
     DEF AttachStep
<1>32. ASSUME NEW c \in Controllers, ControllerStep(c)
      PROVE  [Promise!Next]_Promise!vars
  BY <1>32, <1>13, <1>14, <1>15, <1>16, <1>17, <1>18, <1>19, <1>20, <1>21, <1>23, <1>24,
     <1>25, <1>26, <1>27, <1>28
     DEF ControllerStep, ControllerMoves
<1> QED
  BY <1>29, <1>30, <1>31, <1>32 DEF Next, Quiet

\* The relay keeps its promise to every controller: one final answer, and Ready
\* only with a stream of its own, made for what it asked
\* (handle_agent_session 585-672, handle_controller 674-779).
THEOREM RelayKeepsItsPromise == Spec => PromiseKept
<1>1. Init => Promise!Init
  BY ConnectionsAssumption
     DEF Init, Promise!Init, offerBar, offeredBar, bridgeBar
<1> QED
  BY PInvAlways, <1>1, PromiseStep, PTL DEF Spec, PromiseKept, Promise!Spec
=============================================================================
