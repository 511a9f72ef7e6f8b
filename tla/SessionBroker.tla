---------------------------- MODULE SessionBroker ----------------------------
(***************************************************************************)
(* The relay's connection handlers and the state they share                *)
(* (src/src/server.rs).  A connection is one of three kinds, fixed by its  *)
(* Hello:                                                                  *)
(*   - an Agent is the control connection of a client.  Its handler owns   *)
(*     one Device object, so an agent a also names that object, one        *)
(*     generation of the device DeviceOf[a];                               *)
(*   - an Attacher is the connection a client opens for one session, in    *)
(*     answer to an Open frame;                                            *)
(*   - a Controller is the connection of somebody who wants a session.     *)
(* Every handler is a task of its own; a step of the model is the stretch  *)
(* of a handler between two points where other tasks may run.  A           *)
(* connection is used once: its label ends at "gone".                      *)
(***************************************************************************)
EXTENDS Integers, Sequences, FiniteSets

CONSTANTS
    Devices, Ids,                   \* device ids and session ids
    Agents, Attachers, Controllers, \* the connections of a behaviour
    DeviceOf,                       \* the device an agent authenticated as
    Target, IdOf,                   \* what a controller's OpenRequest names
    MaxConnections,                 \* MAX_CONNECTIONS
    MaxPending,                     \* MAX_PENDING_SESSIONS_PER_DEVICE
    WriterCapacity,                 \* CONTROL_FRAME_CHANNEL_CAPACITY
    None                            \* Option::None

ASSUME ConnectionsAssumption ==
    /\ IsFiniteSet(Agents) /\ IsFiniteSet(Attachers) /\ IsFiniteSet(Controllers)
    /\ None \notin Agents /\ None \notin Attachers /\ None \notin Controllers

ASSUME RequestsAssumption ==
    /\ DeviceOf \in [Agents -> Devices]
    /\ Target \in [Controllers -> Devices]
    /\ IdOf \in [Controllers -> Ids]

ASSUME LimitsAssumption ==
    /\ MaxConnections \in Nat
    /\ MaxPending \in Nat \ {0}
    /\ WriterCapacity \in Nat \ {0}

VARIABLES
    free,      \* connection permits left in the semaphore
    registry,  \* device -> the Device object that lookups return
    \* per agent: the handler's label, and its Device object
    agent,     \* where the handler is
    previous,  \* the Device object its insert displaced
    shutdown,  \* the stop signal was sent to it
    pending,   \* session id -> the controller whose reply sender is stored
    openq,     \* the open_tx channel
    holding,   \* the Open it is blocked on handing to the writer task
    writeq,    \* the writer_tx channel
    \* per attacher
    attach,    \* where the handler is
    job,       \* the device and the session id it dialled for
    attached,  \* the Device object its lookup returned
    sender,    \* the controller whose reply sender it took
    \* per controller
    ctl,       \* where the handler is
    opened,    \* the Device object its lookup returned
    reply,     \* what its reply channel holds
    stream,    \* the session stream in its reply channel or its hands
    frame      \* the answer the peer was sent

agentVars  == <<agent, previous, shutdown, pending, openq, holding, writeq>>
attachVars == <<attach, job, attached, sender>>
ctlVars    == <<ctl, opened, reply, stream, frame>>
vars == <<free, registry, agentVars, attachVars, ctlVars>>

AgentLabels ==
    {"new", "hello", "registered", "serving", "forwarding", "ending",
     "unregistering", "leaving", "gone"}
AttachLabels ==
    {"idle", "dialing", "hello", "looked", "accepting", "awaiting",
     "refusing", "handed", "gone"}
CtlLabels ==
    {"new", "hello", "looked", "queueing", "waiting", "expired",
     "disconnected", "refusing", "granted", "bridging", "gone"}

Jobs == [device : Devices, id : Ids]

Init ==
    /\ free = MaxConnections
    /\ registry = [d \in Devices |-> None]
    /\ agent    = [a \in Agents |-> "new"]
    /\ previous = [a \in Agents |-> None]
    /\ shutdown = [a \in Agents |-> FALSE]
    /\ pending  = [a \in Agents |-> [x \in Ids |-> None]]
    /\ openq    = [a \in Agents |-> <<>>]
    /\ holding  = [a \in Agents |-> <<>>]
    /\ writeq   = [a \in Agents |-> <<>>]
    /\ attach   = [s \in Attachers |-> "idle"]
    /\ job      = [s \in Attachers |-> None]
    /\ attached = [s \in Attachers |-> None]
    /\ sender   = [s \in Attachers |-> None]
    /\ ctl      = [c \in Controllers |-> "new"]
    /\ opened   = [c \in Controllers |-> None]
    /\ reply    = [c \in Controllers |-> "empty"]
    /\ stream   = [c \in Controllers |-> None]
    /\ frame    = [c \in Controllers |-> "none"]

-----------------------------------------------------------------------------
(* Reply channels.                                                         *)

\* The receiving half of c's reply channel exists and holds nothing yet.
Listening(c) == ctl[c] \in {"queueing", "waiting"} /\ reply[c] = "empty"

\* The reply channels after the senders of cs are consumed with outcome r
\* ("error": an Err was sent, "closed": they were dropped).  A sender whose
\* receiver is gone has no effect.
Notified(cs, r) ==
    [c \in Controllers |-> IF c \in cs /\ Listening(c) THEN r ELSE reply[c]]

\* c's handler drops its receiver, with the stream and the permit in it.
DropReceiver(c) ==
    /\ reply'  = [reply EXCEPT ![c] = "empty"]
    /\ stream' = [stream EXCEPT ![c] = None]
    /\ attach' = [s \in Attachers |->
                    IF s = stream[c] THEN "gone" ELSE attach[s]]
    /\ free'   = IF stream[c] = None THEN free ELSE free + 1

\* The sessions waiting on the Device object of a.
PendingIds(a)     == {x \in Ids : pending[a][x] # None}
PendingSenders(a) == {pending[a][x] : x \in PendingIds(a)}

-----------------------------------------------------------------------------
(* The agent's handler.                                                    *)

\* try_acquire_owned: without a permit the connection is dropped at once.
AcceptAgent(a) ==
    /\ agent[a] = "new"
    /\ agent' = [agent EXCEPT ![a] = IF free > 0 THEN "hello" ELSE "gone"]
    /\ free' = IF free > 0 THEN free - 1 ELSE free
    /\ UNCHANGED <<registry, previous, shutdown, pending, openq, holding,
                   writeq, attachVars, ctlVars>>

\* The handshake, the Hello, its authentication or the HelloOk fails.
AgentHelloFails(a) ==
    /\ agent[a] = "hello"
    /\ agent' = [agent EXCEPT ![a] = "gone"]
    /\ free' = free + 1
    /\ UNCHANGED <<registry, previous, shutdown, pending, openq, holding,
                   writeq, attachVars, ctlVars>>

RegisterAgent(a) ==
    /\ agent[a] = "hello"
    /\ agent' = [agent EXCEPT ![a] = "registered"]
    /\ previous' = [previous EXCEPT ![a] = registry[DeviceOf[a]]]
    /\ registry' = [registry EXCEPT ![DeviceOf[a]] = a]
    /\ UNCHANGED <<free, shutdown, pending, openq, holding, writeq,
                   attachVars, ctlVars>>

\* stop_device on the generation this one displaced; then the tasks start.
StopPrevious(a) ==
    /\ agent[a] = "registered"
    /\ agent' = [agent EXCEPT ![a] = "serving"]
    /\ shutdown' = [b \in Agents |-> shutdown[b] \/ b = previous[a]]
    /\ UNCHANGED <<free, registry, previous, pending, openq, holding, writeq,
                   attachVars, ctlVars>>

\* One request leaves open_rx for the writer task.
ForwardOpen(a) ==
    /\ agent[a] = "serving"
    /\ openq[a] # <<>>
    /\ Len(writeq[a]) < WriterCapacity
    /\ openq' = [openq EXCEPT ![a] = Tail(@)]
    /\ writeq' = [writeq EXCEPT ![a] = Append(@, Head(openq[a]))]
    /\ UNCHANGED <<free, registry, agent, previous, shutdown, pending,
                   holding, attachVars, ctlVars>>

\* The writer's channel is full: the handler waits inside writer_tx.send and
\* looks at nothing else.
BlockForward(a) ==
    /\ agent[a] = "serving"
    /\ openq[a] # <<>>
    /\ Len(writeq[a]) = WriterCapacity
    /\ openq' = [openq EXCEPT ![a] = Tail(@)]
    /\ holding' = [holding EXCEPT ![a] = <<Head(openq[a])>>]
    /\ agent' = [agent EXCEPT ![a] = "forwarding"]
    /\ UNCHANGED <<free, registry, previous, shutdown, pending, writeq,
                   attachVars, ctlVars>>

ResumeForward(a) ==
    /\ agent[a] = "forwarding"
    /\ Len(writeq[a]) < WriterCapacity
    /\ writeq' = [writeq EXCEPT ![a] = @ \o holding[a]]
    /\ holding' = [holding EXCEPT ![a] = <<>>]
    /\ agent' = [agent EXCEPT ![a] = "serving"]
    /\ UNCHANGED <<free, registry, previous, shutdown, pending, openq,
                   attachVars, ctlVars>>

\* The writer task writes an Open frame; the client starts a session task
\* for it (agent.rs: run_session).
WriteOpen(a, s) ==
    /\ agent[a] \in {"serving", "forwarding", "ending"}
    /\ writeq[a] # <<>>
    /\ attach[s] = "idle"
    /\ writeq' = [writeq EXCEPT ![a] = Tail(@)]
    /\ attach' = [attach EXCEPT ![s] = "dialing"]
    /\ job' = [job EXCEPT ![s] = [device |-> DeviceOf[a], id |-> Head(writeq[a])]]
    /\ UNCHANGED <<free, registry, agent, previous, shutdown, pending, openq,
                   holding, attached, sender, ctlVars>>

\* The handler's loop sees the stop signal of a newer generation.
ObserveShutdown(a) ==
    /\ agent[a] = "serving"
    /\ shutdown[a]
    /\ agent' = [agent EXCEPT ![a] = "ending"]
    /\ UNCHANGED <<free, registry, previous, shutdown, pending, openq,
                   holding, writeq, attachVars, ctlVars>>

\* Faulty: no write_timeout ends a handler blocked on its writer.
ServingEnds(a) ==
    /\ agent[a] = "serving"
    /\ agent' = [agent EXCEPT ![a] = "ending"]
    /\ UNCHANGED <<free, registry, previous, shutdown, pending, openq,
                   holding, writeq, attachVars, ctlVars>>

\* The loop ends by itself: the reader or the writer task ended, an
\* unexpected frame arrived, or the heartbeat deadline passed.  While the
\* handler is blocked on writer_tx only the end of the writer reaches it.
ControlEnds(a) ==
    /\ agent[a] \in {"serving", "forwarding"}
    /\ agent' = [agent EXCEPT ![a] = "ending"]
    /\ holding' = [holding EXCEPT ![a] = <<>>]
    /\ UNCHANGED <<free, registry, previous, shutdown, pending, openq,
                   writeq, attachVars, ctlVars>>

\* The tasks are aborted, and fail_pending answers every waiting session.
FailPending(a) ==
    /\ agent[a] = "ending"
    /\ agent' = [agent EXCEPT ![a] = "unregistering"]
    /\ writeq' = [writeq EXCEPT ![a] = <<>>]
    /\ reply' = Notified(PendingSenders(a), "error")
    /\ pending' = [pending EXCEPT ![a] = [x \in Ids |-> None]]
    /\ UNCHANGED <<free, registry, previous, shutdown, openq, holding,
                   attachVars, ctl, opened, stream, frame>>

\* Faulty: the entry of a finished handler stays.
UnregisterNothing(a) ==
    /\ agent[a] = "unregistering"
    /\ agent' = [agent EXCEPT ![a] = "leaving"]
    /\ UNCHANGED <<free, registry, previous, shutdown, pending, openq, holding,
                   writeq, attachVars, ctlVars>>

\* Faulty: without ptr_eq the entry of a newer generation goes too.
UnregisterAnyGeneration(a) ==
    /\ agent[a] = "unregistering"
    /\ agent' = [agent EXCEPT ![a] = "leaving"]
    /\ registry' = [registry EXCEPT ![DeviceOf[a]] = None]
    /\ UNCHANGED <<free, previous, shutdown, pending, openq, holding, writeq,
                   attachVars, ctlVars>>

\* unregister leaves the entry of another generation alone.
Unregister(a) ==
    /\ agent[a] = "unregistering"
    /\ agent' = [agent EXCEPT ![a] = "leaving"]
    /\ registry' = [d \in Devices |->
                      IF d = DeviceOf[a] /\ registry[d] = a THEN None
                                                           ELSE registry[d]]
    /\ UNCHANGED <<free, previous, shutdown, pending, openq, holding, writeq,
                   attachVars, ctlVars>>

\* The handler returns: open_rx and the permit are dropped.
AgentLeaves(a) ==
    /\ agent[a] = "leaving"
    /\ agent' = [agent EXCEPT ![a] = "gone"]
    /\ openq' = [openq EXCEPT ![a] = <<>>]
    /\ free' = free + 1
    /\ UNCHANGED <<registry, previous, shutdown, pending, holding, writeq,
                   attachVars, ctlVars>>

-----------------------------------------------------------------------------
(* The attacher's handler.                                                 *)

AcceptAttacher(s) ==
    /\ attach[s] = "dialing"
    /\ attach' = [attach EXCEPT ![s] = IF free > 0 THEN "hello" ELSE "gone"]
    /\ free' = IF free > 0 THEN free - 1 ELSE free
    /\ UNCHANGED <<registry, agentVars, job, attached, sender, ctlVars>>

\* The connection ends before SessionAttach is read, or its deadline passes.
AttachHelloFails(s) ==
    /\ attach[s] = "hello"
    /\ attach' = [attach EXCEPT ![s] = "gone"]
    /\ free' = free + 1
    /\ UNCHANGED <<registry, agentVars, job, attached, sender, ctlVars>>

\* SessionAttach is read and the device's current object is looked up.
LookupAttach(s) ==
    /\ attach[s] = "hello"
    /\ attached' = [attached EXCEPT ![s] = registry[job[s].device]]
    /\ attach' = [attach EXCEPT ![s] =
                    IF registry[job[s].device] = None THEN "refusing" ELSE "looked"]
    /\ UNCHANGED <<free, registry, agentVars, job, sender, ctlVars>>

\* Faulty: any waiting session of the device is taken.
TakeAnyPending(s) ==
    /\ attach[s] = "looked"
    /\ \E x \in PendingIds(attached[s]) :
          /\ sender' = [sender EXCEPT ![s] = pending[attached[s]][x]]
          /\ pending' = [pending EXCEPT ![attached[s]][x] = None]
    /\ attach' = [attach EXCEPT ![s] = "accepting"]
    /\ UNCHANGED <<free, registry, agent, previous, shutdown, openq, holding,
                   writeq, job, attached, ctlVars>>

\* take_pending: nobody else can take the same sender afterwards.
TakePending(s) ==
    LET a == attached[s]
        x == job[s].id
    IN
    /\ attach[s] = "looked"
    /\ pending[a][x] # None
    /\ sender' = [sender EXCEPT ![s] = pending[a][x]]
    /\ pending' = [pending EXCEPT ![a][x] = None]
    /\ attach' = [attach EXCEPT ![s] = "accepting"]
    /\ UNCHANGED <<free, registry, agent, previous, shutdown, openq, holding,
                   writeq, job, attached, ctlVars>>

\* "SSH session is no longer waiting".
NothingPending(s) ==
    /\ attach[s] = "looked"
    /\ pending[attached[s]][job[s].id] = None
    /\ attach' = [attach EXCEPT ![s] = "refusing"]
    /\ UNCHANGED <<free, registry, agentVars, job, attached, sender, ctlVars>>

\* The Failed frame is written, or cannot be; the connection ends.
RefuseAttach(s) ==
    /\ attach[s] = "refusing"
    /\ attach' = [attach EXCEPT ![s] = "gone"]
    /\ free' = free + 1
    /\ UNCHANGED <<registry, agentVars, job, attached, sender, ctlVars>>

WriteAccepted(s) ==
    /\ attach[s] = "accepting"
    /\ attach' = [attach EXCEPT ![s] = "awaiting"]
    /\ UNCHANGED <<free, registry, agentVars, job, attached, sender, ctlVars>>

\* SessionAccepted cannot be written, or the agent answers Failed, answers
\* something else, disconnects, or misses the Ready deadline.
SessionFails(s) ==
    /\ attach[s] \in {"accepting", "awaiting"}
    /\ attach' = [attach EXCEPT ![s] = "gone"]
    /\ free' = free + 1
    /\ reply' = Notified({sender[s]}, "error")
    /\ sender' = [sender EXCEPT ![s] = None]
    /\ UNCHANGED <<registry, agentVars, job, attached, ctl, opened, stream,
                   frame>>

\* Ready: the stream goes to the controller together with its permit.
HandOff(s) ==
    LET c == sender[s] IN
    /\ attach[s] = "awaiting"
    /\ Listening(c)
    /\ attach' = [attach EXCEPT ![s] = "handed"]
    /\ reply'  = [reply EXCEPT ![c] = "stream"]
    /\ stream' = [stream EXCEPT ![c] = s]
    /\ sender' = [sender EXCEPT ![s] = None]
    /\ UNCHANGED <<free, registry, agentVars, job, attached, ctl, opened,
                   frame>>

\* Faulty: the permit of a stream nobody receives is not returned.
HandOffLeaksPermit(s) ==
    /\ attach[s] = "awaiting"
    /\ ~Listening(sender[s])
    /\ attach' = [attach EXCEPT ![s] = "gone"]
    /\ sender' = [sender EXCEPT ![s] = None]
    /\ UNCHANGED <<free, registry, agentVars, job, attached, ctlVars>>

\* Ready, but the controller has given up: stream and permit are dropped.
HandOffTooLate(s) ==
    /\ attach[s] = "awaiting"
    /\ ~Listening(sender[s])
    /\ attach' = [attach EXCEPT ![s] = "gone"]
    /\ free' = free + 1
    /\ sender' = [sender EXCEPT ![s] = None]
    /\ UNCHANGED <<registry, agentVars, job, attached, ctlVars>>

-----------------------------------------------------------------------------
(* The controller's handler.                                               *)

AcceptController(c) ==
    /\ ctl[c] = "new"
    /\ ctl' = [ctl EXCEPT ![c] = IF free > 0 THEN "hello" ELSE "gone"]
    /\ free' = IF free > 0 THEN free - 1 ELSE free
    /\ UNCHANGED <<registry, agentVars, attachVars, opened, reply, stream,
                   frame>>

\* No valid first request arrives before the deadline.
ControllerHelloFails(c) ==
    /\ ctl[c] = "hello"
    /\ ctl' = [ctl EXCEPT ![c] = "gone"]
    /\ free' = free + 1
    /\ UNCHANGED <<registry, agentVars, attachVars, opened, reply, stream,
                   frame>>

ListDevices(c) ==
    /\ ctl[c] = "hello"
    /\ ctl' = [ctl EXCEPT ![c] = "gone"]
    /\ frame' = [frame EXCEPT ![c] = "DeviceList"]
    /\ free' = free + 1
    /\ UNCHANGED <<registry, agentVars, attachVars, opened, reply, stream>>

\* OpenRequest is read and the target's current object is looked up.
LookupTarget(c) ==
    /\ ctl[c] = "hello"
    /\ opened' = [opened EXCEPT ![c] = registry[Target[c]]]
    /\ ctl' = [ctl EXCEPT ![c] =
                 IF registry[Target[c]] = None THEN "refusing" ELSE "looked"]
    /\ UNCHANGED <<free, registry, agentVars, attachVars, reply, stream, frame>>

\* register_pending: refused at the limit or for an id already waiting.
CanRegister(a, x) ==
    /\ Cardinality(PendingIds(a)) < MaxPending
    /\ pending[a][x] = None

RegisterPending(c) ==
    /\ ctl[c] = "looked"
    /\ CanRegister(opened[c], IdOf[c])
    /\ pending' = [pending EXCEPT ![opened[c]][IdOf[c]] = c]
    /\ ctl' = [ctl EXCEPT ![c] = "queueing"]
    /\ UNCHANGED <<free, registry, agent, previous, shutdown, openq, holding,
                   writeq, attachVars, opened, reply, stream, frame>>

TooManyPending(c) ==
    /\ ctl[c] = "looked"
    /\ ~CanRegister(opened[c], IdOf[c])
    /\ ctl' = [ctl EXCEPT ![c] = "refusing"]
    /\ UNCHANGED <<free, registry, agentVars, attachVars, opened, reply,
                   stream, frame>>

\* open_tx has the capacity of the pending map (mpsc::channel).
QueueOpen(c) ==
    /\ ctl[c] = "queueing"
    /\ agent[opened[c]] # "gone"
    /\ Len(openq[opened[c]]) < MaxPending
    /\ openq' = [openq EXCEPT ![opened[c]] = Append(@, IdOf[c])]
    /\ ctl' = [ctl EXCEPT ![c] = "waiting"]
    /\ UNCHANGED <<free, registry, agent, previous, shutdown, pending,
                   holding, writeq, attachVars, opened, reply, stream, frame>>

\* The handler behind open_tx has returned.
QueueDisconnected(c) ==
    /\ ctl[c] = "queueing"
    /\ agent[opened[c]] = "gone"
    /\ ctl' = [ctl EXCEPT ![c] = "disconnected"]
    /\ DropReceiver(c)
    /\ UNCHANGED <<registry, agentVars, job, attached, sender, opened, frame>>

\* Faulty: the deadline covers only the wait for the reply.
ReplyExpires(c) ==
    /\ ctl[c] = "waiting"
    /\ reply[c] = "empty"
    /\ ctl' = [ctl EXCEPT ![c] = "expired"]
    /\ DropReceiver(c)
    /\ UNCHANGED <<registry, agentVars, job, attached, sender, opened, frame>>

\* open_timeout: the timer is consulted only while the open is still stuck.
OpenExpires(c) ==
    /\ \/ /\ ctl[c] = "queueing"
          /\ agent[opened[c]] # "gone"
          /\ Len(openq[opened[c]]) = MaxPending
       \/ /\ ctl[c] = "waiting"
          /\ reply[c] = "empty"
    /\ ctl' = [ctl EXCEPT ![c] = "expired"]
    /\ DropReceiver(c)
    /\ UNCHANGED <<registry, agentVars, job, attached, sender, opened, frame>>

ReceiveReply(c) ==
    /\ ctl[c] = "waiting"
    /\ \/ reply[c] = "stream" /\ ctl' = [ctl EXCEPT ![c] = "granted"]
       \/ reply[c] = "error"  /\ ctl' = [ctl EXCEPT ![c] = "refusing"]
       \/ reply[c] = "closed" /\ ctl' = [ctl EXCEPT ![c] = "disconnected"]
    /\ UNCHANGED <<free, registry, agentVars, attachVars, opened, reply,
                   stream, frame>>

\* Faulty: a failed open forgets its pending entry.
WithdrawNothing(c) ==
    /\ ctl[c] \in {"expired", "disconnected"}
    /\ ctl' = [ctl EXCEPT ![c] = "refusing"]
    /\ UNCHANGED <<free, registry, agentVars, attachVars, opened, reply,
                   stream, frame>>

\* take_pending after the receiver is gone.  Whoever's sender is found is
\* sent an error ("disconnected") or dropped ("expired").
WithdrawPending(c) ==
    LET a == opened[c]
        x == IdOf[c]
    IN
    /\ \/ /\ ctl[c] = "expired"
          /\ reply' = Notified({pending[a][x]}, "closed")
       \/ /\ ctl[c] = "disconnected"
          /\ reply' = Notified({pending[a][x]}, "error")
    /\ pending' = [pending EXCEPT ![a][x] = None]
    /\ ctl' = [ctl EXCEPT ![c] = "refusing"]
    /\ UNCHANGED <<free, registry, agent, previous, shutdown, openq, holding,
                   writeq, attachVars, opened, stream, frame>>

\* The Failed frame is written, unless the peer has left.
RefuseController(c) ==
    /\ ctl[c] = "refusing"
    /\ ctl' = [ctl EXCEPT ![c] = "gone"]
    /\ \E f \in {"none", "Failed"} : frame' = [frame EXCEPT ![c] = f]
    /\ free' = free + 1
    /\ UNCHANGED <<registry, agentVars, attachVars, opened, reply, stream>>

WriteReady(c) ==
    /\ ctl[c] = "granted"
    /\ ctl' = [ctl EXCEPT ![c] = "bridging"]
    /\ frame' = [frame EXCEPT ![c] = "Ready"]
    /\ UNCHANGED <<free, registry, agentVars, attachVars, opened, reply, stream>>

\* Faulty: only the controller's side is closed.
CloseOneSide(c) ==
    /\ ctl[c] \in {"granted", "bridging"}
    /\ ctl' = [ctl EXCEPT ![c] = "gone"]
    /\ stream' = [stream EXCEPT ![c] = None]
    /\ free' = free + 1
    /\ UNCHANGED <<registry, agentVars, attachVars, opened, reply, frame>>

\* Ready cannot be written, or the bridge ends: both connections close.
CloseBoth(c) ==
    /\ ctl[c] \in {"granted", "bridging"}
    /\ ctl' = [ctl EXCEPT ![c] = "gone"]
    /\ attach' = [attach EXCEPT ![stream[c]] = "gone"]
    /\ stream' = [stream EXCEPT ![c] = None]
    /\ free' = free + 2
    /\ UNCHANGED <<registry, agentVars, job, attached, sender, opened, reply,
                   frame>>

-----------------------------------------------------------------------------
AgentStep(a) ==
    \/ AcceptAgent(a) \/ AgentHelloFails(a) \/ RegisterAgent(a)
    \/ StopPrevious(a) \/ ForwardOpen(a) \/ BlockForward(a) \/ ResumeForward(a)
    \/ \E s \in Attachers : WriteOpen(a, s)
    \/ ObserveShutdown(a) \/ ControlEnds(a)
    \/ FailPending(a) \/ Unregister(a) \/ AgentLeaves(a)

AttachStep(s) ==
    \/ AcceptAttacher(s) \/ AttachHelloFails(s) \/ LookupAttach(s)
    \/ TakePending(s) \/ NothingPending(s) \/ RefuseAttach(s)
    \/ WriteAccepted(s) \/ SessionFails(s) \/ HandOff(s) \/ HandOffTooLate(s)

\* What a controller's handler does by itself once it has a request.
ControllerMoves(c) ==
    \/ RegisterPending(c) \/ TooManyPending(c) \/ QueueOpen(c) \/ QueueDisconnected(c)
    \/ OpenExpires(c) \/ ReceiveReply(c) \/ WithdrawPending(c)
    \/ RefuseController(c) \/ WriteReady(c)

ControllerStep(c) ==
    \/ AcceptController(c) \/ ControllerHelloFails(c) \/ ListDevices(c)
    \/ LookupTarget(c) \/ ControllerMoves(c) \/ CloseBoth(c)

\* Every connection of the behaviour has come and gone.
Quiet ==
    /\ \A a \in Agents : agent[a] = "gone"
    /\ \A s \in Attachers : attach[s] \in {"idle", "gone"}
    /\ \A c \in Controllers : ctl[c] = "gone"
    /\ UNCHANGED vars

Next ==
    \/ \E a \in Agents : AgentStep(a)
    \/ \E s \in Attachers : AttachStep(s)
    \/ \E c \in Controllers : ControllerStep(c)
    \/ Quiet

Spec == Init /\ [][Next]_vars

\* A controller's handler that can move does: its only wait, for the Open to
\* be queued and answered, carries open_timeout.
ControllersRun == \A c \in Controllers : WF_vars(ControllerMoves(c))

\* A handler told to stop looks at the signal again, because a full writer
\* channel drains or its writer misses write_timeout and ends; the cleanup
\* waits for nobody.
AgentsRun ==
    \A a \in Agents :
        WF_vars(\/ ObserveShutdown(a)
                \/ agent[a] = "forwarding" /\ (ResumeForward(a) \/ ControlEnds(a))
                \/ FailPending(a) \/ Unregister(a) \/ AgentLeaves(a))

\* Nothing is assumed of the clients, of the sessions they dial, of the bridged
\* data, or of the health of control connections.
FairSpec == Spec /\ ControllersRun /\ AgentsRun

-----------------------------------------------------------------------------
(* Type invariant.                                                         *)

TypeOK ==
    /\ free \in Nat
    /\ registry \in [Devices -> Agents \cup {None}]
    /\ agent \in [Agents -> AgentLabels]
    /\ previous \in [Agents -> Agents \cup {None}]
    /\ shutdown \in [Agents -> BOOLEAN]
    /\ pending \in [Agents -> [Ids -> Controllers \cup {None}]]
    /\ openq \in [Agents -> Seq(Ids)]
    /\ holding \in [Agents -> Seq(Ids)]
    /\ writeq \in [Agents -> Seq(Ids)]
    /\ attach \in [Attachers -> AttachLabels]
    /\ job \in [Attachers -> Jobs \cup {None}]
    /\ attached \in [Attachers -> Agents \cup {None}]
    /\ sender \in [Attachers -> Controllers \cup {None}]
    /\ ctl \in [Controllers -> CtlLabels]
    /\ opened \in [Controllers -> Agents \cup {None}]
    /\ reply \in [Controllers -> {"empty", "stream", "error", "closed"}]
    /\ stream \in [Controllers -> Attachers \cup {None}]
    /\ frame \in [Controllers -> {"none", "DeviceList", "Failed", "Ready"}]

-----------------------------------------------------------------------------
(* Safety.                                                                 *)

\* The connections the relay holds open right now.
OpenAgents      == {a \in Agents : agent[a] \notin {"new", "gone"}}
OpenAttachers   == {s \in Attachers : attach[s] \notin {"idle", "dialing", "gone"}}
OpenControllers == {c \in Controllers : ctl[c] \notin {"new", "gone"}}

\* Every open connection accounts for exactly one permit, whichever task
\* holds it: a permit that travels with a handed-off stream is neither lost
\* when the controller has given up nor returned twice when a bridge ends
\* (SessionHandoff, server.rs 98-101).
PermitsMatchConnections ==
    free + Cardinality(OpenAgents) + Cardinality(OpenAttachers)
         + Cardinality(OpenControllers) = MaxConnections

\* The registry never leads to a handler that has finished with it: what a
\* lookup finds still has unregister ahead of it, which is what makes a
\* device that went offline disappear (handle_agent's cleanup, 563-572).
RegistryIsServed ==
    \A d \in Devices : registry[d] # None =>
        /\ DeviceOf[registry[d]] = d
        /\ agent[registry[d]] \in
               {"registered", "serving", "forwarding", "ending", "unregistering"}

\* A handler that is registered and was not told to stop is the one lookups
\* reach, or its successor is about to stop it.  So a client
\* that believes it is connected is never silently unreachable, and two
\* clients of one device are never both served (461-468, 817-824).
UnstoppedIsReachable ==
    \A a \in Agents :
        agent[a] \in {"registered", "serving", "forwarding"} /\ ~shutdown[a] =>
            \/ registry[DeviceOf[a]] = a
            \/ \E b \in Agents : agent[b] = "registered" /\ previous[b] = a

\* A reply sender has one owner.  While it is in a pending map its controller
\* is still establishing its session on that very Device and has no reply: no
\* entry outlives its request to use up the limit or to be found by an
\* attacher.  Once taken it belongs to one attacher, which found it on the
\* generation and under the session id of its own job (register_pending,
\* take_pending, fail_pending, 781-809).
Taken(s) == attach[s] \in {"accepting", "awaiting"}

PendingAreOpening ==
    \A a \in Agents, x \in Ids : pending[a][x] # None =>
        /\ opened[pending[a][x]] = a /\ IdOf[pending[a][x]] = x
        /\ ctl[pending[a][x]] \in {"queueing", "waiting", "expired", "disconnected"}
        /\ reply[pending[a][x]] = "empty"

TakenAreOwned ==
    \A s \in Attachers : Taken(s) =>
        /\ sender[s] # None
        /\ opened[sender[s]] = attached[s] /\ IdOf[sender[s]] = job[s].id
        /\ pending[attached[s]][job[s].id] # sender[s]
        /\ ctl[sender[s]] \notin {"new", "hello", "looked"}
        /\ ctl[sender[s]] \in {"queueing", "waiting"} => reply[sender[s]] = "empty"
        /\ \A t \in Attachers : Taken(t) /\ sender[t] = sender[s] => t = s

SendersHaveOneOwner == PendingAreOpening /\ TakenAreOwned

\* The session stream a controller holds was dialled for the device and the
\* session id it asked for, and no other controller holds it.
StreamsMatchRequests ==
    \A c \in Controllers : stream[c] # None =>
        /\ job[stream[c]] = [device |-> Target[c], id |-> IdOf[c]]
        /\ attach[stream[c]] = "handed"
        /\ \A e \in Controllers : stream[e] = stream[c] => e = c

\* A handed-off stream has a controller that holds it: none is left open and
\* counted against the quota with nobody to close it (745-775).
HandedStreamsAreHeld ==
    \A s \in Attachers : attach[s] = "handed" =>
        \E c \in Controllers : stream[c] = s /\ ctl[c] # "gone"

-----------------------------------------------------------------------------
(* Liveness.                                                               *)

\* A controller whose request was read is answered, or found to have left,
\* whatever agents and sessions do: the open deadline suffices
\* (handle_controller, 729-774).
RequestsEnd ==
    \A c \in Controllers :
        ctl[c] = "looked" ~> ctl[c] \in {"bridging", "gone"}

\* A handler told to stop goes away and its permit returns, even when it is
\* blocked on a full writer channel (stop_device; write_timeout).
StoppedHandlersLeave ==
    \A a \in Agents :
        shutdown[a] /\ agent[a] \in {"serving", "forwarding"} ~> agent[a] = "gone"

-----------------------------------------------------------------------------
(* What the documentation says and the code does not do.                   *)

\* CHANGELOG.md 12: requests not yet established on an old control connection
\* fail promptly with it.  A controller that looked the Device up before can
\* still enter the pending map after fail_pending has emptied it.
EndedControlFailsItsRequests ==
    \A a \in Agents, c \in Controllers :
        agent[a] = "gone" => ~(ctl[c] = "waiting" /\ opened[c] = a /\ pending[a][IdOf[c]] = c)
=============================================================================
