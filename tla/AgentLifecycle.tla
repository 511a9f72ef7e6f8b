---------------------------- MODULE AgentLifecycle ----------------------------
(***************************************************************************)
(* The client program: its window (ClientApp of src/src/desktop.rs), which *)
(* starts and stops the agent on a thread of its own, and the agent's      *)
(* supervisor (run_until_stopped_with_timing of src/src/agent.rs), which   *)
(* keeps one control connection alive and owns the session tasks.  They    *)
(* share, for each run, a stop signal and a channel of status messages.    *)
(*                                                                         *)
(* A run is one click on start.  The window is one thread, whose update    *)
(* polls the agent and then handles a click.  A step of the supervisor is  *)
(* what it does between two awaits.                                        *)
(***************************************************************************)
EXTENDS Integers, Sequences, FiniteSets

CONSTANTS
    Sessions,      \* names of sessions
    InitialDelay,  \* INITIAL_RECONNECT_DELAY
    MaxDelay,      \* MAX_RECONNECT_DELAY
    MaxRuns,       \* bound: runs
    MaxUnread,     \* bound: messages the window has not read
    CountTo        \* bound: failures that are told apart

ASSUME SessionsAssumption == IsFiniteSet(Sessions)
ASSUME DelaysAssumption ==
    /\ {InitialDelay, MaxDelay, MaxRuns, MaxUnread, CountTo} \subseteq Nat \ {0}
    /\ InitialDelay <= MaxDelay

Runs == 1..MaxRuns

VARIABLES
    phase,      \* a run's supervisor: "none"; "start" (thread spawned);
                \* "dialing" and "control", in run_control; "waiting" for the
                \* delay; "stopping" (in sessions.shutdown); "returned";
                \* "ended" (runtime dropped, thread finished)
    connected, delay, retry_delay,
    sessions,   \* the tasks in sessions that are alive
    control,    \* the control connection: "closed", "open", "detached" (only
                \* the reader task holds it, and nobody can end that)
    stop,       \* the stop signal has been sent
    status,     \* the messages of a run that its window has not read
    failures,   \* for the properties: attempts that failed since the last
                \* connection, up to CountTo
    run,        \* the last run
    agent_thread, stop_tx, status_rx, \* these are Some
    connection_state,
    gui         \* the window: in poll_agent "draining" or "checking", then
                \* "buttons"; "closed", "exited"

agentVars == <<phase, connected, delay, retry_delay, sessions, control, failures>>
guiVars == <<run, agent_thread, stop_tx, status_rx, connection_state, gui>>
vars == <<agentVars, stop, status, guiVars>>

Init ==
    /\ phase = [r \in Runs |-> "none"]
    /\ connected = [r \in Runs |-> FALSE]
    /\ delay = [r \in Runs |-> InitialDelay]
    /\ retry_delay = [r \in Runs |-> InitialDelay]
    /\ sessions = [r \in Runs |-> {}]
    /\ control = [r \in Runs |-> "closed"]
    /\ stop = [r \in Runs |-> FALSE]
    /\ status = [r \in Runs |-> <<>>]
    /\ failures = [r \in Runs |-> 0]
    /\ run = 0
    /\ agent_thread = FALSE /\ stop_tx = FALSE /\ status_rx = FALSE
    /\ connection_state = "Stopped"
    /\ gui = "draining"

-----------------------------------------------------------------------------
(* The supervisor of run r.                                                *)

Report(r, message) == status' = [status EXCEPT ![r] = Append(@, message)]

\* The bound: a report that is not the last one waits for the window.
MayReport(r) == Len(status[r]) < MaxUnread

Goto(r, p) == phase' = [phase EXCEPT ![r] = p]

\* The thread has no runtime; its last words are sent.
RuntimeFails(r) ==
    /\ phase[r] = "start"
    /\ Goto(r, "returned")
    /\ Report(r, "Failed")
    /\ UNCHANGED <<connected, delay, retry_delay, sessions, control, failures,
                   stop, guiVars>>

Begin(r) ==
    /\ phase[r] = "start" /\ MayReport(r)
    /\ Goto(r, "dialing")
    /\ Report(r, "Connecting")
    /\ UNCHANGED <<connected, delay, retry_delay, sessions, control, failures,
                   stop, guiVars>>

\* run_control has read HelloOk.
Connect(r) ==
    /\ phase[r] = "dialing" /\ MayReport(r)
    /\ Goto(r, "control")
    /\ connected' = [connected EXCEPT ![r] = TRUE]
    /\ control' = [control EXCEPT ![r] = "open"]
    /\ failures' = [failures EXCEPT ![r] = 0]
    /\ Report(r, "Connected")
    /\ UNCHANGED <<delay, retry_delay, sessions, stop, guiVars>>

\* Faulty: the sessions end with the control connection.
RunControlEndsSessions(r) ==
    /\ phase[r] \in {"dialing", "control"} /\ MayReport(r)
    /\ Goto(r, "waiting")
    /\ control' = [control EXCEPT ![r] = "closed"]
    /\ sessions' = [sessions EXCEPT ![r] = {}]
    /\ retry_delay' = [retry_delay EXCEPT ![r] =
                          IF connected[r] THEN InitialDelay ELSE delay[r]]
    /\ failures' = [failures EXCEPT ![r] =
                       IF connected[r] \/ @ = CountTo THEN @ ELSE @ + 1]
    /\ Report(r, "Retrying")
    /\ UNCHANGED <<connected, delay, stop, guiVars>>

\* run_control returns: the attempt failed, or the connection ended, and its
\* reader task with it.
RunControlEnds(r) ==
    /\ phase[r] \in {"dialing", "control"} /\ MayReport(r)
    /\ Goto(r, "waiting")
    /\ control' = [control EXCEPT ![r] = "closed"]
    /\ retry_delay' = [retry_delay EXCEPT ![r] =
                          IF connected[r] THEN InitialDelay ELSE delay[r]]
    /\ failures' = [failures EXCEPT ![r] =
                       IF connected[r] \/ @ = CountTo THEN @ ELSE @ + 1]
    /\ Report(r, "Retrying")
    /\ UNCHANGED <<connected, delay, sessions, stop, guiVars>>

\* Faulty: the delay grows whether the run was connected or not.
AwakeAlwaysGrows(r) ==
    /\ phase[r] = "waiting" /\ MayReport(r)
    /\ Goto(r, "dialing")
    /\ delay' = [delay EXCEPT ![r] = IF 2 * @ < MaxDelay THEN 2 * @ ELSE MaxDelay]
    /\ connected' = [connected EXCEPT ![r] = FALSE]
    /\ Report(r, "Connecting")
    /\ UNCHANGED <<retry_delay, sessions, control, failures, stop, guiVars>>

\* Faulty: the delay doubles without end.
next_delay_uncapped(current, was_connected) ==
    IF was_connected THEN InitialDelay ELSE 2 * current

\* The delay that the next failure waits for.
next_reconnect_delay(current, was_connected) ==
    IF was_connected THEN InitialDelay
    ELSE IF 2 * current < MaxDelay THEN 2 * current ELSE MaxDelay

\* Faulty: only a lost connection is made again.
AwakeIfWasConnected(r) ==
    /\ phase[r] = "waiting" /\ MayReport(r) /\ connected[r]
    /\ Goto(r, "dialing")
    /\ delay' = [delay EXCEPT ![r] = next_reconnect_delay(@, connected[r])]
    /\ connected' = [connected EXCEPT ![r] = FALSE]
    /\ Report(r, "Connecting")
    /\ UNCHANGED <<retry_delay, sessions, control, failures, stop, guiVars>>

\* The delay is over, and the loop goes round.
Awake(r) ==
    /\ phase[r] = "waiting" /\ MayReport(r)
    /\ Goto(r, "dialing")
    /\ delay' = [delay EXCEPT ![r] = next_reconnect_delay(@, connected[r])]
    /\ connected' = [connected EXCEPT ![r] = FALSE]
    /\ Report(r, "Connecting")
    /\ UNCHANGED <<retry_delay, sessions, control, failures, stop, guiVars>>

OpenSession(r, s) ==
    /\ phase[r] = "control" /\ s \notin sessions[r]
    /\ sessions' = [sessions EXCEPT ![r] = @ \cup {s}]
    /\ UNCHANGED <<phase, connected, delay, retry_delay, control, failures,
                   stop, status, guiVars>>

\* A session task ends by itself; when it is joined makes no difference.
SessionEnds(r, s) ==
    /\ s \in sessions[r]
    /\ sessions' = [sessions EXCEPT ![r] = @ \ {s}]
    /\ UNCHANGED <<phase, connected, delay, retry_delay, control, failures,
                   stop, status, guiVars>>

\* Faulty: only the wait for the next attempt looks at the signal.
StopSeenWaiting(r) ==
    /\ phase[r] = "waiting" /\ stop[r]
    /\ Goto(r, "stopping")
    /\ control' = [control EXCEPT ![r] = IF @ = "open" THEN "detached" ELSE @]
    /\ Report(r, "Stopped")
    /\ UNCHANGED <<connected, delay, retry_delay, sessions, failures, stop, guiVars>>

\* Faulty: the supervisor returns without sessions.shutdown.
StopSeenReturns(r) ==
    /\ phase[r] \in {"dialing", "control", "waiting"} /\ stop[r]
    /\ Goto(r, "returned")
    /\ control' = [control EXCEPT ![r] = IF @ = "open" THEN "detached" ELSE @]
    /\ Report(r, "Stopped")
    /\ UNCHANGED <<connected, delay, retry_delay, sessions, failures, stop, guiVars>>

\* The stop branch of either select.  run_control is dropped where it stands,
\* and with it the JoinHandle of its reader task.
StopSeen(r) ==
    /\ phase[r] \in {"dialing", "control", "waiting"} /\ stop[r]
    /\ Goto(r, "stopping")
    /\ control' = [control EXCEPT ![r] = IF @ = "open" THEN "detached" ELSE @]
    /\ Report(r, "Stopped")
    /\ UNCHANGED <<connected, delay, retry_delay, sessions, failures, stop, guiVars>>

\* sessions.shutdown
Shutdown(r) ==
    /\ phase[r] = "stopping"
    /\ sessions' = [sessions EXCEPT ![r] = {}]
    /\ Goto(r, "returned")
    /\ UNCHANGED <<connected, delay, retry_delay, control, failures, stop, status, guiVars>>

\* The reader task reads one more frame and finds no consumer, or its read fails.
DetachedReaderEnds(r) ==
    /\ control[r] = "detached"
    /\ control' = [control EXCEPT ![r] = "closed"]
    /\ UNCHANGED <<phase, connected, delay, retry_delay, sessions, failures,
                   stop, status, guiVars>>

\* The runtime is dropped with all its tasks, and the thread is finished.
ThreadEnds(r) ==
    /\ phase[r] = "returned"
    /\ Goto(r, "ended")
    /\ sessions' = [sessions EXCEPT ![r] = {}]
    /\ control' = [control EXCEPT ![r] = "closed"]
    /\ UNCHANGED <<connected, delay, retry_delay, failures, stop, status, guiVars>>

-----------------------------------------------------------------------------
(* The window.                                                             *)

\* The display of a status message (apply_agent_status).
StateOf(message) == IF message = "Failed" THEN "Error" ELSE message

\* poll_agent: try_recv gives a message, or nothing yet, or the channel's end.
Drain ==
    /\ gui = "draining"
    /\ \/ /\ status_rx /\ status[run] # <<>>
          /\ connection_state' = StateOf(Head(status[run]))
          /\ status' = [status EXCEPT ![run] = Tail(@)]
          /\ UNCHANGED <<status_rx, gui>>
       \/ /\ status_rx => status[run] = <<>>
          /\ status_rx' = (status_rx /\ phase[run] # "ended")
          /\ gui' = "checking"
          /\ UNCHANGED <<connection_state, status>>
    /\ UNCHANGED <<agentVars, stop, run, agent_thread, stop_tx>>

\* Faulty: with the thread its messages are given up.
CheckDropsMessages ==
    /\ gui = "checking"
    /\ IF agent_thread /\ phase[run] = "ended"
       THEN agent_thread' = FALSE /\ stop_tx' = FALSE /\ status_rx' = FALSE
       ELSE UNCHANGED <<agent_thread, stop_tx, status_rx>>
    /\ gui' = "buttons"
    /\ UNCHANGED <<agentVars, stop, status, run, connection_state>>

\* The rest of poll_agent: a finished thread is joined.  Messages it sent
\* since the channel was drained stay there.
Check ==
    /\ gui = "checking"
    /\ IF agent_thread /\ phase[run] = "ended"
       THEN agent_thread' = FALSE /\ stop_tx' = FALSE
       ELSE UNCHANGED <<agent_thread, stop_tx>>
    /\ gui' = "buttons"
    /\ UNCHANGED <<agentVars, stop, status, run, status_rx, connection_state>>

\* The start button is shown without a thread only.
Start ==
    /\ gui = "buttons" /\ ~agent_thread
    /\ run < MaxRuns
    /\ run' = run + 1
    /\ Goto(run + 1, "start")
    /\ agent_thread' = TRUE /\ stop_tx' = TRUE /\ status_rx' = TRUE
    /\ connection_state' = "Connecting"
    /\ gui' = "draining"
    /\ UNCHANGED <<connected, delay, retry_delay, sessions, control, failures,
                   stop, status>>

\* stop_tx.take and send, if it is there.
SendStop ==
    /\ stop' = IF stop_tx THEN [stop EXCEPT ![run] = TRUE] ELSE stop
    /\ stop_tx' = FALSE

\* Faulty: the window lets go of the thread with its stop signal.
StopLetsGo ==
    /\ gui = "buttons" /\ agent_thread
    /\ SendStop
    /\ agent_thread' = FALSE
    /\ connection_state' = "Stopped"
    /\ gui' = "draining"
    /\ UNCHANGED <<agentVars, status, run, status_rx>>

Stop ==
    /\ gui = "buttons" /\ agent_thread
    /\ SendStop
    /\ connection_state' = "Stopped"
    /\ gui' = "draining"
    /\ UNCHANGED <<agentVars, status, run, agent_thread, status_rx>>

NoClick ==
    /\ gui = "buttons"
    /\ gui' = "draining"
    /\ UNCHANGED <<agentVars, stop, status, run, agent_thread, stop_tx, status_rx,
                   connection_state>>

\* Quit in the tray's menu stops the agent and closes the window; ClientApp is
\* dropped, and the thread is left to itself.
Close ==
    /\ gui = "buttons"
    /\ SendStop
    /\ connection_state' = "Stopped"
    /\ agent_thread' = FALSE /\ status_rx' = FALSE
    /\ gui' = "closed"
    /\ UNCHANGED <<agentVars, status, run>>

\* main returns, and the process ends with all its threads.
Exit ==
    /\ gui = "closed"
    /\ gui' = "exited"
    /\ phase' = [r \in Runs |-> IF phase[r] = "none" THEN "none" ELSE "ended"]
    /\ sessions' = [r \in Runs |-> {}]
    /\ control' = [r \in Runs |-> "closed"]
    /\ status' = [r \in Runs |-> <<>>]
    /\ UNCHANGED <<connected, delay, retry_delay, failures, stop, run, agent_thread,
                   stop_tx, status_rx, connection_state>>

-----------------------------------------------------------------------------

\* What the runtime does without the network's help.
Supervise(r) ==
    Begin(r) \/ Awake(r) \/ Shutdown(r) \/ ThreadEnds(r)

Poll == Drain \/ Check

Window == Poll \/ Start \/ Stop \/ NoClick \/ Close \/ Exit

Agent(r) ==
    \/ RuntimeFails(r) \/ Begin(r) \/ Connect(r) \/ RunControlEnds(r) \/ Awake(r)
    \/ StopSeen(r) \/ Shutdown(r) \/ DetachedReaderEnds(r) \/ ThreadEnds(r)
    \/ \E s \in Sessions : OpenSession(r, s) \/ SessionEnds(r, s)

Next == Window \/ (\E r \in Runs : Agent(r)) \/ (gui = "exited" /\ UNCHANGED vars)

Spec == Init /\ [][Next]_vars

\* The window is updated again and again (request_repaint_after), also when
\* nobody clicks.  The supervisor is scheduled, its timer fires, and a stop
\* signal that stays is seen: both selects poll it.
FairSpec ==
    /\ Spec
    /\ WF_vars(Poll \/ NoClick)
    /\ \A r \in Runs : WF_vars(Supervise(r)) /\ WF_vars(StopSeen(r))

-----------------------------------------------------------------------------
Messages == {"Connecting", "Connected", "Retrying", "Stopped", "Failed"}

TypeOK ==
    /\ phase \in [Runs -> {"none", "start", "dialing", "control", "waiting",
                           "stopping", "returned", "ended"}]
    /\ connected \in [Runs -> BOOLEAN]
    /\ delay \in [Runs -> InitialDelay..MaxDelay]
    /\ retry_delay \in [Runs -> InitialDelay..MaxDelay]
    /\ sessions \in [Runs -> SUBSET Sessions]
    /\ control \in [Runs -> {"closed", "open", "detached"}]
    /\ stop \in [Runs -> BOOLEAN]
    /\ status \in [Runs -> Seq(Messages)]
    /\ failures \in [Runs -> 0..CountTo]
    /\ run \in 0..MaxRuns
    /\ {agent_thread, stop_tx, status_rx} \subseteq BOOLEAN
    /\ connection_state \in {"Stopped", "Connecting", "Connected", "Retrying", "Error"}
    /\ gui \in {"draining", "checking", "buttons", "closed", "exited"}

\* Something of run r is alive in this process.
Alive(r) ==
    \/ phase[r] \notin {"none", "ended"}
    \/ sessions[r] # {} \/ control[r] # "closed"

\* The program never runs two agents, not even the rest of a stopped one beside
\* a new one: they would take the device from each other (start and
\* poll_agent, 317 and 397 of desktop.rs).
OneAgentAtATime == \A r, q \in Runs : Alive(r) /\ Alive(q) => r = q

\* What the display should say of a supervisor.
Expected(p) ==
    CASE p \in {"start", "dialing"} -> "Connecting"
      [] p = "control"              -> "Connected"
      [] p = "waiting"              -> "Retrying"

\* With every message read, and unless a stop is under way, the display tells
\* the state of the running agent (deployment-detailed.md 264-270), and
\* without an agent it shows none.
DisplayAgrees ==
    gui \notin {"closed", "exited"} /\ (status_rx => status[run] = <<>>) =>
        /\ ~agent_thread => connection_state \in {"Stopped", "Error"}
        /\ agent_thread /\ ~stop[run] /\ phase[run] \in {"start", "dialing", "control", "waiting"} =>
              connection_state = Expected(phase[run])

\* When the supervisor has returned no session is left, and when its thread has
\* ended no connection either.
StoppedIsQuiet ==
    \A r \in Runs :
        /\ phase[r] \in {"returned", "ended"} => sessions[r] = {}
        /\ phase[r] = "ended" => control[r] = "closed"

\* Delays double from InitialDelay to MaxDelay with each failure in a row; a
\* connection that was accepted starts them again.
Doubled[k \in Nat] ==
    IF k <= 1 THEN InitialDelay
    ELSE IF 2 * Doubled[k - 1] < MaxDelay THEN 2 * Doubled[k - 1] ELSE MaxDelay

BackoffFollowsFailures ==
    \A r \in Runs :
        phase[r] = "waiting" /\ failures[r] < CountTo => retry_delay[r] = Doubled[failures[r]]

\* Reconnecting never ends a session (CHANGELOG.md 11): sessions disappear one
\* at a time and by themselves, until a stop.
SessionsSurviveReconnect ==
    [][\A r \in Runs :
          phase[r] \in {"dialing", "control", "waiting"} /\ gui # "closed"
              /\ sessions'[r] # sessions[r]
          => phase'[r] = phase[r] /\ Cardinality(sessions[r] \ sessions'[r]) <= 1]_vars

-----------------------------------------------------------------------------
\* A stop ends the run, its thread and all that belongs to it, wherever the
\* supervisor stands.
StopEnds == \A r \in Runs : stop[r] ~> phase[r] = "ended" \/ gui = "exited"

\* A run tries again and again until it is stopped.
KeepsTrying ==
    \A r \in Runs :
        phase[r] = "waiting" ~> phase[r] = "dialing" \/ stop[r] \/ gui \in {"closed", "exited"}
=============================================================================
