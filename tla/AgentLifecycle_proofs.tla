------------------------ MODULE AgentLifecycle_proofs ------------------------
(***************************************************************************)
(* For any number of runs and sessions and any delays: one agent at a time, *)
(* a display that agrees with it, nothing left of a stopped one, and delays *)
(* that double with each failure.                                           *)
(***************************************************************************)
EXTENDS AgentLifecycle, FiniteSetTheorems, SequenceTheorems,
        WellFoundedInduction, TLAPS

-----------------------------------------------------------------------------
(* The inductive invariant.                                                *)

Open == gui \notin {"closed", "exited"}

\* Runs come one after the other: while the window is open, only the last one
\* may be alive, and only while its thread is held.
RunsInTurn ==
    /\ \A r \in Runs : phase[r] = "none" <=> r > run
    /\ \A r \in Runs : r < run => phase[r] = "ended"
    /\ agent_thread \/ status_rx => run \in Runs
    /\ stop_tx => agent_thread
    /\ Open /\ ~agent_thread /\ run # 0 => phase[run] = "ended"

\* What a supervisor owns at each point.
OwnedByPhase ==
    \A r \in Runs :
        /\ phase[r] \in {"none", "start", "returned", "ended"} => sessions[r] = {}
        /\ phase[r] \in {"none", "start", "ended"} => control[r] = "closed"

\* What the display will say when every message has been read.
Shown ==
    IF run \in Runs /\ status_rx /\ status[run] # <<>>
    THEN StateOf(status[run][Len(status[run])]) ELSE connection_state

\* ... and what it has to say then.
MessagesTell ==
    /\ \A r \in Runs : phase[r] = "none" => status[r] = <<>>
    /\ Open =>
          /\ agent_thread /\ ~stop_tx => stop[run]
          /\ run = 0 => connection_state = "Stopped"
          /\ run # 0 /\ ~status_rx => phase[run] = "ended"
          /\ run # 0 /\ phase[run] \in {"stopping", "returned", "ended"} =>
                Shown \in {"Stopped", "Error"}
          /\ run # 0 /\ ~stop[run] /\ phase[run] \in {"start", "dialing", "control", "waiting"} =>
                Shown = Expected(phase[run])

\* The delay of the next failure follows from the failures before it.
DelaysFollow ==
    \A r \in Runs :
        /\ phase[r] \in {"none", "start"} =>
              delay[r] = InitialDelay /\ failures[r] = 0 /\ ~connected[r]
        /\ phase[r] = "dialing" =>
              ~connected[r] /\ (failures[r] < CountTo => delay[r] = Doubled[failures[r] + 1])
        /\ phase[r] = "control" => connected[r] /\ failures[r] = 0
        /\ phase[r] = "waiting" =>
              /\ connected[r] => failures[r] = 0 /\ retry_delay[r] = InitialDelay
              /\ ~connected[r] => failures[r] > 0
              /\ ~connected[r] /\ failures[r] < CountTo =>
                    delay[r] = Doubled[failures[r]] /\ retry_delay[r] = delay[r]

IInv == TypeOK /\ RunsInTurn /\ OwnedByPhase /\ MessagesTell

-----------------------------------------------------------------------------

USE DelaysAssumption DEF Runs

-----------------------------------------------------------------------------
(* Types, runs in turn, and what a run owns.                               *)

LEMMA InitInv == Init => IInv
<1> SUFFICES ASSUME Init PROVE IInv
    OBVIOUS
<1>1. TypeOK
  <2>1. status \in [Runs -> Seq(Messages)]
      BY DEF Init
  <2>2. {agent_thread, stop_tx, status_rx} \subseteq BOOLEAN
      BY DEF Init
  <2> QED
      BY <2>1, <2>2 DEF Init, TypeOK
<1>2. RunsInTurn /\ OwnedByPhase
    BY DEF Init, RunsInTurn, OwnedByPhase
<1>3. MessagesTell
    BY DEF Init, MessagesTell
<1> QED
    BY <1>1, <1>2, <1>3 DEF IInv

LEMMA ReportType ==
    ASSUME TypeOK, NEW r \in Runs, NEW m \in Messages, Report(r, m)
    PROVE  status' \in [Runs -> Seq(Messages)]
<1>1. status \in [Runs -> Seq(Messages)] /\ status[r] \in Seq(Messages)
    BY DEF TypeOK
<1>2. Append(status[r], m) \in Seq(Messages)
    BY <1>1
<1> QED
    BY <1>1, <1>2 DEF Report

LEMMA TypeStep == TypeOK /\ RunsInTurn /\ [Next]_vars => TypeOK'
<1> SUFFICES ASSUME TypeOK, RunsInTurn, [Next]_vars PROVE TypeOK'
    OBVIOUS
<1>1. ASSUME NEW r \in Runs, RuntimeFails(r) PROVE TypeOK'
  <2>1. status' \in [Runs -> Seq(Messages)]
      BY <1>1, ReportType DEF RuntimeFails, Messages
  <2> QED
      BY <1>1, <2>1 DEF RuntimeFails, Goto, guiVars, TypeOK
<1>2. ASSUME NEW r \in Runs, Begin(r) PROVE TypeOK'
  <2>1. status' \in [Runs -> Seq(Messages)]
      BY <1>2, ReportType DEF Begin, Messages
  <2> QED
      BY <1>2, <2>1 DEF Begin, Goto, guiVars, TypeOK
<1>3. ASSUME NEW r \in Runs, Connect(r) PROVE TypeOK'
  <2>1. status' \in [Runs -> Seq(Messages)]
      BY <1>3, ReportType DEF Connect, Messages
  <2> QED
      BY <1>3, <2>1 DEF Connect, Goto, guiVars, TypeOK
<1>4. ASSUME NEW r \in Runs, RunControlEnds(r) PROVE TypeOK'
  <2>1. status' \in [Runs -> Seq(Messages)]
      BY <1>4, ReportType DEF RunControlEnds, Messages
  <2>2. retry_delay' \in [Runs -> InitialDelay..MaxDelay]
    <3>1. /\ retry_delay \in [Runs -> InitialDelay..MaxDelay]
          /\ delay[r] \in InitialDelay..MaxDelay
        BY DEF TypeOK
    <3>2. (IF connected[r] THEN InitialDelay ELSE delay[r]) \in InitialDelay..MaxDelay
        BY <3>1, DelaysAssumption
    <3>3. retry_delay' = [retry_delay EXCEPT ![r] =
                             IF connected[r] THEN InitialDelay ELSE delay[r]]
        BY <1>4 DEF RunControlEnds
    <3> QED
        BY <3>1, <3>2, <3>3
  <2>3. failures' \in [Runs -> 0..CountTo]
    <3>1. failures \in [Runs -> 0..CountTo] /\ CountTo \in Nat
        BY DelaysAssumption DEF TypeOK
    <3>2. failures' = [failures EXCEPT ![r] =
                          IF connected[r] \/ @ = CountTo THEN @ ELSE @ + 1]
        BY <1>4 DEF RunControlEnds
    <3> QED
        BY <3>1, <3>2
  <2> QED
      BY <1>4, <2>1, <2>2, <2>3 DEF RunControlEnds, Goto, guiVars, TypeOK
<1>5. ASSUME NEW r \in Runs, Awake(r) PROVE TypeOK'
  <2>1. status' \in [Runs -> Seq(Messages)]
      BY <1>5, ReportType DEF Awake, Messages
  <2>2. next_reconnect_delay(delay[r], connected[r]) \in InitialDelay..MaxDelay
      BY SMTT(30) DEF next_reconnect_delay, TypeOK
  <2>3. delay' \in [Runs -> InitialDelay..MaxDelay]
      BY <1>5, <2>2 DEF Awake, TypeOK
  <2> QED
      BY <1>5, <2>1, <2>3 DEF Awake, Goto, guiVars, TypeOK
<1>6. ASSUME NEW r \in Runs, StopSeen(r) PROVE TypeOK'
  <2>1. status' \in [Runs -> Seq(Messages)]
      BY <1>6, ReportType DEF StopSeen, Messages
  <2> QED
      BY <1>6, <2>1 DEF StopSeen, Goto, guiVars, TypeOK
<1>7. ASSUME NEW r \in Runs, Shutdown(r) PROVE TypeOK'
    BY <1>7
       DEF Shutdown, Goto, guiVars, TypeOK
<1>8. ASSUME NEW r \in Runs, DetachedReaderEnds(r) PROVE TypeOK'
    BY <1>8
       DEF DetachedReaderEnds, guiVars, TypeOK
<1>9. ASSUME NEW r \in Runs, ThreadEnds(r) PROVE TypeOK'
    BY <1>9
       DEF ThreadEnds, Goto, guiVars, TypeOK
<1>10. ASSUME NEW r \in Runs, NEW s \in Sessions, OpenSession(r, s) PROVE TypeOK'
    BY <1>10
       DEF OpenSession, guiVars, TypeOK
<1>11. ASSUME NEW r \in Runs, NEW s \in Sessions, SessionEnds(r, s) PROVE TypeOK'
    BY <1>11
       DEF SessionEnds, guiVars, TypeOK
<1>12. CASE Drain
  <2>1. CASE status_rx /\ status[run] # <<>> /\ status' = [status EXCEPT ![run] = Tail(@)]
             /\ connection_state' = StateOf(Head(status[run]))
    <3>1. run \in Runs
        BY <2>1 DEF RunsInTurn
    <3>2. status[run] \in Seq(Messages) /\ status[run] # <<>>
        BY <2>1, <3>1 DEF TypeOK
    <3>3. Head(status[run]) \in Messages /\ Tail(status[run]) \in Seq(Messages)
        BY <3>2
    <3>4. status' \in [Runs -> Seq(Messages)]
        BY <2>1, <3>1, <3>3 DEF TypeOK
    <3>5. connection_state' \in {"Stopped", "Connecting", "Connected", "Retrying", "Error"}
        BY <2>1, <3>3 DEF StateOf, Messages
    <3> QED
        BY <1>12, <2>1, <3>4, <3>5 DEF Drain, agentVars, TypeOK
  <2>2. CASE UNCHANGED <<connection_state, status>>
      BY <1>12, <2>2 DEF Drain, agentVars, TypeOK
  <2> QED
      BY <1>12, <2>1, <2>2 DEF Drain
<1>13. CASE Check
    BY <1>13
       DEF Check, agentVars, TypeOK
<1>14. CASE Start
    BY <1>14
       DEF Start, Goto, TypeOK
<1>15. CASE Stop
    BY <1>15
       DEF Stop, agentVars, SendStop, TypeOK
<1>16. CASE NoClick
    BY <1>16
       DEF NoClick, agentVars, TypeOK
<1>17. CASE Close
    BY <1>17
       DEF Close, agentVars, SendStop, TypeOK
<1>18. CASE Exit
  <2>1. status' \in [Runs -> Seq(Messages)]
      BY <1>18 DEF Exit
  <2> QED
      BY <1>18, <2>1 DEF Exit, TypeOK
<1>19. CASE UNCHANGED vars
    BY <1>19
       DEF vars, agentVars, guiVars, TypeOK
<1> QED
    BY <1>1, <1>2, <1>3, <1>4, <1>5, <1>6, <1>7, <1>8, <1>9, <1>10, <1>11,
       <1>12, <1>13, <1>14, <1>15, <1>16, <1>17, <1>18, <1>19
       DEF Next, Window, Poll, Agent

LEMMA RunsStep == TypeOK /\ RunsInTurn /\ [Next]_vars => RunsInTurn'
<1> SUFFICES ASSUME TypeOK, RunsInTurn, [Next]_vars PROVE RunsInTurn'
    OBVIOUS
<1>1. ASSUME NEW r \in Runs, RuntimeFails(r) PROVE RunsInTurn'
    BY <1>1
       DEF RuntimeFails, Goto, Report, guiVars, TypeOK, RunsInTurn, Open
<1>2. ASSUME NEW r \in Runs, Begin(r) PROVE RunsInTurn'
    BY <1>2
       DEF Begin, Goto, Report, guiVars, TypeOK, RunsInTurn, Open
<1>3. ASSUME NEW r \in Runs, Connect(r) PROVE RunsInTurn'
    BY <1>3
       DEF Connect, Goto, Report, guiVars, TypeOK, RunsInTurn, Open
<1>4. ASSUME NEW r \in Runs, RunControlEnds(r) PROVE RunsInTurn'
    BY <1>4
       DEF RunControlEnds, Goto, Report, guiVars, TypeOK, RunsInTurn, Open
<1>5. ASSUME NEW r \in Runs, Awake(r) PROVE RunsInTurn'
    BY <1>5
       DEF Awake, next_reconnect_delay, Goto, Report, guiVars, TypeOK, RunsInTurn, Open
<1>6. ASSUME NEW r \in Runs, StopSeen(r) PROVE RunsInTurn'
    BY <1>6
       DEF StopSeen, Goto, Report, guiVars, TypeOK, RunsInTurn, Open
<1>7. ASSUME NEW r \in Runs, Shutdown(r) PROVE RunsInTurn'
    BY <1>7
       DEF Shutdown, Goto, guiVars, TypeOK, RunsInTurn, Open
<1>8. ASSUME NEW r \in Runs, DetachedReaderEnds(r) PROVE RunsInTurn'
    BY <1>8
       DEF DetachedReaderEnds, guiVars, TypeOK, RunsInTurn, Open
<1>9. ASSUME NEW r \in Runs, ThreadEnds(r) PROVE RunsInTurn'
    BY <1>9
       DEF ThreadEnds, Goto, guiVars, TypeOK, RunsInTurn, Open
<1>10. ASSUME NEW r \in Runs, NEW s \in Sessions, OpenSession(r, s) PROVE RunsInTurn'
    BY <1>10
       DEF OpenSession, guiVars, TypeOK, RunsInTurn, Open
<1>11. ASSUME NEW r \in Runs, NEW s \in Sessions, SessionEnds(r, s) PROVE RunsInTurn'
    BY <1>11
       DEF SessionEnds, guiVars, TypeOK, RunsInTurn, Open
<1>12. CASE Drain
    BY <1>12
       DEF Drain, agentVars, TypeOK, RunsInTurn, Open
<1>13. CASE Check
    BY <1>13
       DEF Check, agentVars, TypeOK, RunsInTurn, Open
<1>14. CASE Start
    BY <1>14
       DEF Start, Goto, TypeOK, RunsInTurn, Open
<1>15. CASE Stop
    BY <1>15
       DEF Stop, agentVars, SendStop, TypeOK, RunsInTurn, Open
<1>16. CASE NoClick
    BY <1>16
       DEF NoClick, agentVars, TypeOK, RunsInTurn, Open
<1>17. CASE Close
    BY <1>17
       DEF Close, agentVars, SendStop, TypeOK, RunsInTurn, Open
<1>18. CASE Exit
    BY <1>18
       DEF Exit, TypeOK, RunsInTurn, Open
<1>19. CASE UNCHANGED vars
    BY <1>19
       DEF vars, agentVars, guiVars, TypeOK, RunsInTurn, Open
<1> QED
    BY <1>1, <1>2, <1>3, <1>4, <1>5, <1>6, <1>7, <1>8, <1>9, <1>10, <1>11,
       <1>12, <1>13, <1>14, <1>15, <1>16, <1>17, <1>18, <1>19
       DEF Next, Window, Poll, Agent

LEMMA OwnedStep == TypeOK /\ RunsInTurn /\ OwnedByPhase /\ [Next]_vars => OwnedByPhase'
<1> SUFFICES ASSUME TypeOK, RunsInTurn, OwnedByPhase, [Next]_vars PROVE OwnedByPhase'
    OBVIOUS
<1>1. ASSUME NEW r \in Runs, RuntimeFails(r) PROVE OwnedByPhase'
    BY <1>1
       DEF RuntimeFails, Goto, Report, guiVars, TypeOK, OwnedByPhase
<1>2. ASSUME NEW r \in Runs, Begin(r) PROVE OwnedByPhase'
    BY <1>2
       DEF Begin, Goto, Report, guiVars, TypeOK, OwnedByPhase
<1>3. ASSUME NEW r \in Runs, Connect(r) PROVE OwnedByPhase'
    BY <1>3
       DEF Connect, Goto, Report, guiVars, TypeOK, OwnedByPhase
<1>4. ASSUME NEW r \in Runs, RunControlEnds(r) PROVE OwnedByPhase'
    BY <1>4
       DEF RunControlEnds, Goto, Report, guiVars, TypeOK, OwnedByPhase
<1>5. ASSUME NEW r \in Runs, Awake(r) PROVE OwnedByPhase'
    BY <1>5
       DEF Awake, next_reconnect_delay, Goto, Report, guiVars, TypeOK, OwnedByPhase
<1>6. ASSUME NEW r \in Runs, StopSeen(r) PROVE OwnedByPhase'
    BY <1>6
       DEF StopSeen, Goto, Report, guiVars, TypeOK, OwnedByPhase
<1>7. ASSUME NEW r \in Runs, Shutdown(r) PROVE OwnedByPhase'
    BY <1>7
       DEF Shutdown, Goto, guiVars, TypeOK, OwnedByPhase
<1>8. ASSUME NEW r \in Runs, DetachedReaderEnds(r) PROVE OwnedByPhase'
    BY <1>8
       DEF DetachedReaderEnds, guiVars, TypeOK, OwnedByPhase
<1>9. ASSUME NEW r \in Runs, ThreadEnds(r) PROVE OwnedByPhase'
    BY <1>9
       DEF ThreadEnds, Goto, guiVars, TypeOK, OwnedByPhase
<1>10. ASSUME NEW r \in Runs, NEW s \in Sessions, OpenSession(r, s) PROVE OwnedByPhase'
    BY <1>10
       DEF OpenSession, guiVars, TypeOK, OwnedByPhase
<1>11. ASSUME NEW r \in Runs, NEW s \in Sessions, SessionEnds(r, s) PROVE OwnedByPhase'
    BY <1>11
       DEF SessionEnds, guiVars, TypeOK, OwnedByPhase
<1>12. CASE Drain
    BY <1>12
       DEF Drain, agentVars, TypeOK, OwnedByPhase
<1>13. CASE Check
    BY <1>13
       DEF Check, agentVars, TypeOK, OwnedByPhase
<1>14. CASE Start
    BY <1>14
       DEF Start, Goto, TypeOK, RunsInTurn, OwnedByPhase
<1>15. CASE Stop
    BY <1>15
       DEF Stop, agentVars, SendStop, TypeOK, OwnedByPhase
<1>16. CASE NoClick
    BY <1>16
       DEF NoClick, agentVars, TypeOK, OwnedByPhase
<1>17. CASE Close
    BY <1>17
       DEF Close, agentVars, SendStop, TypeOK, OwnedByPhase
<1>18. CASE Exit
    BY <1>18
       DEF Exit, TypeOK, OwnedByPhase
<1>19. CASE UNCHANGED vars
    BY <1>19
       DEF vars, agentVars, guiVars, TypeOK, OwnedByPhase
<1> QED
    BY <1>1, <1>2, <1>3, <1>4, <1>5, <1>6, <1>7, <1>8, <1>9, <1>10, <1>11,
       <1>12, <1>13, <1>14, <1>15, <1>16, <1>17, <1>18, <1>19
       DEF Next, Window, Poll, Agent

-----------------------------------------------------------------------------
(* The messages and the display.                                           *)

\* Only the last run's supervisor is at work.
LEMMA ActiveIsLast ==
    ASSUME TypeOK, RunsInTurn, NEW r \in Runs, phase[r] \notin {"none", "ended"}
    PROVE  r = run /\ run # 0
    BY DEF TypeOK, RunsInTurn

LEMMA LastOfTail ==
    ASSUME NEW S, NEW q \in Seq(S), q # <<>>
    PROVE  IF Len(q) = 1 THEN Tail(q) = <<>>
           ELSE Tail(q) # <<>> /\ Tail(q)[Len(Tail(q))] = q[Len(q)]
<1>1. /\ Len(q) \in Nat \ {0} /\ Len(<<>>) = 0
      /\ \A t \in Seq(S) : Len(t) = 0 => t = <<>>
    BY EmptySeq
<1>2. /\ Len(Tail(q)) = Len(q) - 1 /\ Tail(q) \in Seq(S)
      /\ \A i \in 1..Len(Tail(q)) : Tail(q)[i] = q[i + 1]
    BY HeadTailProperties
<1>3. CASE Len(q) = 1
  <2>1. Len(Tail(q)) = 0
      BY <1>2, <1>3
  <2>2. Tail(q) = <<>>
      BY <1>1, <1>2, <2>1, Zenon
  <2> QED
      BY <1>3, <2>2
<1>4. CASE Len(q) # 1
  <2>1. Len(q) - 1 \in 1..Len(Tail(q)) /\ (Len(q) - 1) + 1 = Len(q)
      BY <1>1, <1>2, <1>4
  <2>2. Tail(q)[Len(q) - 1] = q[Len(q)]
      BY <1>2, <2>1
  <2>3. Len(Tail(q)) # 0
      BY <2>1
  <2>4. Tail(q) # <<>>
      BY <1>1, <2>3, Zenon
  <2> QED
      BY <1>2, <1>4, <2>2, <2>4
<1> QED
    BY <1>3, <1>4

LEMMA ReportIsShown ==
    ASSUME TypeOK, NEW m \in Messages, run \in Runs, Report(run, m),
           UNCHANGED guiVars, status_rx
    PROVE  Shown' = StateOf(m)
<1>1. status[run] \in Seq(Messages) /\ status'[run] = Append(status[run], m)
    BY DEF Report, TypeOK
<1>2. status'[run] # <<>> /\ status'[run][Len(status'[run])] = m
    BY <1>1, SMTT(30)
<1> QED
    BY <1>2 DEF Shown, guiVars

\* Reading a message changes nothing of what the display will say.
LEMMA ReadingShowsTheSame ==
    ASSUME TypeOK, run \in Runs, status_rx, status_rx', run' = run, status[run] # <<>>,
           connection_state' = StateOf(Head(status[run])),
           status' = [status EXCEPT ![run] = Tail(@)]
    PROVE  Shown' = Shown
<1>1. status[run] \in Seq(Messages) /\ status'[run] = Tail(status[run])
    BY DEF TypeOK
<1>2. Head(status[run]) = status[run][1]
    BY <1>1
<1>3. CASE Len(status[run]) = 1
  <2>1. Tail(status[run]) = <<>>
      BY <1>1, <1>3, LastOfTail
  <2> QED
      BY <1>1, <1>2, <1>3, <2>1 DEF Shown
<1>4. CASE Len(status[run]) # 1
  <2>1. /\ Tail(status[run]) # <<>>
        /\ Tail(status[run])[Len(Tail(status[run]))] = status[run][Len(status[run])]
      BY <1>1, <1>4, LastOfTail
  <2> QED
      BY <1>1, <2>1, SMTT(30) DEF Shown
<1> QED
    BY <1>3, <1>4

LEMMA MessagesStep == TypeOK /\ RunsInTurn /\ MessagesTell /\ [Next]_vars => MessagesTell'
<1> SUFFICES ASSUME TypeOK, RunsInTurn, MessagesTell, [Next]_vars PROVE MessagesTell'
    OBVIOUS
<1>1. ASSUME NEW r \in Runs, RuntimeFails(r) PROVE MessagesTell'
  <2>1. r = run /\ run # 0
      BY <1>1, ActiveIsLast DEF RuntimeFails
  <2>2. Open => status_rx
      BY <1>1, <2>1 DEF RuntimeFails, MessagesTell
  <2>3. Open => Shown' = StateOf("Failed")
      BY <1>1, <2>1, <2>2, ReportIsShown DEF RuntimeFails, Messages
  <2> QED
      BY <1>1, <2>1, <2>2, <2>3
         DEF RuntimeFails, Goto, Report, MessagesTell, Open, StateOf, Expected, guiVars, TypeOK
<1>2. ASSUME NEW r \in Runs, Begin(r) PROVE MessagesTell'
  <2>1. r = run /\ run # 0
      BY <1>2, ActiveIsLast DEF Begin
  <2>2. Open => status_rx
      BY <1>2, <2>1 DEF Begin, MessagesTell
  <2>3. Open => Shown' = StateOf("Connecting")
      BY <1>2, <2>1, <2>2, ReportIsShown DEF Begin, Messages
  <2> QED
      BY <1>2, <2>1, <2>2, <2>3
         DEF Begin, Goto, Report, MessagesTell, Open, StateOf, Expected, guiVars, TypeOK
<1>3. ASSUME NEW r \in Runs, Connect(r) PROVE MessagesTell'
  <2>1. r = run /\ run # 0
      BY <1>3, ActiveIsLast DEF Connect
  <2>2. Open => status_rx
      BY <1>3, <2>1 DEF Connect, MessagesTell
  <2>3. Open => Shown' = StateOf("Connected")
      BY <1>3, <2>1, <2>2, ReportIsShown DEF Connect, Messages
  <2> QED
      BY <1>3, <2>1, <2>2, <2>3
         DEF Connect, Goto, Report, MessagesTell, Open, StateOf, Expected, guiVars, TypeOK
<1>4. ASSUME NEW r \in Runs, RunControlEnds(r) PROVE MessagesTell'
  <2>1. r = run /\ run # 0
      BY <1>4, ActiveIsLast DEF RunControlEnds
  <2>2. Open => status_rx
      BY <1>4, <2>1 DEF RunControlEnds, MessagesTell
  <2>3. Open => Shown' = StateOf("Retrying")
      BY <1>4, <2>1, <2>2, ReportIsShown DEF RunControlEnds, Messages
  <2> QED
      BY <1>4, <2>1, <2>2, <2>3
         DEF RunControlEnds, Goto, Report, MessagesTell, Open, StateOf, Expected, guiVars, TypeOK
<1>5. ASSUME NEW r \in Runs, Awake(r) PROVE MessagesTell'
  <2>1. r = run /\ run # 0
      BY <1>5, ActiveIsLast DEF Awake
  <2>2. Open => status_rx
      BY <1>5, <2>1 DEF Awake, MessagesTell
  <2>3. Open => Shown' = StateOf("Connecting")
      BY <1>5, <2>1, <2>2, ReportIsShown DEF Awake, Messages
  <2> QED
      BY <1>5, <2>1, <2>2, <2>3
         DEF Awake, Goto, Report, MessagesTell, Open, StateOf, Expected, guiVars, TypeOK
<1>6. ASSUME NEW r \in Runs, StopSeen(r) PROVE MessagesTell'
  <2>1. r = run /\ run # 0
      BY <1>6, ActiveIsLast DEF StopSeen
  <2>2. Open => status_rx
      BY <1>6, <2>1 DEF StopSeen, MessagesTell
  <2>3. Open => Shown' = StateOf("Stopped")
      BY <1>6, <2>1, <2>2, ReportIsShown DEF StopSeen, Messages
  <2> QED
      BY <1>6, <2>1, <2>2, <2>3
         DEF StopSeen, Goto, Report, MessagesTell, Open, StateOf, Expected, guiVars, TypeOK
<1>7. ASSUME NEW r \in Runs, Shutdown(r) PROVE MessagesTell'
  <2>1. r = run /\ run # 0
      BY <1>7, ActiveIsLast DEF Shutdown
  <2>2. Shown' = Shown
      BY <1>7 DEF Shutdown, Shown, guiVars
  <2> QED
      BY <1>7, <2>1, <2>2 DEF Shutdown, Goto, MessagesTell, Open, guiVars, TypeOK
<1>8. ASSUME NEW r \in Runs, DetachedReaderEnds(r) PROVE MessagesTell'
  <2>1. Shown' = Shown
      BY <1>8 DEF DetachedReaderEnds, agentVars, guiVars, Shown
  <2> QED
      BY <1>8, <2>1 DEF DetachedReaderEnds, agentVars, guiVars, MessagesTell, Open, RunsInTurn
<1>9. ASSUME NEW r \in Runs, ThreadEnds(r) PROVE MessagesTell'
  <2>1. r = run /\ run # 0
      BY <1>9, ActiveIsLast DEF ThreadEnds
  <2>2. Shown' = Shown
      BY <1>9 DEF ThreadEnds, Shown, guiVars
  <2> QED
      BY <1>9, <2>1, <2>2 DEF ThreadEnds, Goto, MessagesTell, Open, guiVars, TypeOK
<1>10. ASSUME NEW r \in Runs, NEW s \in Sessions, OpenSession(r, s) PROVE MessagesTell'
  <2>1. Shown' = Shown
      BY <1>10 DEF OpenSession, agentVars, guiVars, Shown
  <2> QED
      BY <1>10, <2>1 DEF OpenSession, agentVars, guiVars, MessagesTell, Open, RunsInTurn
<1>11. ASSUME NEW r \in Runs, NEW s \in Sessions, SessionEnds(r, s) PROVE MessagesTell'
  <2>1. Shown' = Shown
      BY <1>11 DEF SessionEnds, agentVars, guiVars, Shown
  <2> QED
      BY <1>11, <2>1 DEF SessionEnds, agentVars, guiVars, MessagesTell, Open, RunsInTurn
<1>12. CASE Drain
  <2>1. CASE status_rx /\ status[run] # <<>> /\ status' = [status EXCEPT ![run] = Tail(@)]
             /\ connection_state' = StateOf(Head(status[run])) /\ UNCHANGED <<status_rx, gui>>
    <3>1. run \in Runs
        BY <2>1 DEF RunsInTurn
    <3>2. Shown' = Shown
        BY <1>12, <2>1, <3>1, ReadingShowsTheSame DEF Drain
    <3>3. phase[run] # "none"
        BY <3>1 DEF RunsInTurn
    <3> QED
        BY <1>12, <2>1, <3>1, <3>2, <3>3 DEF Drain, agentVars, MessagesTell, Open, TypeOK
  <2>2. CASE /\ status_rx => status[run] = <<>>
             /\ status_rx' = (status_rx /\ phase[run] # "ended")
             /\ gui' = "checking"
             /\ UNCHANGED <<connection_state, status>>
    <3>1. Shown' = Shown
        BY <1>12, <2>2 DEF Drain, agentVars, Shown
    <3> QED
        BY <1>12, <2>2, <3>1 DEF Drain, agentVars, MessagesTell, Open, RunsInTurn
  <2> QED
      BY <1>12, <2>1, <2>2 DEF Drain
<1>13. CASE Check
  <2>1. Shown' = Shown
      BY <1>13 DEF Check, agentVars, guiVars, Shown
  <2> QED
      BY <1>13, <2>1 DEF Check, agentVars, guiVars, MessagesTell, Open, RunsInTurn
<1>14. CASE Start
  <2>1. run' \in Runs /\ run' # 0 /\ phase[run'] = "none"
      BY <1>14 DEF Start, TypeOK, RunsInTurn
  <2>2. phase'[run'] = "start" /\ status'[run'] = <<>>
      BY <1>14, <2>1 DEF Start, Goto, TypeOK, MessagesTell
  <2>3. Shown' = "Connecting"
      BY <1>14, <2>2 DEF Start, Shown
  <2> QED
      BY <1>14, <2>1, <2>2, <2>3 DEF Start, Goto, MessagesTell, Expected, TypeOK
<1>15. CASE Stop
  <2>1. run \in Runs /\ run # 0
      BY <1>15 DEF Stop, RunsInTurn
  <2>2. stop'[run]
      BY <1>15, <2>1 DEF Stop, SendStop, MessagesTell, Open, TypeOK
  <2>3. Shown' \in {Shown, "Stopped"}
      BY <1>15 DEF Stop, SendStop, Shown
  <2> QED
      BY <1>15, <2>1, <2>2, <2>3 DEF Stop, SendStop, agentVars, MessagesTell, Open
<1>16. CASE NoClick
  <2>1. Shown' = Shown
      BY <1>16 DEF NoClick, agentVars, guiVars, Shown
  <2> QED
      BY <1>16, <2>1 DEF NoClick, agentVars, guiVars, MessagesTell, Open, RunsInTurn
<1>17. CASE Close
    BY <1>17
       DEF Close, agentVars, SendStop, MessagesTell, Open, TypeOK
<1>18. CASE Exit
    BY <1>18
       DEF Exit, MessagesTell, Open, TypeOK
<1>19. CASE UNCHANGED vars
  <2>1. Shown' = Shown
      BY <1>19 DEF vars, agentVars, guiVars, Shown
  <2> QED
      BY <1>19, <2>1 DEF vars, agentVars, guiVars, MessagesTell, Open, RunsInTurn
<1> QED
    BY <1>1, <1>2, <1>3, <1>4, <1>5, <1>6, <1>7, <1>8, <1>9, <1>10, <1>11,
       <1>12, <1>13, <1>14, <1>15, <1>16, <1>17, <1>18, <1>19
       DEF Next, Window, Poll, Agent

LEMMA InvStep == IInv /\ [Next]_vars => IInv'
    BY TypeStep, RunsStep, OwnedStep, MessagesStep DEF IInv

THEOREM Invariant == Spec => []IInv
    BY InitInv, InvStep, PTL DEF Spec

\* Every variable keeps its type: a run's delay stays between the initial one
\* and the largest, and only the last run is watched.
THEOREM TypeCorrect == Spec => []TypeOK
<1>1. IInv => TypeOK
    BY DEF IInv
<1> QED
    BY <1>1, Invariant, PTL

\* However often it is started and stopped, the program never has two agents,
\* nor the rest of one beside another (start, poll_agent).
THEOREM OneAgent == Spec => []OneAgentAtATime
<1>1. IInv => OneAgentAtATime
  <2> SUFFICES ASSUME IInv, NEW r \in Runs, NEW q \in Runs, Alive(r), Alive(q)
               PROVE  r = q
      BY DEF OneAgentAtATime
  <2>1. ASSUME NEW p \in Runs, Alive(p) PROVE p = run
    <3>1. phase[p] \notin {"none", "ended"}
        BY <2>1 DEF IInv, OwnedByPhase, Alive
    <3> QED
        BY <3>1, ActiveIsLast DEF IInv
  <2> QED
      BY <2>1
<1> QED
    BY <1>1, Invariant, PTL

\* When a supervisor has returned none of its sessions is left, and when its
\* thread has ended no connection either (sessions.shutdown, the runtime's drop).
THEOREM StoppedAgentsAreQuiet == Spec => []StoppedIsQuiet
<1>1. IInv => StoppedIsQuiet
    BY DEF IInv, OwnedByPhase, StoppedIsQuiet
<1> QED
    BY <1>1, Invariant, PTL

\* Whatever order messages, clicks and the end of the thread come in, a window
\* that has read its messages shows the state of its agent (poll_agent,
\* apply_agent_status).
THEOREM DisplayTellsTheAgent == Spec => []DisplayAgrees
<1>1. IInv => DisplayAgrees
  <2> SUFFICES ASSUME IInv, Open, status_rx => status[run] = <<>>
               PROVE  /\ ~agent_thread => connection_state \in {"Stopped", "Error"}
                      /\ agent_thread /\ ~stop[run]
                         /\ phase[run] \in {"start", "dialing", "control", "waiting"} =>
                            connection_state = Expected(phase[run])
      BY DEF DisplayAgrees, Open
  <2>1. Shown = connection_state
      BY DEF Shown
  <2> QED
      BY <2>1 DEF IInv, RunsInTurn, MessagesTell, TypeOK
<1> QED
    BY <1>1, Invariant, PTL

-----------------------------------------------------------------------------
(* Sessions.                                                               *)

\* Losing the control connection and making it again ends no session
\* (run_control, sessions joined beside it).
THEOREM SessionsOutliveConnections == Spec => SessionsSurviveReconnect
<1> DEFINE Kept == \A r \in Runs :
              phase[r] \in {"dialing", "control", "waiting"} /\ gui # "closed"
                  /\ sessions'[r] # sessions[r]
              => phase'[r] = phase[r] /\ Cardinality(sessions[r] \ sessions'[r]) <= 1
<1>1. ASSUME IInv, [Next]_vars PROVE Kept
  <2>0. phase \in [Runs -> {"none", "start", "dialing", "control", "waiting",
                           "stopping", "returned", "ended"}]
        /\ sessions \in [Runs -> SUBSET Sessions]
      BY <1>1 DEF IInv, TypeOK
  <2>1. ASSUME NEW r \in Runs, RuntimeFails(r) PROVE Kept
      BY <2>1 DEF RuntimeFails
  <2>2. ASSUME NEW r \in Runs, Begin(r) PROVE Kept
      BY <2>2 DEF Begin
  <2>3. ASSUME NEW r \in Runs, Connect(r) PROVE Kept
      BY <2>3 DEF Connect
  <2>4. ASSUME NEW r \in Runs, RunControlEnds(r) PROVE Kept
      BY <2>4 DEF RunControlEnds
  <2>5. ASSUME NEW r \in Runs, Awake(r) PROVE Kept
      BY <2>5 DEF Awake
  <2>6. ASSUME NEW r \in Runs, StopSeen(r) PROVE Kept
      BY <2>6 DEF StopSeen
  <2>7. ASSUME NEW r \in Runs, Shutdown(r) PROVE Kept
      BY <2>7, <2>0 DEF Shutdown, Goto
  <2>8. ASSUME NEW r \in Runs, DetachedReaderEnds(r) PROVE Kept
      BY <2>8 DEF DetachedReaderEnds
  <2>9. ASSUME NEW r \in Runs, ThreadEnds(r) PROVE Kept
      BY <2>9, <2>0 DEF ThreadEnds, Goto
  <2>10. ASSUME NEW r \in Runs, NEW s \in Sessions, OpenSession(r, s) PROVE Kept
    <3>1. sessions[r] \ sessions'[r] = {}
        BY <2>10, <2>0 DEF OpenSession
    <3>2. \A q \in Runs \ {r} : sessions'[q] = sessions[q]
        BY <2>10, <2>0 DEF OpenSession
    <3> QED
        BY <2>10, <3>1, <3>2, FS_EmptySet DEF OpenSession
  <2>11. ASSUME NEW r \in Runs, NEW s \in Sessions, SessionEnds(r, s) PROVE Kept
    <3>1. sessions[r] \ sessions'[r] = {s}
        BY <2>11, <2>0 DEF SessionEnds
    <3>2. \A q \in Runs \ {r} : sessions'[q] = sessions[q]
        BY <2>11, <2>0 DEF SessionEnds
    <3>3. Cardinality(sessions[r] \ sessions'[r]) = 1
        BY <3>1, FS_Singleton
    <3> QED
        BY <2>11, <3>2, <3>3 DEF SessionEnds
  <2>12. CASE Drain
      BY <2>12 DEF Drain, agentVars
  <2>13. CASE Check
      BY <2>13 DEF Check, agentVars
  <2>14. CASE Start
      BY <2>14 DEF Start
  <2>15. CASE Stop
      BY <2>15 DEF Stop, agentVars
  <2>16. CASE NoClick
      BY <2>16 DEF NoClick, agentVars
  <2>17. CASE Close
      BY <2>17 DEF Close, agentVars
  <2>18. CASE Exit
      BY <2>18 DEF Exit
  <2>19. CASE UNCHANGED vars
      BY <2>19 DEF vars, agentVars
  <2> QED
      BY <1>1, <2>1, <2>2, <2>3, <2>4, <2>5, <2>6, <2>7, <2>8, <2>9, <2>10, <2>11,
       <2>12, <2>13, <2>14, <2>15, <2>16, <2>17, <2>18, <2>19
         DEF Next, Window, Poll, Agent
<1>2. IInv /\ [Next]_vars => [Kept]_vars
    BY <1>1
<1> QED
    BY <1>2, Invariant, PTL DEF Spec, SessionsSurviveReconnect

-----------------------------------------------------------------------------
(* Doubled is defined by recursion: induction says that it is defined.     *)

LEMMA SetInduction ==
    ASSUME NEW S \in SUBSET Nat, 0 \in S, \A n \in S : n + 1 \in S
    PROVE  S = Nat
<1> SUFFICES ASSUME Nat \ S # {} PROVE FALSE
    OBVIOUS
<1>1. \E x \in Nat \ S : \A y \in Nat \ S : ~ (<<y, x>> \in OpToRel(<, Nat))
    BY NatLessThanWellFounded, WFMin
<1>2. PICK x \in Nat \ S : \A y \in Nat \ S : ~ (<<y, x>> \in OpToRel(<, Nat))
    BY <1>1
<1>3. \A y \in Nat \ S : ~(y < x)
    BY <1>2 DEF OpToRel
<1>4. x # 0
    OBVIOUS
<1>5. x - 1 \in Nat /\ x - 1 < x /\ (x - 1) + 1 = x
    BY <1>4
<1>6. x - 1 \in S
    BY <1>3, <1>5
<1> QED
    BY <1>5, <1>6

\* The delay after one of d.
NextDelay(d) == IF 2 * d < MaxDelay THEN 2 * d ELSE MaxDelay

\* g has the first n + 1 values of Doubled.
Begins(g, n) ==
    /\ g \in [0..n -> Nat]
    /\ \A k \in 0..n : g[k] = IF k <= 1 THEN InitialDelay ELSE NextDelay(g[k - 1])

LEMMA BeginningsExist == \A n \in Nat : \E g : Begins(g, n)
<1> DEFINE S == {n \in Nat : \E g : Begins(g, n)}
<1>1. 0 \in S
  <2>1. Begins([k \in 0..0 |-> InitialDelay], 0)
      BY DEF Begins
  <2> QED
      BY <2>1
<1>2. ASSUME NEW n \in S PROVE n + 1 \in S
  <2>1. PICK g : Begins(g, n)
      OBVIOUS
  <2> DEFINE h == [k \in 0..n + 1 |-> IF k <= n THEN g[k]
                                      ELSE IF n = 0 THEN InitialDelay ELSE NextDelay(g[n])]
  <2>2. h \in [0..n + 1 -> Nat]
      BY <2>1 DEF Begins, NextDelay
  <2>3. ASSUME NEW k \in 0..n + 1
        PROVE  h[k] = IF k <= 1 THEN InitialDelay ELSE NextDelay(h[k - 1])
    <3>1. CASE k <= n
        BY <2>1, <3>1 DEF Begins
    <3>2. CASE k = n + 1
        BY <2>1, <3>2 DEF Begins
    <3> QED
        BY <3>1, <3>2
  <2>4. Begins(h, n + 1)
      BY <2>2, <2>3 DEF Begins
  <2> QED
      BY <2>4
<1>3. S = Nat
    BY <1>1, <1>2, SetInduction
<1> QED
    BY <1>3

LEMMA BeginningsAgree ==
    \A k, m, n \in Nat : \A g, h :
        Begins(g, m) /\ Begins(h, n) /\ k <= m /\ k <= n => g[k] = h[k]
<1> DEFINE S == {k \in Nat : \A m, n \in Nat : \A g, h :
                     Begins(g, m) /\ Begins(h, n) /\ k <= m /\ k <= n => g[k] = h[k]}
<1>1. 0 \in S
    BY DEF Begins
<1>2. ASSUME NEW k \in S PROVE k + 1 \in S
  <2> SUFFICES ASSUME NEW m \in Nat, NEW n \in Nat, NEW g, NEW h,
                      Begins(g, m), Begins(h, n), k + 1 <= m, k + 1 <= n
               PROVE  g[k + 1] = h[k + 1]
      OBVIOUS
  <2>1. g[k] = h[k]
      OBVIOUS
  <2>2. k + 1 \in 0..m /\ k + 1 \in 0..n /\ (k + 1) - 1 = k
      OBVIOUS
  <2> QED
      BY <2>1, <2>2, SMTT(30) DEF Begins
<1>3. S = Nat
    BY <1>1, <1>2, SetInduction
<1> QED
    BY <1>3

\* The recursive definition of Doubled means what it says.
LEMMA DoubledIsDefined ==
    Doubled = [k \in Nat |-> IF k <= 1 THEN InitialDelay ELSE NextDelay(Doubled[k - 1])]
<1> DEFINE F == [n \in Nat |-> (CHOOSE g : Begins(g, n))[n]]
           E(f) == [k \in Nat |-> IF k <= 1 THEN InitialDelay
                                  ELSE IF 2 * f[k - 1] < MaxDelay THEN 2 * f[k - 1] ELSE MaxDelay]
<1>1. \A n \in Nat : \E g : Begins(g, n) /\ F[n] = g[n]
  <2> SUFFICES ASSUME NEW n \in Nat PROVE \E g : Begins(g, n) /\ F[n] = g[n]
      OBVIOUS
  <2>1. Begins(CHOOSE g : Begins(g, n), n)
      BY BeginningsExist
  <2> QED
      BY <2>1
<1>0. F = [k \in Nat |-> F[k]]
    OBVIOUS
<1> HIDE DEF F
<1>2. ASSUME NEW k \in Nat PROVE F[k] = IF k <= 1 THEN InitialDelay ELSE NextDelay(F[k - 1])
  <2>1. PICK g : Begins(g, k) /\ F[k] = g[k]
      BY <1>1
  <2>2. k \in 0..k /\ k <= k
      OBVIOUS
  <2>3. g[k] = IF k <= 1 THEN InitialDelay ELSE NextDelay(g[k - 1])
      BY <2>1, <2>2 DEF Begins
  <2>4. CASE k <= 1
      BY <2>1, <2>3, <2>4
  <2>5. CASE ~(k <= 1)
    <3>1. k - 1 \in Nat /\ k - 1 <= k - 1 /\ k - 1 <= k
        BY <2>5
    <3>2. PICK h : Begins(h, k - 1) /\ F[k - 1] = h[k - 1]
        BY <1>1, <3>1
    <3>3. g[k - 1] = h[k - 1]
        BY <2>1, <3>1, <3>2, BeginningsAgree
    <3> QED
        BY <2>1, <2>3, <2>5, <3>2, <3>3
  <2> QED
      BY <2>4, <2>5
<1>3. F = E(F)
  <2>1. \A k \in Nat : F[k] = E(F)[k]
      BY <1>2 DEF NextDelay
  <2> QED
      BY <1>0, <2>1
<1>4. \E f : f = E(f)
    BY <1>3
<1>5. Doubled = CHOOSE f : f = E(f)
    BY DEF Doubled
<1>6. Doubled = E(Doubled)
    BY <1>4, <1>5
<1> QED
    BY <1>6 DEF NextDelay

LEMMA DoubledValues ==
    /\ Doubled[0] = InitialDelay /\ Doubled[1] = InitialDelay
    /\ \A k \in Nat \ {0} : Doubled[k + 1] = NextDelay(Doubled[k])
<1>1. ASSUME NEW k \in Nat
      PROVE  Doubled[k] = IF k <= 1 THEN InitialDelay ELSE NextDelay(Doubled[k - 1])
    BY DoubledIsDefined
<1>2. ASSUME NEW k \in Nat \ {0} PROVE Doubled[k + 1] = NextDelay(Doubled[k])
  <2>1. k + 1 \in Nat /\ ~(k + 1 <= 1) /\ (k + 1) - 1 = k
      OBVIOUS
  <2> QED
      BY <1>1, <2>1
<1> QED
    BY <1>1, <1>2

LEMMA DelaysStep == TypeOK /\ RunsInTurn /\ DelaysFollow /\ [Next]_vars => DelaysFollow'
<1> SUFFICES ASSUME TypeOK, RunsInTurn, DelaysFollow, [Next]_vars PROVE DelaysFollow'
    OBVIOUS
<1>1. ASSUME NEW r \in Runs, RuntimeFails(r) PROVE DelaysFollow'
    BY <1>1
       DEF RuntimeFails, Goto, Report, guiVars, TypeOK, DelaysFollow
<1>2. ASSUME NEW r \in Runs, Begin(r) PROVE DelaysFollow'
  <2>1. \A q \in Runs \ {r} : UNCHANGED <<phase[q], connected[q], delay[q], retry_delay[q], failures[q]>>
      BY <1>2 DEF Begin, Goto, TypeOK
  <2>2. /\ phase'[r] = "dialing" /\ ~connected'[r]
        /\ delay'[r] = InitialDelay /\ failures'[r] = 0
      BY <1>2 DEF Begin, Goto, TypeOK, DelaysFollow
  <2>3. Doubled[failures'[r] + 1] = InitialDelay
      BY <2>2, DoubledValues
  <2> QED
      BY <2>1, <2>2, <2>3 DEF DelaysFollow
<1>3. ASSUME NEW r \in Runs, Connect(r) PROVE DelaysFollow'
    BY <1>3
       DEF Connect, Goto, Report, guiVars, TypeOK, DelaysFollow
<1>4. ASSUME NEW r \in Runs, RunControlEnds(r) PROVE DelaysFollow'
  <2>1. \A q \in Runs \ {r} : UNCHANGED <<phase[q], connected[q], delay[q], retry_delay[q], failures[q]>>
      BY <1>4 DEF RunControlEnds, Goto, TypeOK
  <2>2. /\ phase'[r] = "waiting" /\ connected'[r] = connected[r] /\ delay'[r] = delay[r]
        /\ retry_delay'[r] = IF connected[r] THEN InitialDelay ELSE delay[r]
        /\ failures'[r] = IF connected[r] \/ failures[r] = CountTo THEN failures[r]
                                                                 ELSE failures[r] + 1
      BY <1>4 DEF RunControlEnds, Goto, TypeOK
  <2>3. failures[r] \in 0..CountTo /\ connected[r] \in BOOLEAN
      BY DEF TypeOK
  <2>4. CASE phase[r] = "control"
      BY <2>1, <2>2, <2>3, <2>4 DEF DelaysFollow
  <2>5. CASE phase[r] = "dialing"
      BY <2>1, <2>2, <2>3, <2>5 DEF DelaysFollow
  <2> QED
      BY <1>4, <2>4, <2>5 DEF RunControlEnds
<1>5. ASSUME NEW r \in Runs, Awake(r) PROVE DelaysFollow'
  <2>1. \A q \in Runs \ {r} : UNCHANGED <<phase[q], connected[q], delay[q], retry_delay[q], failures[q]>>
      BY <1>5 DEF Awake, Goto, TypeOK
  <2>2. /\ phase[r] = "waiting" /\ phase'[r] = "dialing" /\ ~connected'[r]
        /\ failures'[r] = failures[r]
        /\ delay'[r] = IF connected[r] THEN InitialDelay ELSE NextDelay(delay[r])
      BY <1>5 DEF Awake, Goto, TypeOK, next_reconnect_delay, NextDelay
  <2>3. failures[r] \in 0..CountTo /\ connected[r] \in BOOLEAN
      BY DEF TypeOK
  <2>4. failures'[r] < CountTo => delay'[r] = Doubled[failures'[r] + 1]
    <3>1. CASE connected[r]
        BY <2>2, <3>1, DoubledValues DEF DelaysFollow
    <3>2. CASE ~connected[r]
        BY <2>2, <2>3, <3>2, DoubledValues DEF DelaysFollow
    <3> QED
        BY <2>3, <3>1, <3>2
  <2> QED
      BY <2>1, <2>2, <2>4 DEF DelaysFollow
<1>6. ASSUME NEW r \in Runs, StopSeen(r) PROVE DelaysFollow'
    BY <1>6
       DEF StopSeen, Goto, Report, guiVars, TypeOK, DelaysFollow
<1>7. ASSUME NEW r \in Runs, Shutdown(r) PROVE DelaysFollow'
    BY <1>7
       DEF Shutdown, Goto, guiVars, TypeOK, DelaysFollow
<1>8. ASSUME NEW r \in Runs, DetachedReaderEnds(r) PROVE DelaysFollow'
    BY <1>8
       DEF DetachedReaderEnds, guiVars, TypeOK, DelaysFollow
<1>9. ASSUME NEW r \in Runs, ThreadEnds(r) PROVE DelaysFollow'
    BY <1>9
       DEF ThreadEnds, Goto, guiVars, TypeOK, DelaysFollow
<1>10. ASSUME NEW r \in Runs, NEW s \in Sessions, OpenSession(r, s) PROVE DelaysFollow'
    BY <1>10
       DEF OpenSession, guiVars, TypeOK, DelaysFollow
<1>11. ASSUME NEW r \in Runs, NEW s \in Sessions, SessionEnds(r, s) PROVE DelaysFollow'
    BY <1>11
       DEF SessionEnds, guiVars, TypeOK, DelaysFollow
<1>12. CASE Drain
    BY <1>12
       DEF Drain, agentVars, TypeOK, DelaysFollow
<1>13. CASE Check
    BY <1>13
       DEF Check, agentVars, TypeOK, DelaysFollow
<1>14. CASE Start
  <2>1. run + 1 \in Runs /\ phase[run + 1] = "none"
      BY <1>14 DEF Start, TypeOK, RunsInTurn
  <2> QED
      BY <1>14, <2>1 DEF Start, Goto, TypeOK, DelaysFollow
<1>15. CASE Stop
    BY <1>15
       DEF Stop, agentVars, SendStop, TypeOK, DelaysFollow
<1>16. CASE NoClick
    BY <1>16
       DEF NoClick, agentVars, TypeOK, DelaysFollow
<1>17. CASE Close
    BY <1>17
       DEF Close, agentVars, SendStop, TypeOK, DelaysFollow
<1>18. CASE Exit
    BY <1>18
       DEF Exit, TypeOK, DelaysFollow
<1>19. CASE UNCHANGED vars
    BY <1>19
       DEF vars, agentVars, guiVars, TypeOK, DelaysFollow
<1> QED
    BY <1>1, <1>2, <1>3, <1>4, <1>5, <1>6, <1>7, <1>8, <1>9, <1>10, <1>11,
       <1>12, <1>13, <1>14, <1>15, <1>16, <1>17, <1>18, <1>19
       DEF Next, Window, Poll, Agent

\* A supervisor waits twice as long after each failure, up to the largest delay,
\* and begins anew after a connection (next_reconnect_delay).
THEOREM DelaysFollowFailures == Spec => []BackoffFollowsFailures
<1>1. Init => DelaysFollow
    BY DEF Init, DelaysFollow
<1>2. IInv /\ DelaysFollow /\ [Next]_vars => DelaysFollow'
    BY DelaysStep DEF IInv
<1>3. IInv /\ DelaysFollow => BackoffFollowsFailures
    BY DoubledValues DEF IInv, TypeOK, DelaysFollow, BackoffFollowsFailures
<1> QED
    BY <1>1, <1>2, <1>3, Invariant, PTL DEF Spec
=============================================================================
