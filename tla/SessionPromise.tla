---------------------------- MODULE SessionPromise ----------------------------
(***************************************************************************)
(* What the relay promises its controllers, with no handlers, channels or  *)
(* generations in sight: session streams become available for a device and *)
(* a session id, and each controller is given at most one final answer.    *)
(* Ready means that it got a stream of its own, one that was available for *)
(* exactly what it asked, and that stays its until both ends close.        *)
(***************************************************************************)
CONSTANTS
    Devices, Ids,
    Attachers, Controllers,
    Target, IdOf,
    None

VARIABLES
    offer,   \* session stream -> "none", "offered", "granted" or "closed"
    offered, \* session stream -> the device and session id it is for
    answer,  \* controller -> the final answer it was given
    bridge   \* controller -> the stream it is bridged to

vars == <<offer, offered, answer, bridge>>

Sessions == [device : Devices, id : Ids]

Init ==
    /\ offer   = [s \in Attachers |-> "none"]
    /\ offered = [s \in Attachers |-> None]
    /\ answer  = [c \in Controllers |-> "none"]
    /\ bridge  = [c \in Controllers |-> None]

\* The agent side of a session reported Ready.
Offer(s, session) ==
    /\ offer[s] = "none"
    /\ offer' = [offer EXCEPT ![s] = "offered"]
    /\ offered' = [offered EXCEPT ![s] = session]
    /\ UNCHANGED <<answer, bridge>>

\* A stream ends before anybody is bridged to it.
Drop(s) ==
    /\ offer[s] \in {"none", "offered"}
    /\ offer' = [offer EXCEPT ![s] = "closed"]
    /\ offered' = [offered EXCEPT ![s] = None]
    /\ UNCHANGED <<answer, bridge>>

Grant(c, s) ==
    /\ answer[c] = "none"
    /\ offer[s] = "offered"
    /\ offered[s] = [device |-> Target[c], id |-> IdOf[c]]
    /\ offer' = [offer EXCEPT ![s] = "granted"]
    /\ answer' = [answer EXCEPT ![c] = "Ready"]
    /\ bridge' = [bridge EXCEPT ![c] = s]
    /\ UNCHANGED offered

Answer(c, a) ==
    /\ answer[c] = "none"
    /\ answer' = [answer EXCEPT ![c] = a]
    /\ UNCHANGED <<offer, offered, bridge>>

\* Both ends of a bridge close together.
Close(c) ==
    LET s == bridge[c] IN
    /\ s # None
    /\ offer' = [offer EXCEPT ![s] = "closed"]
    /\ offered' = [offered EXCEPT ![s] = None]
    /\ bridge' = [bridge EXCEPT ![c] = None]
    /\ UNCHANGED answer

Next ==
    \/ \E s \in Attachers : Drop(s) \/ \E session \in Sessions : Offer(s, session)
    \/ \E c \in Controllers :
          \/ \E s \in Attachers : Grant(c, s)
          \/ \E a \in {"Failed", "DeviceList"} : Answer(c, a)
          \/ Close(c)

Spec == Init /\ [][Next]_vars
=============================================================================
