------------------------- MODULE SessionBrokerRefines -------------------------
(***************************************************************************)
(* SessionBroker implements SessionPromise.  A stream counts as granted    *)
(* once the Ready frame is written; a stream still in a reply channel, or  *)
(* with a handler that has not written Ready yet, is only offered.         *)
(***************************************************************************)
EXTENDS SessionBroker

\* The stream a controller is bridged to.
bridgeBar == [c \in Controllers |-> IF ctl[c] = "bridging" THEN stream[c] ELSE None]

offerBar ==
    [s \in Attachers |->
        IF attach[s] = "gone" THEN "closed"
        ELSE IF attach[s] # "handed" THEN "none"
        ELSE IF \E c \in Controllers : bridgeBar[c] = s THEN "granted"
        ELSE "offered"]

offeredBar == [s \in Attachers |-> IF attach[s] = "handed" THEN job[s] ELSE None]

Promise == INSTANCE SessionPromise
    WITH offer <- offerBar, offered <- offeredBar, answer <- frame, bridge <- bridgeBar

\* The relay keeps the promise: one final answer, and Ready only with a stream
\* that was ready for the controller's own device and session, shared with no
\* other controller (handle_agent_session 585-672, handle_controller 674-779).
PromiseKept == Promise!Spec
=============================================================================
