--------------------------- MODULE SessionBrokerMC ---------------------------
(* Instances of SessionBroker for TLC.                                     *)
EXTENDS SessionBrokerRefines, TLC

\* session_id() never repeats: a controller stands for its own session id.
OwnIds == Controllers
OwnId == [c \in Controllers |-> c]

\* Two controllers that name the same session id.
CONSTANT SharedId
OneIdSet == {SharedId}
OneId == [c \in Controllers |-> SharedId]

\* All connections are about one device.
CONSTANT TheDevice
OneDevice == {TheDevice}
AllAgents == [a \in Agents |-> TheDevice]
AllTargets == [c \in Controllers |-> TheDevice]

Symmetry ==
    Permutations(Agents) \cup Permutations(Attachers) \cup Permutations(Controllers)
=============================================================================
