------------------------------ MODULE ByteStream ------------------------------
(***************************************************************************)
(* What the two ends of an encrypted stream rely on: a byte pipe.  The     *)
(* reader gets the written bytes in order.  It sees an end only after the  *)
(* writer has closed the pipe and the last byte was read, and an error     *)
(* only after the writer has closed or lost it.                            *)
(***************************************************************************)
EXTENDS Integers, Sequences

VARIABLES
    written,  \* how many bytes are in the pipe or through it
    received, \* the bytes read, each named by its place in what was written
    writer,   \* "open" or "closed"
    reader    \* "open", "eof" or "error"

vars == <<written, received, writer, reader>>

Init ==
    /\ written = 0
    /\ received = <<>>
    /\ writer = "open"
    /\ reader = "open"

Write ==
    /\ writer = "open"
    /\ written' \in Nat /\ written' > written
    /\ UNCHANGED <<received, writer, reader>>

Close ==
    /\ writer = "open"
    /\ writer' = "closed"
    /\ UNCHANGED <<written, received, reader>>

\* The next bytes in order are read.
Read ==
    /\ reader = "open"
    /\ \E n \in 1 .. written - Len(received) :
          received' = received \o [i \in 1..n |-> Len(received) + i]
    /\ UNCHANGED <<written, writer, reader>>

End ==
    /\ reader = "open" /\ writer = "closed"
    /\ Len(received) = written
    /\ reader' = "eof"
    /\ UNCHANGED <<written, received, writer>>

Fail ==
    /\ reader = "open" /\ writer = "closed"
    /\ reader' = "error"
    /\ UNCHANGED <<written, received, writer>>

Next == Write \/ Close \/ Read \/ End \/ Fail

Spec == Init /\ [][Next]_vars
=============================================================================
