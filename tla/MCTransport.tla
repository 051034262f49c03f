---------------------------- MODULE MCTransport ----------------------------
(***************************************************************************)
(* For TLC: a bridge of two transports, as the desktop client builds it,   *)
(* with two messages one way and one the other; both may be stopped at     *)
(* any time, and one of them is started again.                             *)
(***************************************************************************)
EXTENDS InMemoryTransport

CONSTANTS ta, tb, m1, m2, m3

Both == {ta, tb}
Bridged == [t \in Both |-> IF t = ta THEN tb ELSE ta]
Msgs == {m1, m2, m3}
Restarts == [t \in Both |-> IF t = ta THEN 1 ELSE 2]
Senders == [m \in Msgs |-> IF m = m3 THEN tb ELSE ta]
============================================================================
