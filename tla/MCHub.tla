------------------------------- MODULE MCHub -------------------------------
(***************************************************************************)
(* For TLC: a message and a payment for u that name v as their sender and  *)
(* come in over any connection.  v connects once and u up to twice, the    *)
(* second time perhaps before the server has noticed the end of the first. *)
(* A channel holds two messages, so that flushes and pushes find it full.  *)
(***************************************************************************)
EXTENDS Hub

CONSTANTS u, v, u1, u2, v1, text, pay

Users == {u, v}
Conns == {u1, u2, v1}
Owners == [c \in Conns |-> IF c = v1 THEN v ELSE u]
Texts == {text, pay}
Senders == [m \in Texts |-> v]
Recipients == [m \in Texts |-> u]
Paid == {pay}
============================================================================
