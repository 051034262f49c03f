-------------------------- MODULE MCSingleDelivery --------------------------
(***************************************************************************)
(* Three devices for TLC: a and b talk both ways, a also writes to c, so   *)
(* that envelopes can reach a third device that has a session with their   *)
(* sender.                                                                 *)
(***************************************************************************)
EXTENDS SingleDelivery

CONSTANTS a, b, c, fixedRoot

\* The desktop client's root key: one constant for every session.
OneRoot == [p \in SUBSET Device |-> fixedRoot]

Trio == {a, b, c}
TrioContacts == {<<a, b>>, <<b, a>>, <<a, c>>, <<c, a>>}
TrioSent == [p \in TrioContacts |->
                CASE p = <<a, b>> -> 2 [] p = <<b, a>> -> 1
                  [] p = <<a, c>> -> 1 [] OTHER -> 0]
============================================================================
