---------------------------- MODULE MCDispatcher ----------------------------
(***************************************************************************)
(* Two devices for TLC that talk both ways, for the runs with restarts and *)
(* about the reuse of keys.                                                *)
(***************************************************************************)
EXTENDS Dispatcher

CONSTANTS a, b, fixedRoot

\* The desktop client's root key: one constant for every session.
OneRoot == [p \in SUBSET Device |-> fixedRoot]

Pair == {a, b}
PairContacts == {<<a, b>>, <<b, a>>}
PairSent == [p \in PairContacts |-> IF p = <<a, b>> THEN 3 ELSE 1]
============================================================================
