-------------------------- MODULE MCOfflineSender --------------------------
(***************************************************************************)
(* Three messages for TLC: two to one device in the same millisecond, one  *)
(* to another device later.                                                *)
(***************************************************************************)
EXTENDS OfflineSender

CONSTANTS p, q, twin1, twin2, later

Msgs == {twin1, twin2, later}
Targets == [m \in Msgs |-> IF m = later THEN q ELSE p]
Times == [m \in Msgs |-> IF m = later THEN 2 ELSE 1]
============================================================================
