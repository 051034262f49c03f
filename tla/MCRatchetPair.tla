--------------------------- MODULE MCRatchetPair ---------------------------
(***************************************************************************)
(* Alice and Bob for TLC, without a session id at the start, as the tests  *)
(* initialize them: the first to encrypt draws one.                        *)
(***************************************************************************)
EXTENDS RatchetPair

CONSTANTS alice, bob

Two == {alice, bob}
============================================================================
