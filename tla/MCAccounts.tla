----------------------------- MODULE MCAccounts -----------------------------
(***************************************************************************)
(* Two registrations of one user, the second with a prekey in padded       *)
(* base64 as well, and two fetches of the user's keys; a code for a phone, *)
(* verified once; and one discovery of the phone, by the user so made.     *)
(***************************************************************************)
EXTENDS Accounts, TLC

CONSTANTS bob, phone, g1, g2, f1, f2, c, v1, d, k1, k2, k3

Users == {bob}
Phones == {phone}
Emails == {}
MCRegisters == {g1, g2}
MCFetches == {f1, f2}
MCCodes == {c}
MCDiscovers == {d}
UserOfRequest == [r \in Registers \cup Fetches |-> bob]
AddressOfRequest == [r \in Registers \cup CodeRequests \cup Verifies |-> phone]
PresentedBy == [r \in Verifies \cup Discovers |-> IF r = d THEN v1 ELSE c]
Contacts == d :> {phone}
Prekeys == (g1 :> <<k1>>) @@ (g2 :> <<k2, k3>>)
PaddedKeys == {k3}
============================================================================
