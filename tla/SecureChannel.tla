--------------------------- MODULE SecureChannel ---------------------------
(***************************************************************************)
(* What a dispatcher promises its application while its process runs: a    *)
(* message posted to a contact is taken from the wire at most once, in any *)
(* order, and only by the device it was posted to; it is shown to the      *)
(* application when it is taken, unless the application is not listening.  *)
(***************************************************************************)
EXTENDS Sequences

CONSTANTS Receiver,   \* the devices
          Payload     \* the messages that may be posted; m.to is the receiver

VARIABLES posted,     \* messages accepted for sending
          taken,      \* messages that have left the channel
          shown       \* per receiver, the messages shown to its application

cvars == <<posted, taken, shown>>

Init ==
    /\ posted = {}
    /\ taken = {}
    /\ shown = [d \in Receiver |-> <<>>]

Post(m) ==
    /\ m \notin posted
    /\ posted' = posted \cup {m}
    /\ UNCHANGED <<taken, shown>>

Take(m) ==
    /\ m \in posted \ taken
    /\ taken' = taken \cup {m}
    /\ shown' \in {shown, [shown EXCEPT ![m.to] = Append(@, m)]}
    /\ UNCHANGED posted

Next == \E m \in Payload : Post(m) \/ Take(m)

Spec == Init /\ [][Next]_cvars
============================================================================
