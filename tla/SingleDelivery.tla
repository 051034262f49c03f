--------------------------- MODULE SingleDelivery ---------------------------
(***************************************************************************)
(* Dispatcher over a transport that delivers each envelope it accepted to  *)
(* the device it is for, once, and tries nothing again: the in-memory      *)
(* transport pops an envelope from its queue before it calls the           *)
(* dispatcher, and what the dispatcher cannot use then is gone.            *)
(*                                                                         *)
(* All steps of Dispatcher stay possible, its replays and misdeliveries    *)
(* too, but only the one delivery that is due is sure to happen: nothing   *)
(* else is fair, so no message may rely on coming twice.                   *)
(***************************************************************************)
EXTENDS Dispatcher

VARIABLE due    \* the envelopes accepted and not yet delivered

deliveryVars == <<vars, due>>

DeliveryInit == Init /\ due = {}

\* The transport takes the envelope a dispatcher sends.
SendOnce(d, e) ==
    /\ SendMessageToDevice(d, e)
    /\ due' = due \cup (network' \ network)

\* The worker pops d's n-th envelope to e and calls e's dispatcher, which drops
\* it if it has no session with the sender.
DeliverOnce(d, e, n) ==
    \E env \in due :
        /\ env.body = Message(d, e, n)
        /\ due' = due \ {env}
        /\ IF env.sender \in DOMAIN sessions[e]
           THEN OnRawMessage(e, env)
           ELSE UNCHANGED vars

DeliveryNext ==
    \/ \E d \in Device : (RegisterDevice(d) \/ SetOnInbound(d)) /\ UNCHANGED due
    \/ \E c \in Contacts : OpenSession(c[1], c[2]) /\ UNCHANGED due
    \/ \E c \in Contacts : SendOnce(c[1], c[2])
    \/ \E c \in Contacts : \E n \in 0 .. MaxSent[c] - 1 : DeliverOnce(c[1], c[2], n)
    \/ \E d \in Device, env \in network : OnRawMessage(d, env) /\ UNCHANGED due

\* A running worker empties its queue; no device need register, open a session
\* or send, and nothing is delivered again.
Fairness ==
    \A c \in Contacts : \A n \in 0 .. MaxSent[c] - 1 :
        WF_deliveryVars(DeliverOnce(c[1], c[2], n))

DeliverySpec == DeliveryInit /\ [][DeliveryNext]_deliveryVars /\ Fairness
----------------------------------------------------------------------------
\* The one delivery of a message is enough: if its device has opened the session
\* by the time the message is under way, then it decrypts it, in whatever order
\* the others come and whatever is replayed in between.
EveryMessageOpens ==
    \A c \in Contacts : \A n \in 0 .. MaxSent[c] - 1 :
        (/\ \E env \in due : env.body = Message(c[1], c[2], n)
         /\ c[1] \in DOMAIN sessions[c[2]])
        ~> (Message(c[1], c[2], n) \in opened[c[2]])
============================================================================
