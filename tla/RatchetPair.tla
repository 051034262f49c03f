---------------------------- MODULE RatchetPair ----------------------------
(***************************************************************************)
(* Two Ratchet objects used directly, without a dispatcher, as the tests   *)
(* ratchet_unit_test.cpp and ratchet_two_party_test.cpp use them: both are *)
(* initialized with one root key, either may call ratchet_step with the    *)
(* other's public key, they exchange envelopes that the wire reorders and  *)
(* repeats, and either may be exported and later recovered from the bytes. *)
(***************************************************************************)
EXTENDS Ratchet

CONSTANTS Side,      \* the two parties
          Shared,    \* the root key both start from
          StartSid,  \* the session id given to initialize; NoSession for none
          NoBackup,  \* no state has been exported yet
          MaxSent,   \* bound: messages of each party
          MaxSteps   \* bound: ratchet_step calls of each party

ASSUME PairAssumption == \E s, t \in Side : s # t /\ Side = {s, t}

VARIABLES
    ratchet,   \* each party's ratchet
    wire,      \* the envelopes sent
    sent,      \* history: messages each party has sent
    steps,     \* history: ratchet_step calls its ratchet has been through
    backup     \* each party's last exported state, with the steps it contains

pvars == <<ratchet, wire, sent, steps, backup>>

Peer(s) == CHOOSE t \in Side : t # s

\* The random session id a party without one draws when it encrypts: another one
\* each time, as for its first message and for the next after a recovery.
DrawnSid(s) == [drawnBy |-> s, at |-> sent[s]]

\* The plaintext of a party's n-th message.
Text(s, n) == [from |-> s, n |-> n]

Init ==
    /\ ratchet = [s \in Side |-> Initialize(NewRatchet(s), Shared, StartSid)]
    /\ wire = {}
    /\ sent = [s \in Side |-> 0]
    /\ steps = [s \in Side |-> 0]
    /\ backup = [s \in Side |-> NoBackup]
----------------------------------------------------------------------------
Step(s) ==
    /\ steps[s] < MaxSteps
    /\ ratchet' = [ratchet EXCEPT ![s] = RatchetStep(@, ratchet[Peer(s)].pub)]
    /\ steps' = [steps EXCEPT ![s] = @ + 1]
    /\ UNCHANGED <<wire, sent, backup>>

Encrypt(s) ==
    /\ sent[s] < MaxSent
    /\ wire' = wire \cup {Sealed(ratchet[s], DrawnSid(s), s, Text(s, sent[s]))}
    /\ ratchet' = [ratchet EXCEPT ![s] = AfterEncrypt(@, DrawnSid(s))]
    /\ sent' = [sent EXCEPT ![s] = @ + 1]
    /\ UNCHANGED <<steps, backup>>

Decrypt(s, env) ==
    /\ env.sender = Peer(s)
    /\ ratchet' = [ratchet EXCEPT ![s] = AfterDecrypt(@, env)]
    /\ UNCHANGED <<wire, sent, steps, backup>>

Export(s) ==
    /\ backup' = [backup EXCEPT ![s] =
                    [state |-> ExportState(ratchet[s]), steps |-> steps[s]]]
    /\ UNCHANGED <<ratchet, wire, sent, steps>>

\* A new object takes the exported bytes in.
Recover(s) ==
    /\ backup[s] # NoBackup
    /\ ratchet' = [ratchet EXCEPT ![s] =
                     ImportState(NewRatchet(NoKey), backup[s].state)]
    /\ steps' = [steps EXCEPT ![s] = backup[s].steps]
    /\ UNCHANGED <<wire, sent, backup>>

Next ==
    \/ \E s \in Side : Step(s) \/ Encrypt(s) \/ Export(s) \/ Recover(s)
    \/ \E s \in Side : \E env \in wire : Decrypt(s, env)

Spec == Init /\ [][Next]_pvars
----------------------------------------------------------------------------
\* Parties that have stepped equally often agree on the root key, whatever was
\* sent, reordered or recovered in between: both mix in the same secrets.
SameStepsSameRoot ==
    \A s, t \in Side : steps[s] = steps[t] => ratchet[s].root = ratchet[t].root

\* What a party still has to come to on its chain it can read, also after it
\* was recovered: keys, numbers and chain positions stay in step.
AheadOpens ==
    \A s \in Side : \A env \in wire :
        (/\ env.sender = Peer(s) /\ ForThisSession(ratchet[s], env)
         /\ env.key.root = ratchet[s].recvChain.root
         /\ env.key.label = ratchet[s].recvChain.label
         /\ env.num >= ratchet[s].recvN)
        => Opens(ratchet[s], env)

\* Nothing sealed after a ratchet_step ever opens at the peer: the sending
\* chain of the one is derived like the sending chain of the other.
SteppedIsMute ==
    \A s \in Side : \A env \in wire :
        (env.sender = Peer(s) /\ Opens(ratchet[s], env)) => env.key.root.mixed = <<>>

\* ratchet_two_party_test.cpp, ratchet_unit_test.cpp and two_party_messaging.cpp:
\* after both have stepped, what the one encrypts the other decrypts.
SteppedPairTalks ==
    \A s \in Side :
        LET t == Peer(s) IN
        (steps[s] = 1 /\ steps[t] = 1 /\ sent[s] = 0 /\ sent[t] = 0)
        => Opens(ratchet[t], Sealed(ratchet[s], DrawnSid(s), s, Text(s, 0)))
============================================================================
