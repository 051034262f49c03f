----------------------------- MODULE Dispatcher -----------------------------
(***************************************************************************)
(* securecomm::Dispatcher (dispatcher.cpp): the devices of a deployment,   *)
(* each with the map of its one-to-one sessions, exchanging envelopes over *)
(* a transport.  Every public method and the transport's inbound callback  *)
(* hold the dispatcher's mutex from end to end, so each is one action.     *)
(*                                                                         *)
(* The transport is the set of the envelopes ever handed to it.  Nothing   *)
(* leaves the set: an envelope may be delivered late, out of order, more   *)
(* than once, to a device it was not meant for (an unbridged in-memory     *)
(* transport returns it to its sender), or, lost, never.  SingleDelivery   *)
(* adds which deliveries are sure to happen.                               *)
(*                                                                         *)
(* Two specifications share the actions.  Spec is the order of use of the  *)
(* desktop client: a device registers, then opens each session once.       *)
(* RestartSpec lets a process restart, which loses all of its state, and   *)
(* open its sessions before it has registered.                             *)
(***************************************************************************)
EXTENDS Ratchet

CONSTANTS Device,       \* the device ids
          Contacts,     \* the pairs <<d, e>> such that d opens a session with e
          NoId,         \* the empty device_id_ of a device not yet registered
          Root,         \* the root key the callers pass for each pair of devices
          MaxSent,      \* bound: messages a device sends to each contact
          MaxRestarts,  \* bound: restarts of a device
          MaxTurns      \* bound: DH ratchets of one ratchet, in RestartSpec

ASSUME ContactsAssumption ==
    /\ Contacts \subseteq Device \X Device
    /\ \A d \in Device : <<d, d>> \notin Contacts

ASSUME BoundsAssumption ==
    /\ MaxSent \in [Contacts -> Nat]
    /\ MaxRestarts \in Nat
    /\ MaxTurns \in Nat

VARIABLES
    deviceId,   \* device_id_ of each device
    sessions,   \* sessions_ : per device, a map from peers to ratchets
    onInbound,  \* whether the application has installed on_inbound_
    network,    \* the envelopes handed to the transport
    restarts,   \* how often a device's process has restarted
    sent,       \* history: how many messages a device has sent to each contact
    opened,     \* history: the messages a device's current sessions decrypted
    handed      \* history: the messages on_inbound_ was called with, in order

vars == <<deviceId, sessions, onInbound, network, restarts, sent, opened, handed>>
----------------------------------------------------------------------------
\* The root_key of create_session_with is the caller's: Root may give pairs keys
\* of their own or, as the desktop client does, all of them the same constant.
RootSecret(d, e) == Root[{d, e}]

\* The key pair the constructor of d's ratchet for e draws after b restarts.
KeyPair(d, e, b) == [owner |-> d, peer |-> e, boot |-> b]

\* The session id hashes the two device ids, in sorted order, and the root key.
SessionId(own, remote, secret) == [ids |-> {own, remote}, secret |-> secret]

\* The n-th plaintext d sends to e.
Message(d, e, n) == [from |-> d, to |-> e, n |-> n]

\* No device has an empty id, no key pair is an empty key, and a hash is not
\* an empty session id, whether or not the device had registered.
ASSUME SessionAssumption ==
    /\ NoId \notin Device
    /\ \A d, e \in Device : \A own \in {d, NoId} :
          SessionId(own, e, RootSecret(d, e)) # NoSession
    /\ \A d, e \in Device, b \in 0 .. MaxRestarts : KeyPair(d, e, b) # NoKey

Init ==
    /\ deviceId = [d \in Device |-> NoId]
    /\ sessions = [d \in Device |-> [e \in {} |-> NewRatchet(NoKey)]]
    /\ onInbound = [d \in Device |-> FALSE]
    /\ network = {}
    /\ restarts = [d \in Device |-> 0]
    /\ sent = [c \in Contacts |-> 0]
    /\ opened = [d \in Device |-> {}]
    /\ handed = [d \in Device |-> <<>>]
----------------------------------------------------------------------------
RegisterDevice(d) ==
    /\ deviceId' = [deviceId EXCEPT ![d] = d]
    /\ UNCHANGED <<sessions, onInbound, network, restarts, sent, opened, handed>>

SetOnInbound(d) ==
    /\ onInbound' = [onInbound EXCEPT ![d] = TRUE]
    /\ UNCHANGED <<deviceId, sessions, network, restarts, sent, opened, handed>>

\* sessions_[e] makes a ratchet if there is none, and else keeps the one there.
RatchetFor(d, e) ==
    IF e \in DOMAIN sessions[d] THEN sessions[d][e]
    ELSE NewRatchet(KeyPair(d, e, restarts[d]))

CreateSessionWith(d, e) ==
    /\ sessions' = [sessions EXCEPT ![d] =
            [p \in DOMAIN sessions[d] \cup {e} |->
                IF p = e
                THEN Initialize(RatchetFor(d, e), RootSecret(d, e),
                                SessionId(deviceId[d], e, RootSecret(d, e)))
                ELSE sessions[d][p]]]
    /\ opened' = [opened EXCEPT ![d] = {m \in @ : m.from # e}]
    /\ UNCHANGED <<deviceId, onInbound, network, restarts, sent, handed>>

\* Without a session the call throws and changes nothing.  A session of a
\* dispatcher always has a session id, so encryption draws no random one.
SendMessageToDevice(d, e) ==
    /\ e \in DOMAIN sessions[d]
    /\ sent[<<d, e>>] < MaxSent[<<d, e>>]
    /\ LET r == sessions[d][e] IN
       /\ network' = network \cup
             {Sealed(r, NoSession, deviceId[d], Message(d, e, sent[<<d, e>>]))}
       /\ sessions' = [sessions EXCEPT ![d][e] = AfterEncrypt(r, NoSession)]
    /\ sent' = [sent EXCEPT ![<<d, e>>] = @ + 1]
    /\ UNCHANGED <<deviceId, onInbound, restarts, opened, handed>>

\* An envelope whose sender has no session here is dropped: nothing changes.
\* One that opens is handed up, or lost if no callback is installed yet.
OnRawMessage(d, env) ==
    /\ env.sender \in DOMAIN sessions[d]
    /\ LET r == sessions[d][env.sender] IN
       /\ sessions' = [sessions EXCEPT ![d][env.sender] = AfterDecrypt(r, env)]
       /\ IF Opens(r, env)
          THEN /\ opened' = [opened EXCEPT ![d] = @ \cup {env.body}]
               /\ handed' = IF onInbound[d]
                            THEN [handed EXCEPT ![d] = Append(@, env.body)]
                            ELSE handed
          ELSE UNCHANGED <<opened, handed>>
    /\ UNCHANGED <<deviceId, onInbound, network, restarts, sent>>

\* Nothing of a dispatcher is stored: a new process starts from scratch.
Restart(d) ==
    /\ restarts[d] < MaxRestarts
    /\ restarts' = [restarts EXCEPT ![d] = @ + 1]
    /\ deviceId' = [deviceId EXCEPT ![d] = NoId]
    /\ sessions' = [sessions EXCEPT ![d] = [e \in {} |-> NewRatchet(NoKey)]]
    /\ onInbound' = [onInbound EXCEPT ![d] = FALSE]
    /\ opened' = [opened EXCEPT ![d] = {}]
    /\ UNCHANGED <<network, sent, handed>>
----------------------------------------------------------------------------
\* d's first session with e, opened once d has registered.
OpenSession(d, e) ==
    /\ deviceId[d] = d
    /\ e \notin DOMAIN sessions[d]
    /\ CreateSessionWith(d, e)

Next ==
    \/ \E d \in Device : RegisterDevice(d) \/ SetOnInbound(d)
    \/ \E c \in Contacts : OpenSession(c[1], c[2])
    \/ \E c \in Contacts : SendMessageToDevice(c[1], c[2])
    \/ \E d \in Device, env \in network : OnRawMessage(d, env)

Spec == Init /\ [][Next]_vars

\* A receiver that is sent envelopes of two key pairs in turn follows each of
\* them in turn, for ever: the runs with restarts bound how often.
TurnsBounded ==
    \A d \in Device : \A e \in DOMAIN sessions'[d] :
        Len(sessions'[d][e].root.mixed) <= MaxTurns

\* Restarts, and sessions opened before registration.
RestartNext ==
    \/ \E d \in Device : RegisterDevice(d) \/ SetOnInbound(d) \/ Restart(d)
    \/ \E c \in Contacts : /\ c[2] \notin DOMAIN sessions[c[1]]
                           /\ CreateSessionWith(c[1], c[2])
    \/ \E c \in Contacts : SendMessageToDevice(c[1], c[2])
    \/ \E d \in Device, env \in network : OnRawMessage(d, env) /\ TurnsBounded

RestartSpec == Init /\ [][RestartNext]_vars

\* Sessions opened again while the process runs, with the same root key.
ReopenNext ==
    \/ Next
    \/ \E c \in Contacts : /\ deviceId[c[1]] = c[1]
                           /\ CreateSessionWith(c[1], c[2])

ReopenSpec == Init /\ [][ReopenNext]_vars
----------------------------------------------------------------------------
IsRatchet(r) ==
    /\ r.sendN \in Nat /\ r.recvN \in Nat
    /\ DOMAIN r.skipped \subseteq Nat
    /\ r.lastRemote = NoKey \/ r.lastRemote.owner \in Device

\* Shapes of the variables; a ratchet knows only keys of real devices.
TypeOK ==
    /\ deviceId \in [Device -> Device \cup {NoId}]
    /\ DOMAIN sessions = Device
    /\ \A d \in Device : /\ DOMAIN sessions[d] \subseteq Device
                         /\ \A e \in DOMAIN sessions[d] : IsRatchet(sessions[d][e])
    /\ onInbound \in [Device -> BOOLEAN]
    /\ restarts \in [Device -> 0 .. MaxRestarts]
    /\ \A env \in network : /\ env.num \in Nat
                            /\ <<env.body.from, env.body.to>> \in Contacts
    /\ sent \in [Contacts -> Nat]
    /\ DOMAIN opened = Device
    /\ DOMAIN handed = Device

\* However often the transport repeats an envelope, and in whatever order it
\* delivers, the application sees no message twice (the chain position and the
\* erased skipped keys of decrypt_envelope).
AtMostOnce ==
    \A d \in Device : \A i, j \in DOMAIN handed[d] :
        handed[d][i] = handed[d][j] => i = j

\* Whatever a device has received before, in whatever order and whoever it was
\* meant for, an envelope it has not opened yet opens when it arrives: the
\* ratchet never moves past a message without keeping its key.
NoStranded ==
    \A d \in Device : \A env \in network :
        (/\ env.body.to = d
         /\ env.body.from \in DOMAIN sessions[d]
         /\ env.body \notin opened[d])
        => env.sender \in DOMAIN sessions[d] /\ Opens(sessions[d][env.sender], env)

\* skipped_message_keys_ holds a key for each message that was overtaken and is
\* still to come, and for no other: no key of a message already read is kept,
\* so what the map holds is bounded by what is missing.
SkippedAreMissing ==
    \A d \in Device : \A e \in DOMAIN sessions[d] :
        LET r == sessions[d][e] IN
        DOMAIN r.skipped =
            {i \in 0 .. r.recvN - 1 : Message(e, d, i) \notin opened[d]}

\* No two envelopes of one device to one contact are sealed with the same key,
\* whatever the device has received in between.
OneKeyPerSession ==
    \A e1, e2 \in network :
        (/\ e1.key = e2.key
         /\ e1.body.from = e2.body.from
         /\ e1.body.to = e2.body.to) => e1 = e2

\* README.md: "Ratchet ensures each message key is unique".
NoKeyReuse ==
    \A e1, e2 \in network : e1.key = e2.key => e1.body = e2.body

\* A session never hands the application a message that the same session has
\* decrypted before: replays do not pass message numbering.
NoReplayInSession ==
    [][\A d \in Device : handed'[d] # handed[d] =>
          handed'[d][Len(handed'[d])] \notin opened[d]]_vars

Channel == INSTANCE SecureChannel WITH
    Receiver <- Device,
    Payload <- UNION {{Message(p[1], p[2], n) : n \in 0 .. MaxSent[p]} : p \in Contacts},
    posted <- {env.body : env \in network},
    taken <- UNION {opened[d] : d \in Device},
    shown <- handed

\* Used as the desktop client uses them, dispatchers implement SecureChannel.
ImplementsChannel == Channel!Spec

\* d's ratchet for e has not turned since it was initialized.
NotTurned(d, e) == sessions[d][e].root = FreshRoot(RootSecret(d, e))

\* Two ends of a session that agree on the session id, have not turned, and of
\* which the receiver follows no older key pair of the sender, can still talk:
\* what the sender seals next opens, whatever either has been through.
UnturnedLinkWorks ==
    \A c \in Contacts :
        LET s == c[1]  d == c[2] IN
        (/\ d \in DOMAIN sessions[s] /\ s \in DOMAIN sessions[d]
         /\ NotTurned(s, d) /\ NotTurned(d, s)
         /\ sessions[s][d].sid = sessions[d][s].sid
         /\ sessions[d][s].lastRemote \in {NoKey, sessions[s][d].pub})
        => Opens(sessions[d][s], Sealed(sessions[s][d], NoSession, deviceId[s],
                                        Message(s, d, sent[c])))
============================================================================
