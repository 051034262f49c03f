-------------------------- MODULE DispatcherProofs --------------------------
(***************************************************************************)
(* What Dispatcher!Spec guarantees for any devices, contacts and bounds.   *)
(* The inductive invariant says that a session's ratchet is determined by  *)
(* four things: how many messages its owner has sent on it, the position   *)
(* of its receiving chain, whether it has heard from its peer, and which   *)
(* messages of the peer it has opened.  The second half is about           *)
(* Dispatcher!RestartSpec.                                                 *)
(***************************************************************************)
EXTENDS SingleDelivery, TLAPS

\* The n-th key of the one chain both ends of a session start from.
Key(d, e, n) == ChainKey(FreshRoot(RootSecret(d, e)), "root", n)

\* The n-th envelope of s to d.
EnvelopeOf(s, d, n) ==
    [sid |-> SessionId(s, d, RootSecret(s, d)), sender |-> s, num |-> n,
     pub |-> KeyPair(s, d, 0), key |-> Key(s, d, n), body |-> Message(s, d, n)]

KeysAt(d, e, numbers) == [i \in numbers |-> Key(d, e, i)]

\* d's ratchet for e: sent messages, position of the receiving chain, last
\* remote key, and the keys put aside.
RatchetWith(d, e, out, pos, last, keys) ==
    [pub |-> KeyPair(d, e, 0), root |-> FreshRoot(RootSecret(d, e)),
     sendChain |-> Key(d, e, out), recvChain |-> Key(d, e, pos),
     sendN |-> out, recvN |-> pos, lastRemote |-> last,
     sid |-> SessionId(d, e, RootSecret(d, e)),
     skipped |-> keys]

\* The same, with a key for each number below the position still missing.
RatchetOf(d, e, out, pos, last, missing) ==
    RatchetWith(d, e, out, pos, last, KeysAt(d, e, missing))

\* The missing numbers when the position moves up to n.
UpTo(missing, pos, n) == missing \cup pos .. n - 1

\* The missing numbers when the n-th has come.
Without(missing, n) == missing \ {n}

\* The messages of e below a position that d has not opened.
Missing(d, e, pos) == {i \in 0 .. pos - 1 : Message(e, d, i) \notin opened[d]}

NetworkInv ==
    \A env \in network : \E c \in Contacts : \E n \in Nat :
        n < sent[c] /\ env = EnvelopeOf(c[1], c[2], n)

SessionAt(d, e, pos, last) ==
    /\ last \in {NoKey, KeyPair(e, d, 0)}
    /\ sessions[d][e] = RatchetOf(d, e, sent[<<d, e>>], pos, last, Missing(d, e, pos))
    /\ \A m \in opened[d] : m.from = e => m.n < pos

SessionInv ==
    \A d \in Device : \A e \in DOMAIN sessions[d] :
        /\ deviceId[d] = d
        /\ <<d, e>> \in Contacts
        /\ \E pos \in Nat : \E last : SessionAt(d, e, pos, last)

SentInv ==
    \A c \in Contacts : c[2] \notin DOMAIN sessions[c[1]] => sent[c] = 0

OpenedInv ==
    \A d \in Device : \A m \in opened[d] :
        /\ m = Message(m.from, d, m.n)
        /\ m.n \in Nat
        /\ m.from \in DOMAIN sessions[d]

HandedInv ==
    \A d \in Device : \A i \in DOMAIN handed[d] : handed[d][i] \in opened[d]

Messages == [from : Device, to : Device, n : Nat]

Shapes ==
    /\ deviceId \in [Device -> Device \cup {NoId}]
    /\ DOMAIN sessions = Device
    /\ onInbound \in [Device -> BOOLEAN]
    /\ restarts = [d \in Device |-> 0]
    /\ sent \in [Contacts -> Nat]
    /\ \A c \in Contacts : sent[c] <= MaxSent[c]
    /\ opened \in [Device -> SUBSET Messages]
    /\ handed \in [Device -> Seq(Messages)]

IInv ==
    /\ Shapes
    /\ NetworkInv
    /\ SessionInv
    /\ SentInv
    /\ OpenedInv
    /\ HandedInv
    /\ AtMostOnce
----------------------------------------------------------------------------
\* Two ends of a session derive the same keys and the same session id.
LEMMA Symmetry ==
    ASSUME NEW d, NEW e, NEW n
    PROVE  /\ Key(d, e, n) = Key(e, d, n)
           /\ SessionId(d, e, RootSecret(d, e)) = SessionId(e, d, RootSecret(e, d))
BY DEF Key, RootSecret, SessionId, FreshRoot, ChainKey

\* Keys of one session differ when their positions differ.
LEMMA KeyInjective ==
    ASSUME NEW d, NEW e, NEW m, NEW n, Key(d, e, m) = Key(d, e, n)
    PROVE  m = n
BY DEF Key, ChainKey

\* A session id belongs to one pair of devices.
LEMMA SessionIdInjective ==
    ASSUME NEW c, NEW d, NEW s, c # s, d # s, c # d
    PROVE  SessionId(c, s, RootSecret(c, s)) # SessionId(s, d, RootSecret(s, d))
<1>1. {c, s} # {s, d}
    <2>1. c \notin {s, d}
        OBVIOUS
    <2>2. c \in {c, s}
        OBVIOUS
    <2>3. QED BY <2>1, <2>2
<1>2. QED BY <1>1 DEF SessionId

\* A ratchet after one more message of its owner.
LEMMA SentRatchet ==
    ASSUME NEW d \in Device, NEW e \in Device, NEW out \in Nat, NEW pos,
           NEW last, NEW M, NEW next \in {out + 1}
    PROVE  /\ AfterEncrypt(RatchetOf(d, e, out, pos, last, M), NoSession)
                = RatchetOf(d, e, next, pos, last, M)
           /\ Sealed(RatchetOf(d, e, out, pos, last, M), NoSession, d, Message(d, e, out))
                = EnvelopeOf(d, e, out)
<1> DEFINE r == RatchetOf(d, e, out, pos, last, M)
<1>1. SessionToUse(r, NoSession) = SessionId(d, e, RootSecret(d, e))
    BY DEF SessionToUse, RatchetOf, RatchetWith
<1>2. AdvanceBy(r.sendChain, 1) = Key(d, e, next)
    BY DEF AdvanceBy, Key, ChainKey, RatchetOf, RatchetWith
<1>3. AfterEncrypt(r, NoSession) = RatchetOf(d, e, next, pos, last, M)
    <2> DEFINE keys == KeysAt(d, e, M)
               s == [pub |-> KeyPair(d, e, 0), root |-> FreshRoot(RootSecret(d, e)),
                     sendChain |-> Key(d, e, next), recvChain |-> Key(d, e, pos),
                     sendN |-> out, recvN |-> pos, lastRemote |-> last,
                     sid |-> SessionId(d, e, RootSecret(d, e)), skipped |-> keys]
    <2>1. [r EXCEPT !.sid = SessionToUse(r, NoSession)] = r
        BY <1>1 DEF RatchetOf, RatchetWith
    <2>2. [r EXCEPT !.sendChain = Key(d, e, next)] = s
        BY DEF RatchetOf, RatchetWith
    <2>3. [s EXCEPT !.sendN = next] = RatchetOf(d, e, next, pos, last, M)
        BY DEF RatchetOf, RatchetWith
    <2>4. r.sendN = out
        BY DEF RatchetOf, RatchetWith
    <2> HIDE DEF r, s
    <2>5. QED BY <1>2, <2>1, <2>2, <2>3, <2>4 DEF AfterEncrypt
<1>4. Sealed(r, NoSession, d, Message(d, e, out)) = EnvelopeOf(d, e, out)
    BY <1>1 DEF Sealed, EnvelopeOf, RatchetOf, RatchetWith
<1>5. QED BY <1>3, <1>4

\* A ratchet made and initialized for a first session.
LEMMA FirstRatchet ==
    ASSUME NEW d, NEW e
    PROVE  Initialize(NewRatchet(KeyPair(d, e, 0)), RootSecret(d, e),
                      SessionId(d, e, RootSecret(d, e)))
             = RatchetOf(d, e, 0, 0, NoKey, {})
<1>1. NoSkipped = KeysAt(d, e, {})
    BY DEF NoSkipped, KeysAt
<1>2. QED BY <1>1 DEF Initialize, NewRatchet, RatchetOf, RatchetWith, Key

\* A ratchet at position pos, about to look at its peer's n-th envelope.
LEMMA PreparedRatchet ==
    ASSUME NEW d, NEW e, NEW out \in Nat, NEW pos \in Nat, NEW n \in Nat,
           NEW last \in {NoKey, KeyPair(e, d, 0)},
           NEW M \in SUBSET (0 .. pos - 1)
    PROVE  Prepared(RatchetOf(d, e, out, pos, last, M), EnvelopeOf(e, d, n)) =
             IF n <= pos
             THEN RatchetOf(d, e, out, pos, KeyPair(e, d, 0), M)
             ELSE RatchetOf(d, e, out, n, KeyPair(e, d, 0), UpTo(M, pos, n))
<1> DEFINE r == RatchetOf(d, e, out, pos, last, M)
           env == EnvelopeOf(e, d, n)
           f == RatchetOf(d, e, out, pos, KeyPair(e, d, 0), M)
<1>1. [r EXCEPT !.sid = env.sid] = r
    BY Symmetry DEF RatchetOf, RatchetWith, EnvelopeOf
<1>2. FollowRemote(r, env.pub) = f
    BY DEF FollowRemote, RatchetOf, RatchetWith, EnvelopeOf
<1>3. env.num = n
    BY DEF EnvelopeOf
<1>4. CASE n <= pos
    BY <1>1, <1>2, <1>3, <1>4 DEF Prepared, SkipTo, RatchetOf, RatchetWith
<1>5. CASE ~ (n <= pos)
    <2>1. \A i \in pos .. n - 1 : AdvanceBy(f.recvChain, i - f.recvN) = Key(d, e, i)
        BY DEF AdvanceBy, RatchetOf, RatchetWith, Key, ChainKey
    <2>2. AdvanceBy(f.recvChain, n - f.recvN) = Key(d, e, n)
        BY DEF AdvanceBy, RatchetOf, RatchetWith, Key, ChainKey
    <2>3. [i \in DOMAIN f.skipped \cup f.recvN .. n - 1 |->
              IF i \in DOMAIN f.skipped THEN f.skipped[i]
              ELSE AdvanceBy(f.recvChain, i - f.recvN)]
            = KeysAt(d, e, UpTo(M, pos, n))
        BY <2>1 DEF RatchetOf, RatchetWith, KeysAt, UpTo
    <2>4. SkipTo(f, n) = RatchetOf(d, e, out, n, KeyPair(e, d, 0), UpTo(M, pos, n))
        BY <1>5, <2>2, <2>3 DEF SkipTo, RatchetOf, RatchetWith
    <2>5. QED BY <1>1, <1>2, <1>3, <1>5, <2>4 DEF Prepared
<1>6. QED BY <1>4, <1>5

\* What decrypt_envelope does with the peer's n-th envelope: it opens exactly
\* the messages at or past its position and the missing ones below.
LEMMA DecryptRatchet ==
    ASSUME NEW d, NEW e, NEW out \in Nat, NEW pos \in Nat, NEW n \in Nat,
           NEW last \in {NoKey, KeyPair(e, d, 0)},
           NEW M \in SUBSET (0 .. pos - 1), NEW next \in {n + 1}
    PROVE  LET r == RatchetOf(d, e, out, pos, last, M)
               env == EnvelopeOf(e, d, n)
           IN  /\ Opens(r, env) <=> (n >= pos \/ n \in M)
               /\ AfterDecrypt(r, env) =
                     IF n >= pos
                     THEN RatchetOf(d, e, out, next, KeyPair(e, d, 0), UpTo(M, pos, n))
                     ELSE RatchetOf(d, e, out, pos, KeyPair(e, d, 0), Without(M, n))
<1> DEFINE r == RatchetOf(d, e, out, pos, last, M)
           env == EnvelopeOf(e, d, n)
           kp == KeyPair(e, d, 0)
           p == Prepared(r, env)
           same == RatchetOf(d, e, out, pos, kp, M)
<1>1. ForThisSession(r, env)
    BY Symmetry DEF ForThisSession, RatchetOf, RatchetWith, EnvelopeOf
<1>2. env.num = n /\ env.key = Key(d, e, n)
    BY Symmetry DEF EnvelopeOf
<1>p. p = IF n <= pos THEN same
          ELSE RatchetOf(d, e, out, n, kp, UpTo(M, pos, n))
    BY PreparedRatchet
<1>3. CASE n >= pos
    <2> DEFINE q == RatchetOf(d, e, out, n, kp, UpTo(M, pos, n))
    <2>1. p = q
        <3>1. CASE n = pos
            <4>1. UpTo(M, pos, n) = M
                BY <3>1 DEF UpTo
            <4>2. p = same
                BY <3>1, <1>p
            <4>3. QED BY <3>1, <4>1, <4>2
        <3>2. CASE n > pos
            BY <3>2, <1>p
        <3>3. QED BY <1>3, <3>1, <3>2
    <2>2. n \notin DOMAIN q.skipped
        <3>1. DOMAIN q.skipped = UpTo(M, pos, n)
            BY DEF RatchetOf, RatchetWith, KeysAt
        <3>2. n \notin UpTo(M, pos, n)
            BY <1>3 DEF UpTo
        <3>3. QED BY <3>1, <3>2
    <2>3. KeyTried(q, n) = Key(d, e, n)
        BY <2>2 DEF KeyTried, RatchetOf, RatchetWith, KeysAt
    <2>4. Opens(r, env)
        BY <1>1, <1>2, <2>1, <2>3 DEF Opens
    <2>5. [q EXCEPT !.recvChain = AdvanceBy(@, 1), !.recvN = next]
            = RatchetOf(d, e, out, next, kp, UpTo(M, pos, n))
        <3>1. AdvanceBy(Key(d, e, n), 1) = Key(d, e, next)
            BY DEF AdvanceBy, Key, ChainKey
        <3>2. q.recvChain = Key(d, e, n)
            BY DEF RatchetOf, RatchetWith
        <3>3. [q EXCEPT !.recvChain = Key(d, e, next), !.recvN = next]
                = RatchetOf(d, e, out, next, kp, UpTo(M, pos, n))
            <4> DEFINE keys == KeysAt(d, e, UpTo(M, pos, n))
                       s == [pub |-> KeyPair(d, e, 0),
                             root |-> FreshRoot(RootSecret(d, e)),
                             sendChain |-> Key(d, e, out),
                             recvChain |-> Key(d, e, next), sendN |-> out,
                             recvN |-> n, lastRemote |-> kp,
                             sid |-> SessionId(d, e, RootSecret(d, e)),
                             skipped |-> keys]
            <4> HIDE DEF keys
            <4>1. [q EXCEPT !.recvChain = Key(d, e, next)] = s
                BY DEF RatchetOf, RatchetWith, keys
            <4>2. [s EXCEPT !.recvN = next] = RatchetWith(d, e, out, next, kp, keys)
                BY DEF RatchetWith
            <4> HIDE DEF q, s
            <4>3. [q EXCEPT !.recvChain = Key(d, e, next), !.recvN = next]
                    = RatchetWith(d, e, out, next, kp, keys)
                BY <4>1, <4>2
            <4>4. QED BY <4>3 DEF RatchetOf, keys
        <3> HIDE DEF q
        <3>4. QED BY <3>1, <3>2, <3>3
    <2>6. AfterDecrypt(r, env) = RatchetOf(d, e, out, next, kp, UpTo(M, pos, n))
        BY <1>1, <1>2, <2>1, <2>2, <2>4, <2>5 DEF AfterDecrypt
    <2>7. QED BY <1>3, <2>4, <2>6
<1>4. CASE n < pos
    <2>1. p = same
        BY <1>4, <1>p
    <2>2. DOMAIN same.skipped = M
        BY DEF RatchetOf, RatchetWith, KeysAt
    <2>3. CASE n \in M
        <3>1. KeyTried(same, n) = Key(d, e, n)
            BY <2>3 DEF KeyTried, RatchetOf, RatchetWith, KeysAt
        <3>2. Opens(r, env)
            BY <1>1, <1>2, <2>1, <3>1 DEF Opens
        <3>3. DropSkipped(same, n) = RatchetOf(d, e, out, pos, kp, Without(M, n))
            <4>1. [i \in DOMAIN same.skipped \ {n} |-> same.skipped[i]]
                    = KeysAt(d, e, Without(M, n))
                BY DEF RatchetOf, RatchetWith, KeysAt, Without
            <4>2. [same EXCEPT !.skipped = KeysAt(d, e, Without(M, n))]
                    = RatchetOf(d, e, out, pos, kp, Without(M, n))
                BY DEF RatchetOf, RatchetWith
            <4>3. QED BY <4>1, <4>2 DEF DropSkipped
        <3>4. AfterDecrypt(r, env) = DropSkipped(same, n)
            BY <1>1, <1>2, <2>1, <2>2, <2>3, <3>2 DEF AfterDecrypt
        <3>5. QED BY <1>4, <2>3, <3>2, <3>3, <3>4
    <2>4. CASE n \notin M
        <3>1. KeyTried(same, n) = Key(d, e, pos)
            BY <2>4 DEF KeyTried, RatchetOf, RatchetWith, KeysAt
        <3>2. Key(d, e, pos) # Key(d, e, n)
            BY <1>4, KeyInjective
        <3>3. ~ Opens(r, env)
            BY <1>2, <2>1, <3>1, <3>2 DEF Opens
        <3>4. AfterDecrypt(r, env) = same
            BY <1>1, <2>1, <3>3 DEF AfterDecrypt
        <3>5. Without(M, n) = M
            BY <2>4 DEF Without
        <3>6. QED BY <1>4, <2>4, <3>3, <3>4, <3>5
    <2>5. QED BY <2>3, <2>4
<1>5. QED BY <1>3, <1>4

\* An envelope meant for another device leaves a ratchet alone.
LEMMA StrangeEnvelope ==
    ASSUME NEW c \in Device, NEW d \in Device, NEW s \in Device,
           c # s, d # s, c # d,
           NEW out, NEW pos, NEW last, NEW M, NEW n
    PROVE  LET r == RatchetOf(c, s, out, pos, last, M)
               env == EnvelopeOf(s, d, n)
           IN  ~ Opens(r, env) /\ AfterDecrypt(r, env) = r
<1> DEFINE r == RatchetOf(c, s, out, pos, last, M)
           env == EnvelopeOf(s, d, n)
<1>1. r.sid = SessionId(c, s, RootSecret(c, s))
    BY DEF RatchetOf, RatchetWith
<1>2. env.sid = SessionId(s, d, RootSecret(s, d))
    BY DEF EnvelopeOf
<1>3. r.sid \notin {NoSession, env.sid}
    BY <1>1, <1>2, SessionIdInjective, SessionAssumption
<1>4. ~ ForThisSession(r, env)
    BY <1>3 DEF ForThisSession
<1>5. QED BY <1>4 DEF Opens, AfterDecrypt
----------------------------------------------------------------------------
\* Before any session exists, the inductive invariant holds.
LEMMA InitIInv == Init => IInv
<1> SUFFICES ASSUME Init PROVE IInv
    OBVIOUS
<1>1. Shapes
    BY BoundsAssumption DEF Init, Shapes, Messages
<1>2. NetworkInv /\ SessionInv /\ SentInv /\ OpenedInv
    BY ContactsAssumption DEF Init, NetworkInv, SessionInv, SentInv, OpenedInv
<1>3. HandedInv /\ AtMostOnce
    BY DEF Init, HandedInv, AtMostOnce
<1>4. QED BY <1>1, <1>2, <1>3 DEF IInv

\* What IInv says of envelopes and histories does not depend on the variables
\* a step leaves alone.
LEMMA SameSessions ==
    ASSUME IInv, UNCHANGED <<sessions, sent, opened, network, handed>>
    PROVE  NetworkInv' /\ SentInv' /\ OpenedInv' /\ HandedInv' /\ AtMostOnce'
<1>1. NetworkInv' /\ SentInv'
    BY DEF IInv, NetworkInv, SentInv
<1>2. OpenedInv' /\ HandedInv' /\ AtMostOnce'
    BY DEF IInv, OpenedInv, HandedInv, AtMostOnce
<1>3. QED BY <1>1, <1>2

\* Registering a device, or its callback, keeps the inductive invariant.
LEMMA RegisterStep ==
    ASSUME IInv, NEW d \in Device, RegisterDevice(d) \/ SetOnInbound(d)
    PROVE  IInv'
<1>1. UNCHANGED <<sessions, sent, opened, network, handed, restarts>>
    BY DEF RegisterDevice, SetOnInbound
<1>2. Shapes'
    BY <1>1 DEF IInv, Shapes, RegisterDevice, SetOnInbound
<1>3. \A d0 \in Device : deviceId[d0] = d0 => deviceId'[d0] = d0
    BY DEF IInv, Shapes, RegisterDevice, SetOnInbound
<1>4. SessionInv'
    <2> SUFFICES ASSUME NEW d0 \in Device, NEW e0 \in DOMAIN sessions[d0]
                 PROVE  /\ deviceId'[d0] = d0
                        /\ <<d0, e0>> \in Contacts
                        /\ \E pos \in Nat : \E last : SessionAt(d0, e0, pos, last)'
        BY <1>1 DEF SessionInv
    <2>1p. PICK pos \in Nat : \E last : SessionAt(d0, e0, pos, last)
        BY DEF IInv, SessionInv
    <2>1. PICK last : SessionAt(d0, e0, pos, last)
        BY <2>1p
    <2>2. SessionAt(d0, e0, pos, last)'
        BY <1>1, <2>1 DEF SessionAt, Missing
    <2>3. QED BY <1>3, <2>2 DEF IInv, SessionInv
<1>5. QED BY <1>1, <1>2, <1>4, SameSessions DEF IInv

\* A first session has nothing to forget.
LEMMA FirstSession ==
    ASSUME IInv, NEW c \in Contacts, OpenSession(c[1], c[2])
    PROVE  opened' = opened
<1> DEFINE d == c[1]
           e == c[2]
<1>1. d \in Device /\ e \notin DOMAIN sessions[d] /\ CreateSessionWith(d, e)
    BY ContactsAssumption DEF OpenSession
<1>2. {m \in opened[d] : m.from # e} = opened[d]
    BY <1>1 DEF IInv, OpenedInv
<1>3. opened' = [opened EXCEPT ![d] = opened[d]]
    BY <1>1, <1>2 DEF CreateSessionWith
<1>4. QED BY <1>3 DEF IInv, Shapes

\* Opening a first session keeps the inductive invariant.
LEMMA OpenStep ==
    ASSUME IInv, NEW c \in Contacts, OpenSession(c[1], c[2])
    PROVE  IInv'
<1> DEFINE d == c[1]
           e == c[2]
<1>1. d \in Device /\ e \in Device /\ d # e /\ c = <<d, e>>
    BY ContactsAssumption
<1>2. deviceId[d] = d /\ e \notin DOMAIN sessions[d] /\ CreateSessionWith(d, e)
    BY DEF OpenSession
<1>3. sent[<<d, e>>] = 0
    BY <1>1, <1>2 DEF IInv, SentInv
<1>4. opened' = opened
    BY FirstSession
<1>5. sessions'[d] = [p \in DOMAIN sessions[d] \cup {e} |->
                        IF p = e THEN RatchetOf(d, e, 0, 0, NoKey, {})
                        ELSE sessions[d][p]]
    <2>1. RatchetFor(d, e) = NewRatchet(KeyPair(d, e, 0))
        BY <1>1, <1>2 DEF RatchetFor, IInv, Shapes
    <2>2. QED BY <1>1, <1>2, <2>1, FirstRatchet DEF CreateSessionWith, IInv, Shapes
<1>6. /\ DOMAIN sessions' = Device
      /\ \A d0 \in Device : d0 # d => sessions'[d0] = sessions[d0]
    BY <1>2 DEF CreateSessionWith, IInv, Shapes
<1>7. UNCHANGED <<deviceId, onInbound, network, restarts, sent, handed>>
    BY <1>2 DEF CreateSessionWith
<1>8. SessionAt(d, e, 0, NoKey)'
    <2>1. Missing(d, e, 0) = {}
        BY DEF Missing
    <2>2. Missing(d, e, 0)' = {}
        BY <1>4, <2>1 DEF Missing
    <2>3. \A m \in opened[d] : m.from # e
        BY <1>1, <1>2 DEF IInv, OpenedInv
    <2>4. sessions'[d][e] = RatchetOf(d, e, 0, 0, NoKey, {})
        BY <1>5
    <2>5. QED BY <1>3, <1>4, <1>7, <2>2, <2>3, <2>4 DEF SessionAt
<1>9. ASSUME NEW d0 \in Device, NEW e0 \in DOMAIN sessions[d0],
             NEW pos \in Nat, NEW last, SessionAt(d0, e0, pos, last)
      PROVE  SessionAt(d0, e0, pos, last)'
    <2>1. sessions'[d0][e0] = sessions[d0][e0]
        BY <1>2, <1>5, <1>6
    <2>2. QED BY <1>4, <1>7, <1>9, <2>1 DEF SessionAt, Missing
<1>10. SessionInv'
    <2> SUFFICES ASSUME NEW d0 \in Device, NEW e0 \in DOMAIN sessions'[d0]
                 PROVE  /\ deviceId'[d0] = d0
                        /\ <<d0, e0>> \in Contacts
                        /\ \E pos \in Nat : \E last : SessionAt(d0, e0, pos, last)'
        BY DEF SessionInv
    <2>1. CASE d0 = d /\ e0 = e
        BY <1>1, <1>2, <1>7, <1>8, <2>1
    <2>2. CASE ~ (d0 = d /\ e0 = e)
        <3>1. e0 \in DOMAIN sessions[d0]
            BY <1>5, <1>6, <2>2
        <3>2. QED BY <1>7, <1>9, <3>1 DEF IInv, SessionInv
    <2>3. QED BY <2>1, <2>2
<1>11. Shapes'
    BY <1>4, <1>6, <1>7 DEF IInv, Shapes
<1>12. SentInv'
    BY <1>5, <1>6, <1>7, ContactsAssumption DEF IInv, SentInv
<1>13. OpenedInv'
    BY <1>4, <1>5, <1>6 DEF IInv, OpenedInv
<1>14. NetworkInv' /\ HandedInv' /\ AtMostOnce'
    BY <1>4, <1>7 DEF IInv, NetworkInv, HandedInv, AtMostOnce
<1>15. QED BY <1>10, <1>11, <1>12, <1>13, <1>14 DEF IInv

\* send_message_to_device keeps the inductive invariant: the envelope it seals is
\* the next of its session.
LEMMA SendStep ==
    ASSUME IInv, NEW c \in Contacts, SendMessageToDevice(c[1], c[2])
    PROVE  IInv'
<1> DEFINE d == c[1]
           e == c[2]
<1>1. d \in Device /\ e \in Device /\ d # e /\ c = <<d, e>>
    BY ContactsAssumption
<1>k. PICK k \in Nat : k = sent[c]
    BY DEF IInv, Shapes
<1>n. PICK next \in {k + 1} : TRUE
    OBVIOUS
<1>2. e \in DOMAIN sessions[d] /\ deviceId[d] = d
    BY <1>1 DEF SendMessageToDevice, IInv, SessionInv
<1>3p. PICK pos \in Nat : \E last : SessionAt(d, e, pos, last)
    BY <1>1, <1>2 DEF IInv, SessionInv
<1>3. PICK last : SessionAt(d, e, pos, last)
    BY <1>3p
<1> DEFINE M == Missing(d, e, pos)
<1>4. sessions[d][e] = RatchetOf(d, e, k, pos, last, M)
    BY <1>1, <1>3, <1>k DEF SessionAt
<1>5. AfterEncrypt(sessions[d][e], NoSession) = RatchetOf(d, e, next, pos, last, M)
    <2> HIDE DEF M
    <2>1. AfterEncrypt(RatchetOf(d, e, k, pos, last, M), NoSession)
            = RatchetOf(d, e, next, pos, last, M)
        BY <1>1, SentRatchet
    <2>2. QED BY <1>4, <2>1
<1>6. Sealed(sessions[d][e], NoSession, d, Message(d, e, k)) = EnvelopeOf(d, e, k)
    BY <1>1, <1>4, SentRatchet
<1>7. /\ network' = network \cup {EnvelopeOf(d, e, k)}
      /\ sessions' = [sessions EXCEPT ![d][e] = RatchetOf(d, e, next, pos, last, M)]
      /\ sent' = [sent EXCEPT ![c] = next]
      /\ UNCHANGED <<deviceId, onInbound, restarts, opened, handed>>
    BY <1>1, <1>2, <1>5, <1>6, <1>k, <1>n DEF SendMessageToDevice
<1>8. /\ DOMAIN sessions' = Device
      /\ \A d0 \in Device : DOMAIN sessions'[d0] = DOMAIN sessions[d0]
      /\ \A d0 \in Device : \A e0 \in DOMAIN sessions[d0] :
            ~ (d0 = d /\ e0 = e) => sessions'[d0][e0] = sessions[d0][e0]
      /\ sessions'[d][e] = RatchetOf(d, e, next, pos, last, M)
    BY <1>1, <1>2, <1>7 DEF IInv, Shapes
<1>9. Shapes'
    <2>1. \A c0 \in Contacts : sent'[c0] <= MaxSent[c0]
        <3>1. k < MaxSent[c] /\ MaxSent[c] \in Nat
            BY <1>1, <1>k, BoundsAssumption DEF SendMessageToDevice
        <3>2. next <= MaxSent[c]
            BY <1>n, <3>1
        <3>3. \A c0 \in Contacts : sent'[c0] = IF c0 = c THEN next ELSE sent[c0]
            BY <1>7 DEF IInv, Shapes
        <3>4. QED BY <3>2, <3>3 DEF IInv, Shapes
    <2>2. QED BY <1>7, <1>8, <1>k, <2>1 DEF IInv, Shapes
<1>10. NetworkInv'
    <2> SUFFICES ASSUME NEW env \in network'
                 PROVE  \E c0 \in Contacts : \E n \in Nat :
                            n < sent'[c0] /\ env = EnvelopeOf(c0[1], c0[2], n)
        BY DEF NetworkInv
    <2>1. CASE env \in network
        <3>1. PICK c0 \in Contacts, n \in Nat :
                    n < sent[c0] /\ env = EnvelopeOf(c0[1], c0[2], n)
            BY <2>1 DEF IInv, NetworkInv
        <3>2. n < sent'[c0]
            BY <1>7, <1>k, <3>1 DEF IInv, Shapes
        <3>3. QED BY <3>1, <3>2
    <2>2. CASE env = EnvelopeOf(d, e, k)
        <3>1. k < sent'[c]
            BY <1>7, <1>k DEF IInv, Shapes
        <3>2. QED BY <1>2, <2>2, <3>1
    <2>3. QED BY <1>7, <2>1, <2>2
<1>11. SessionInv'
    <2> SUFFICES ASSUME NEW d0 \in Device, NEW e0 \in DOMAIN sessions[d0]
                 PROVE  \E p \in Nat : \E l : SessionAt(d0, e0, p, l)'
        BY <1>7, <1>8 DEF IInv, SessionInv
    <2>1. CASE d0 = d /\ e0 = e
        <3>1. SessionAt(d, e, pos, last)'
            <4>1. sent'[<<d, e>>] = next
                BY <1>1, <1>7 DEF IInv, Shapes
            <4>2. Missing(d, e, pos)' = M
                BY <1>7 DEF Missing
            <4>3. QED BY <1>3, <1>7, <1>8, <4>1, <4>2 DEF SessionAt
        <3>2. QED BY <2>1, <3>1
    <2>2. CASE ~ (d0 = d /\ e0 = e)
        <3>1p. PICK p \in Nat : \E l : SessionAt(d0, e0, p, l)
            BY DEF IInv, SessionInv
        <3>1. PICK l : SessionAt(d0, e0, p, l)
            BY <3>1p
        <3>2. <<d0, e0>> \in Contacts
            BY DEF IInv, SessionInv
        <3>3. sent'[<<d0, e0>>] = sent[<<d0, e0>>]
            BY <1>1, <1>7, <2>2, <3>2 DEF IInv, Shapes
        <3>4. SessionAt(d0, e0, p, l)'
            BY <1>7, <1>8, <2>2, <3>1, <3>3 DEF SessionAt, Missing
        <3>5. QED BY <3>4
    <2>3. QED BY <2>1, <2>2
<1>12. SentInv'
    BY <1>1, <1>2, <1>7, <1>8, <1>k, ContactsAssumption DEF IInv, SentInv, Shapes
<1>13. OpenedInv' /\ HandedInv' /\ AtMostOnce'
    BY <1>7, <1>8 DEF IInv, OpenedInv, HandedInv, AtMostOnce
<1>14. QED BY <1>9, <1>10, <1>11, <1>12, <1>13 DEF IInv

\* An envelope changes at most the ratchet of its sender, and what it brings
\* is new: a message that the session has opened before does not open.
LEMMA ReceiveEffect ==
    ASSUME IInv, NEW c \in Contacts, NEW n \in Nat, n < sent[c],
           NEW d \in Device, c[1] \in DOMAIN sessions[d],
           OnRawMessage(d, EnvelopeOf(c[1], c[2], n))
    PROVE  /\ \E pos \in Nat : \E last : SessionAt(d, c[1], pos, last)'
           /\ \/ opened' = opened /\ handed' = handed
              \/ /\ c[2] = d /\ Message(c[1], d, n) \notin opened[d]
                 /\ opened' = [opened EXCEPT ![d] = @ \cup {Message(c[1], d, n)}]
                 /\ handed' \in {handed, [handed EXCEPT ![d] = Append(@, Message(c[1], d, n))]}
<1> DEFINE s == c[1]
           env == EnvelopeOf(c[1], c[2], n)
           r == sessions[d][s]
           msg == Message(s, d, n)
           kp == KeyPair(s, d, 0)
<1>1. /\ s \in Device /\ c[2] \in Device /\ s # c[2] /\ c = <<s, c[2]>>
      /\ <<d, s>> \in Contacts /\ d # s
    BY ContactsAssumption DEF IInv, SessionInv
<1>2. env.sender = s /\ env.body = Message(s, c[2], n)
    BY DEF EnvelopeOf
<1>3. /\ sessions' = [sessions EXCEPT ![d][s] = AfterDecrypt(r, env)]
      /\ IF Opens(r, env)
         THEN /\ opened' = [opened EXCEPT ![d] = @ \cup {env.body}]
              /\ handed' \in {handed, [handed EXCEPT ![d] = Append(@, env.body)]}
         ELSE opened' = opened /\ handed' = handed
      /\ sent' = sent
    BY <1>2 DEF OnRawMessage
<1>4. sessions'[d][s] = AfterDecrypt(r, env)
    BY <1>3 DEF IInv, Shapes
<1>5p. PICK pos \in Nat : \E last : SessionAt(d, s, pos, last)
    BY DEF IInv, SessionInv
<1>5. PICK last : SessionAt(d, s, pos, last)
    BY <1>5p
<1>6. PICK out \in Nat : out = sent[<<d, s>>]
    BY <1>1 DEF IInv, Shapes
<1>7. PICK M \in SUBSET (0 .. pos - 1) : M = Missing(d, s, pos)
    BY DEF Missing
<1>8. r = RatchetOf(d, s, out, pos, last, M) /\ last \in {NoKey, kp}
    BY <1>5, <1>6, <1>7 DEF SessionAt
<1>9. CASE c[2] # d
    <2>1. ~ Opens(r, env) /\ AfterDecrypt(r, env) = r
        BY <1>1, <1>8, <1>9, StrangeEnvelope
    <2>2. opened' = opened /\ handed' = handed
        BY <1>3, <2>1
    <2>3. SessionAt(d, s, pos, last)'
        BY <1>3, <1>4, <1>5, <2>1, <2>2 DEF SessionAt, Missing
    <2>4. QED BY <2>2, <2>3
<1>10. CASE c[2] = d
    <2>n. PICK next \in {n + 1} : TRUE
        OBVIOUS
    <2>1. env = EnvelopeOf(s, d, n) /\ env.body = msg
        BY <1>2, <1>10
    <2>2. /\ Opens(r, env) <=> (n >= pos \/ n \in M)
          /\ AfterDecrypt(r, env) =
                IF n >= pos THEN RatchetOf(d, s, out, next, kp, UpTo(M, pos, n))
                ELSE RatchetOf(d, s, out, pos, kp, Without(M, n))
        BY <1>8, <2>1, DecryptRatchet
    <2>3. msg \in opened[d] => n < pos
        BY <1>5 DEF SessionAt, Message
    <2>4. msg.from = s /\ msg.n = n
        BY DEF Message
    <2>5. CASE n >= pos
        <3>1. opened' = [opened EXCEPT ![d] = @ \cup {msg}]
            BY <1>3, <2>1, <2>2, <2>5
        <3>2. opened'[d] = opened[d] \cup {msg}
            BY <3>1 DEF IInv, Shapes
        <3>3. Missing(d, s, next)' = UpTo(M, pos, n)
            <4>1. \A i \in 0 .. n - 1 : Message(s, d, i) # msg
                BY DEF Message
            <4>2. \A i \in pos .. n - 1 : Message(s, d, i) \notin opened[d]
                BY <1>5 DEF SessionAt, Message
            <4>3. \A i \in 0 .. n :
                    (Message(s, d, i) \notin opened'[d]) <=> i \in UpTo(M, pos, n)
                BY <1>7, <2>5, <3>2, <4>1, <4>2 DEF Missing, UpTo
            <4>4. \A i \in UpTo(M, pos, n) : i \in 0 .. n
                <5>1. \A i \in M : i \in 0 .. pos - 1
                    OBVIOUS
                <5>2. \A i \in pos .. n - 1 : i \in 0 .. n
                    OBVIOUS
                <5>3. \A i \in M : i \in 0 .. n
                    BY <2>5, <5>1
                <5>4. QED BY <5>2, <5>3 DEF UpTo
            <4>5. Missing(d, s, next)' = {i \in 0 .. n : Message(s, d, i) \notin opened'[d]}
                BY <2>n DEF Missing
            <4>6. QED BY <4>3, <4>4, <4>5
        <3>4. \A m \in opened'[d] : m.from = s => m.n < next
            <4>1. \A m \in opened[d] : m.from = s => m.n < pos /\ m.n \in Nat
                BY <1>5 DEF SessionAt, IInv, OpenedInv
            <4>2. QED BY <2>n, <2>4, <2>5, <3>2, <4>1
        <3>5. sessions'[d][s] = RatchetOf(d, s, out, next, kp, UpTo(M, pos, n))
            BY <1>4, <2>2, <2>5
        <3>6. SessionAt(d, s, next, kp)'
            BY <1>3, <1>6, <3>3, <3>4, <3>5 DEF SessionAt
        <3>7. next \in Nat
            BY <2>n
        <3>8. QED BY <1>3, <1>10, <2>1, <2>2, <2>3, <2>5, <3>1, <3>6, <3>7
    <2>6. CASE n < pos
        <3>1. sessions'[d][s] = RatchetOf(d, s, out, pos, kp, Without(M, n))
            BY <1>4, <2>2, <2>6
        <3>2. CASE n \in M
            <4>1. opened' = [opened EXCEPT ![d] = @ \cup {msg}]
                BY <1>3, <2>1, <2>2, <3>2
            <4>2. opened'[d] = opened[d] \cup {msg}
                BY <4>1 DEF IInv, Shapes
            <4>3. msg \notin opened[d]
                BY <1>7, <3>2 DEF Missing
            <4>4. Missing(d, s, pos)' = Without(M, n)
                <5>1. \A i \in 0 .. pos - 1 : Message(s, d, i) = msg <=> i = n
                    BY DEF Message
                <5>2. QED BY <1>7, <4>2, <5>1 DEF Missing, Without
            <4>5. \A m \in opened'[d] : m.from = s => m.n < pos
                BY <1>5, <2>4, <2>6, <4>2 DEF SessionAt
            <4>6. SessionAt(d, s, pos, kp)'
                BY <1>3, <1>6, <3>1, <4>4, <4>5 DEF SessionAt
            <4>7. QED BY <1>3, <1>10, <2>1, <2>2, <3>2, <4>1, <4>3, <4>6
        <3>3. CASE n \notin M
            <4>1. opened' = opened /\ handed' = handed
                BY <1>3, <2>2, <2>6, <3>3
            <4>2. Without(M, n) = M
                BY <3>3 DEF Without
            <4>3. Missing(d, s, pos)' = M
                BY <1>7, <4>1 DEF Missing
            <4>4. SessionAt(d, s, pos, kp)'
                BY <1>3, <1>5, <1>6, <3>1, <4>1, <4>2, <4>3 DEF SessionAt
            <4>5. QED BY <4>1, <4>4
        <3>4. QED BY <3>2, <3>3
    <2>7. QED BY <2>5, <2>6
<1>11. QED BY <1>9, <1>10

\* on_raw_message keeps the inductive invariant, whatever envelope it is given.
LEMMA ReceiveStep ==
    ASSUME IInv, NEW d \in Device, NEW env \in network, OnRawMessage(d, env)
    PROVE  IInv'
<1>1. PICK c \in Contacts, n \in Nat : n < sent[c] /\ env = EnvelopeOf(c[1], c[2], n)
    BY DEF IInv, NetworkInv
<1> DEFINE s == c[1]
           msg == Message(s, d, n)
<1>2. s \in DOMAIN sessions[d] /\ s \in Device /\ c[2] \in Device
    <2>1. env.sender = s
        BY <1>1 DEF EnvelopeOf
    <2>2. QED BY <2>1, ContactsAssumption DEF OnRawMessage
<1>3. /\ \E pos \in Nat : \E last : SessionAt(d, s, pos, last)'
      /\ \/ opened' = opened /\ handed' = handed
         \/ /\ c[2] = d /\ msg \notin opened[d]
            /\ opened' = [opened EXCEPT ![d] = @ \cup {msg}]
            /\ handed' \in {handed, [handed EXCEPT ![d] = Append(@, msg)]}
    BY <1>1, <1>2, ReceiveEffect
<1>4. /\ DOMAIN sessions' = Device
      /\ \A d0 \in Device : DOMAIN sessions'[d0] = DOMAIN sessions[d0]
      /\ \A d0 \in Device : \A e0 \in DOMAIN sessions[d0] :
            ~ (d0 = d /\ e0 = s) => sessions'[d0][e0] = sessions[d0][e0]
    <2>1. env.sender = s
        BY <1>1 DEF EnvelopeOf
    <2>2. QED BY <1>2, <2>1 DEF OnRawMessage, IInv, Shapes
<1>5. UNCHANGED <<deviceId, onInbound, network, restarts, sent>>
    BY DEF OnRawMessage
<1>6. msg \in Messages /\ msg.from = s /\ msg.n = n
    BY <1>2 DEF Message, Messages
<1>7. Shapes'
    <2>1. opened' \in [Device -> SUBSET Messages]
        <3>1. opened[d] \cup {msg} \in SUBSET Messages
            BY <1>6 DEF IInv, Shapes
        <3>2. opened' \in {opened, [opened EXCEPT ![d] = opened[d] \cup {msg}]}
            BY <1>3
        <3>3. QED BY <3>1, <3>2 DEF IInv, Shapes
    <2>2. handed' \in [Device -> Seq(Messages)]
        <3>1. Append(handed[d], msg) \in Seq(Messages)
            BY <1>6 DEF IInv, Shapes
        <3>2. QED BY <1>3, <3>1 DEF IInv, Shapes
    <2>3. QED BY <1>4, <1>5, <2>1, <2>2 DEF IInv, Shapes
<1>8. \A d0 \in Device : opened[d0] \subseteq opened'[d0]
    BY <1>3 DEF IInv, Shapes
<1>9. SessionInv'
    <2> SUFFICES ASSUME NEW d0 \in Device, NEW e0 \in DOMAIN sessions[d0]
                 PROVE  \E pos \in Nat : \E last : SessionAt(d0, e0, pos, last)'
        BY <1>4, <1>5 DEF IInv, SessionInv
    <2>1. CASE d0 = d /\ e0 = s
        BY <1>3, <2>1
    <2>2. CASE ~ (d0 = d /\ e0 = s)
        <3>1p. PICK pos \in Nat : \E last : SessionAt(d0, e0, pos, last)
            BY DEF IInv, SessionInv
        <3>1. PICK last : SessionAt(d0, e0, pos, last)
            BY <3>1p
        <3>2. \A m \in opened'[d0] : m.from = e0 => m \in opened[d0]
            BY <1>3, <1>6, <2>2 DEF IInv, Shapes
        <3>3. Missing(d0, e0, pos)' = Missing(d0, e0, pos)
            <4>1. \A i : Message(e0, d0, i).from = e0
                BY DEF Message
            <4>2. \A i : Message(e0, d0, i) \in opened'[d0] <=> Message(e0, d0, i) \in opened[d0]
                BY <1>8, <3>2, <4>1
            <4>3. QED BY <4>2 DEF Missing
        <3>4. SessionAt(d0, e0, pos, last)'
            BY <1>4, <1>5, <2>2, <3>1, <3>2, <3>3 DEF SessionAt
        <3>5. QED BY <3>4
    <2>3. QED BY <2>1, <2>2
<1>10. NetworkInv' /\ SentInv'
    BY <1>4, <1>5, ContactsAssumption DEF IInv, NetworkInv, SentInv
<1>11. OpenedInv'
    <2>1. \A d0 \in Device : \A m \in opened'[d0] :
                m \in opened[d0] \/ (d0 = d /\ m = msg)
        BY <1>3 DEF IInv, Shapes
    <2>2. msg = Message(msg.from, d, msg.n) /\ msg.n \in Nat
          /\ msg.from \in DOMAIN sessions'[d]
        BY <1>2, <1>4, <1>6
    <2>3. QED BY <1>4, <2>1, <2>2 DEF IInv, OpenedInv
<1>12. HandedInv' /\ AtMostOnce'
    <2>1. CASE handed' = handed
        BY <1>8, <2>1 DEF IInv, HandedInv, AtMostOnce
    <2>2. CASE /\ msg \notin opened[d]
               /\ opened' = [opened EXCEPT ![d] = @ \cup {msg}]
               /\ handed' = [handed EXCEPT ![d] = Append(@, msg)]
        <3>1. \A i \in DOMAIN handed[d] : handed[d][i] # msg
            BY <2>2 DEF IInv, HandedInv
        <3>2. handed[d] \in Seq(Messages) /\ handed'[d] = Append(handed[d], msg)
            BY <2>2 DEF IInv, Shapes
        <3>3. /\ DOMAIN handed'[d] = 1 .. Len(handed[d]) + 1
              /\ \A i \in DOMAIN handed[d] : handed'[d][i] = handed[d][i]
              /\ handed'[d][Len(handed[d]) + 1] = msg
              /\ DOMAIN handed[d] = 1 .. Len(handed[d])
            BY <3>2, <1>6
        <3>4. \A d0 \in Device : d0 # d => handed'[d0] = handed[d0]
            BY <2>2 DEF IInv, Shapes
        <3>5. opened'[d] = opened[d] \cup {msg}
            BY <2>2 DEF IInv, Shapes
        <3>6. HandedInv'
            BY <1>8, <3>3, <3>4, <3>5 DEF IInv, HandedInv
        <3>7. AtMostOnce'
            BY <3>1, <3>3, <3>4 DEF IInv, AtMostOnce
        <3>8. QED BY <3>6, <3>7
    <2>3. QED BY <1>3, <2>1, <2>2
<1>13. QED BY <1>7, <1>9, <1>10, <1>11, <1>12 DEF IInv
----------------------------------------------------------------------------
\* No step of the dispatchers leaves the inductive invariant.
LEMMA StepIInv == IInv /\ [Next]_vars => IInv'
<1> SUFFICES ASSUME IInv, [Next]_vars PROVE IInv'
    OBVIOUS
<1>1. CASE \E d \in Device : RegisterDevice(d) \/ SetOnInbound(d)
    BY <1>1, RegisterStep
<1>2. CASE \E c \in Contacts : OpenSession(c[1], c[2])
    BY <1>2, OpenStep
<1>3. CASE \E c \in Contacts : SendMessageToDevice(c[1], c[2])
    BY <1>3, SendStep
<1>4. CASE \E d \in Device, env \in network : OnRawMessage(d, env)
    BY <1>4, ReceiveStep
<1>5. CASE UNCHANGED vars
    <2>1. UNCHANGED <<deviceId, sessions, onInbound, network, restarts, sent, opened, handed>>
        BY <1>5 DEF vars
    <2>2. Shapes'
        BY <2>1 DEF IInv, Shapes
    <2>3. SessionInv'
        <3>1. \A d \in Device : \A e \in DOMAIN sessions[d] : \A pos, last :
                 SessionAt(d, e, pos, last) => SessionAt(d, e, pos, last)'
            BY <2>1 DEF SessionAt, Missing
        <3>2. QED BY <2>1, <3>1 DEF IInv, SessionInv
    <2>4. QED BY <2>1, <2>2, <2>3, SameSessions DEF IInv
<1>6. QED BY <1>1, <1>2, <1>3, <1>4, <1>5 DEF Next

\* The inductive invariant holds in every reachable state.
THEOREM Invariance == Spec => []IInv
BY InitIInv, StepIInv, PTL DEF Spec

\* No schedule of the transport makes a dispatcher call on_inbound_ twice with
\* one message, for any number of devices, contacts and messages.
THEOREM AtMostOnceHolds == Spec => []AtMostOnce
<1>1. IInv => AtMostOnce
    BY DEF IInv
<1>2. QED BY <1>1, Invariance, PTL

\* The state keeps its shape.
THEOREM TypeCorrect == Spec => []TypeOK
<1>1. ASSUME IInv PROVE TypeOK
    <2>1. ASSUME NEW d \in Device, NEW e \in DOMAIN sessions[d]
          PROVE  e \in Device /\ IsRatchet(sessions[d][e])
        <3>1p. PICK pos \in Nat : \E last : SessionAt(d, e, pos, last)
            BY <1>1 DEF IInv, SessionInv
        <3>1. PICK last : SessionAt(d, e, pos, last)
            BY <3>1p
        <3>2. <<d, e>> \in Contacts /\ e \in Device /\ sent[<<d, e>>] \in Nat
            BY <1>1, ContactsAssumption DEF IInv, SessionInv, Shapes
        <3>3. Missing(d, e, pos) \subseteq Nat
            BY DEF Missing
        <3>4. last = NoKey \/ last.owner \in Device
            BY <3>1, <3>2 DEF SessionAt, KeyPair
        <3>5. QED BY <3>1, <3>2, <3>3, <3>4
                  DEF SessionAt, RatchetOf, RatchetWith, KeysAt, IsRatchet
    <2>2. ASSUME NEW env \in network
          PROVE  env.num \in Nat /\ <<env.body.from, env.body.to>> \in Contacts
        <3>1. PICK c \in Contacts, n \in Nat : env = EnvelopeOf(c[1], c[2], n)
            BY <1>1 DEF IInv, NetworkInv
        <3>2. c = <<c[1], c[2]>>
            BY ContactsAssumption
        <3>3. QED BY <3>1, <3>2 DEF EnvelopeOf, Message
    <2>3. restarts \in [Device -> 0 .. MaxRestarts]
        BY <1>1, BoundsAssumption DEF IInv, Shapes
    <2>4. QED BY <1>1, <2>1, <2>2, <2>3 DEF IInv, Shapes, TypeOK
<1>2. QED BY <1>1, Invariance, PTL

\* No reordering of deliveries makes a ratchet unable to open a message of its
\* peer that it has not opened: decrypt_envelope keeps every key it passes.
THEOREM NoStrandedHolds == Spec => []NoStranded
<1>1. ASSUME IInv PROVE NoStranded
    <2> SUFFICES ASSUME NEW d \in Device, NEW env \in network, env.body.to = d,
                        env.body.from \in DOMAIN sessions[d],
                        env.body \notin opened[d]
                 PROVE  /\ env.sender \in DOMAIN sessions[d]
                        /\ Opens(sessions[d][env.sender], env)
        BY DEF NoStranded
    <2>1. PICK c \in Contacts, n \in Nat : env = EnvelopeOf(c[1], c[2], n)
        BY <1>1 DEF IInv, NetworkInv
    <2> DEFINE s == c[1]
    <2>2. /\ env.body = Message(s, c[2], n) /\ env.sender = s /\ c[2] = d
          /\ s \in DOMAIN sessions[d]
        BY <2>1 DEF EnvelopeOf, Message
    <2>3p. PICK pos \in Nat : \E last : SessionAt(d, s, pos, last)
        BY <1>1, <2>2 DEF IInv, SessionInv
    <2>3. PICK last : SessionAt(d, s, pos, last)
        BY <2>3p
    <2>4. PICK out \in Nat : out = sent[<<d, s>>]
        BY <1>1, <2>2 DEF IInv, SessionInv, Shapes
    <2>5. PICK M \in SUBSET (0 .. pos - 1) : M = Missing(d, s, pos)
        BY DEF Missing
    <2>6. /\ sessions[d][s] = RatchetOf(d, s, out, pos, last, M)
          /\ last \in {NoKey, KeyPair(s, d, 0)}
        BY <2>3, <2>4, <2>5 DEF SessionAt
    <2>7. n >= pos \/ n \in M
        BY <2>2, <2>5 DEF Missing
    <2>8. PICK next \in {n + 1} : TRUE
        OBVIOUS
    <2>9. env = EnvelopeOf(s, d, n)
        BY <2>1, <2>2
    <2>10. Opens(RatchetOf(d, s, out, pos, last, M), EnvelopeOf(s, d, n))
        BY <2>6, <2>7, <2>8, DecryptRatchet
    <2>11. QED BY <2>2, <2>6, <2>9, <2>10
<1>2. QED BY <1>1, Invariance, PTL

\* skipped_message_keys_ holds the keys of the overtaken messages still to come
\* and no key of a message that has been read.
THEOREM SkippedAreMissingHolds == Spec => []SkippedAreMissing
<1>1. ASSUME IInv PROVE SkippedAreMissing
    <2> SUFFICES ASSUME NEW d \in Device, NEW e \in DOMAIN sessions[d]
                 PROVE  LET r == sessions[d][e] IN
                        DOMAIN r.skipped =
                          {i \in 0 .. r.recvN - 1 : Message(e, d, i) \notin opened[d]}
        BY DEF SkippedAreMissing
    <2>1p. PICK pos \in Nat : \E last : SessionAt(d, e, pos, last)
        BY <1>1 DEF IInv, SessionInv
    <2>1. PICK last : SessionAt(d, e, pos, last)
        BY <2>1p
    <2>2. QED BY <2>1 DEF SessionAt, RatchetOf, RatchetWith, KeysAt, Missing
<1>2. QED BY <1>1, Invariance, PTL

\* On one session a device seals each of its envelopes with a key of its own,
\* whatever root keys the callers pass.
THEOREM OneKeyPerSessionHolds == Spec => []OneKeyPerSession
<1>1. ASSUME IInv PROVE OneKeyPerSession
    <2> SUFFICES ASSUME NEW e1 \in network, NEW e2 \in network, e1.key = e2.key,
                        e1.body.from = e2.body.from, e1.body.to = e2.body.to
                 PROVE  e1 = e2
        BY DEF OneKeyPerSession
    <2>1. PICK c1 \in Contacts, n1 \in Nat : e1 = EnvelopeOf(c1[1], c1[2], n1)
        BY <1>1 DEF IInv, NetworkInv
    <2>2. PICK c2 \in Contacts, n2 \in Nat : e2 = EnvelopeOf(c2[1], c2[2], n2)
        BY <1>1 DEF IInv, NetworkInv
    <2>3. c1[1] = c2[1] /\ c1[2] = c2[2]
        BY <2>1, <2>2 DEF EnvelopeOf, Message
    <2>4. Key(c1[1], c1[2], n1) = Key(c2[1], c2[2], n2)
        BY <2>1, <2>2 DEF EnvelopeOf
    <2>5. n1 = n2
        BY <2>3, <2>4, KeyInjective
    <2>6. QED BY <2>1, <2>2, <2>3, <2>5
<1>2. QED BY <1>1, Invariance, PTL

\* Which envelopes share a key: those of one number whose pairs of devices were
\* given one root key.
KeysCoincide ==
    \A e1, e2 \in network :
        e1.key = e2.key <=> /\ e1.num = e2.num
                            /\ RootSecret(e1.body.from, e1.body.to)
                                  = RootSecret(e2.body.from, e2.body.to)

\* How far message keys are from being unique (NoKeyReuse).  The n-th messages of
\* the two directions of a session are sealed with one key.  If the callers pass
\* one root key for every pair, as the desktop client does, so are the n-th
\* messages of all devices to all their contacts; if each pair has its own, no
\* others are.
THEOREM KeysCoincideHolds == Spec => []KeysCoincide
<1>1. ASSUME IInv PROVE KeysCoincide
    <2> SUFFICES ASSUME NEW e1 \in network, NEW e2 \in network
                 PROVE  e1.key = e2.key <=>
                            /\ e1.num = e2.num
                            /\ RootSecret(e1.body.from, e1.body.to)
                                  = RootSecret(e2.body.from, e2.body.to)
        BY DEF KeysCoincide
    <2>1. PICK c1 \in Contacts, n1 \in Nat : e1 = EnvelopeOf(c1[1], c1[2], n1)
        BY <1>1 DEF IInv, NetworkInv
    <2>2. PICK c2 \in Contacts, n2 \in Nat : e2 = EnvelopeOf(c2[1], c2[2], n2)
        BY <1>1 DEF IInv, NetworkInv
    <2>3. /\ e1.key = Key(c1[1], c1[2], n1) /\ e1.num = n1
          /\ e1.body.from = c1[1] /\ e1.body.to = c1[2]
        BY <2>1 DEF EnvelopeOf, Message
    <2>4. /\ e2.key = Key(c2[1], c2[2], n2) /\ e2.num = n2
          /\ e2.body.from = c2[1] /\ e2.body.to = c2[2]
        BY <2>2 DEF EnvelopeOf, Message
    <2>5. ASSUME NEW r1, NEW r2
          PROVE  ChainKey(FreshRoot(r1), "root", n1) = ChainKey(FreshRoot(r2), "root", n2)
                    <=> n1 = n2 /\ r1 = r2
        BY DEF ChainKey, FreshRoot
    <2>6. QED BY <2>3, <2>4, <2>5 DEF Key
<1>2. QED BY <1>1, Invariance, PTL

\* With every envelope delivered once, dispatchers do nothing they would not do
\* over a transport that repeats and misdelivers: what Spec guarantees, and so
\* every theorem above and Refinement below, holds of SingleDelivery too.
THEOREM SingleDeliveryImplements == DeliverySpec => Spec
<1> DEFINE Due == due \subseteq network
<1>1. DeliveryInit => Init /\ Due
    BY DEF DeliveryInit
<1>2. ASSUME Due, [DeliveryNext]_deliveryVars PROVE [Next]_vars /\ Due'
    <2>1. CASE \E d \in Device : (RegisterDevice(d) \/ SetOnInbound(d)) /\ UNCHANGED due
        BY <1>2, <2>1 DEF Next, RegisterDevice, SetOnInbound
    <2>2. CASE \E c \in Contacts : OpenSession(c[1], c[2]) /\ UNCHANGED due
        BY <1>2, <2>2 DEF Next, OpenSession, CreateSessionWith
    <2>3. CASE \E c \in Contacts : SendOnce(c[1], c[2])
        <3>1. PICK c \in Contacts : SendOnce(c[1], c[2])
            BY <2>3
        <3>2. network \subseteq network' /\ due' = due \cup (network' \ network)
            BY <3>1 DEF SendOnce, SendMessageToDevice
        <3>3. QED BY <1>2, <2>3, <3>2 DEF Next, SendOnce
    <2>4. ASSUME NEW c \in Contacts, NEW n, DeliverOnce(c[1], c[2], n) PROVE [Next]_vars /\ Due'
        <3>1. PICK env \in due : /\ due' = due \ {env}
                                 /\ OnRawMessage(c[2], env) \/ UNCHANGED vars
            BY <2>4 DEF DeliverOnce
        <3>2. c[2] \in Device /\ env \in network
            BY <1>2, ContactsAssumption
        <3>3. network' = network
            BY <3>1 DEF OnRawMessage, vars
        <3>4. QED BY <1>2, <3>1, <3>2, <3>3 DEF Next
    <2>5. CASE \E d \in Device, env \in network : OnRawMessage(d, env) /\ UNCHANGED due
        BY <1>2, <2>5 DEF Next, OnRawMessage
    <2>6. CASE UNCHANGED deliveryVars
        BY <1>2, <2>6 DEF deliveryVars, vars
    <2>7. QED BY <1>2, <2>1, <2>2, <2>3, <2>4, <2>5, <2>6 DEF DeliveryNext
<1>3. QED BY <1>1, <1>2, PTL DEF DeliverySpec, Spec
----------------------------------------------------------------------------
Posted == {env.body : env \in network}

Taken == UNION {opened[d] : d \in Device}

\* A message sent is one the channel may post, and a new one.
LEMMA SendPosts ==
    ASSUME IInv, NEW c \in Contacts, SendMessageToDevice(c[1], c[2])
    PROVE  Channel!Next
<1>k. PICK k \in Nat : k = sent[c]
    BY DEF IInv, Shapes
<1> DEFINE d == c[1]
           e == c[2]
           m == Message(d, e, k)
<1>1. d \in Device /\ e \in Device /\ c = <<d, e>>
    BY ContactsAssumption
<1>2. k \in 0 .. MaxSent[c]
    BY <1>1, <1>k, BoundsAssumption DEF SendMessageToDevice, IInv, Shapes
<1>3. m \in UNION {{Message(p[1], p[2], n) : n \in 0 .. MaxSent[p]} : p \in Contacts}
    BY <1>1, <1>2
<1>4. m \notin Posted
    <2> SUFFICES ASSUME NEW env \in network, env.body = m PROVE FALSE
        BY DEF Posted
    <2>1. PICK c0 \in Contacts, n \in Nat :
                n < sent[c0] /\ env = EnvelopeOf(c0[1], c0[2], n)
        BY DEF IInv, NetworkInv
    <2>2. c0[1] = d /\ c0[2] = e /\ n = k
        BY <2>1 DEF EnvelopeOf, Message
    <2>3. c0 = c
        BY <1>1, <2>2, ContactsAssumption
    <2>4. QED BY <1>k, <2>1, <2>2, <2>3 DEF IInv, Shapes
<1>5. Posted' = Posted \cup {m}
    <2> DEFINE env == Sealed(sessions[d][e], NoSession, deviceId[d], m)
    <2>1. network' = network \cup {env}
        BY <1>1, <1>k DEF SendMessageToDevice
    <2>2. env.body = m
        BY DEF Sealed
    <2> HIDE DEF env
    <2>3. QED BY <2>1, <2>2 DEF Posted
<1>6. Taken' = Taken /\ handed' = handed
    BY DEF SendMessageToDevice, Taken
<1>7. Channel!Post(m)
    BY <1>4, <1>5, <1>6 DEF Channel!Post, Posted, Taken
<1>8. QED BY <1>3, <1>7 DEF Channel!Next

\* An envelope received takes a message off the channel, or does nothing to it.
LEMMA ReceiveTakes ==
    ASSUME IInv, NEW d \in Device, NEW env \in network, OnRawMessage(d, env)
    PROVE  Channel!Next \/ UNCHANGED Channel!cvars
<1>1. PICK c \in Contacts, n \in Nat : n < sent[c] /\ env = EnvelopeOf(c[1], c[2], n)
    BY DEF IInv, NetworkInv
<1> DEFINE s == c[1]
           msg == Message(s, d, n)
<1>2. s \in DOMAIN sessions[d] /\ env.body = Message(s, c[2], n)
    BY <1>1 DEF EnvelopeOf, OnRawMessage
<1>3. \/ opened' = opened /\ handed' = handed
      \/ /\ c[2] = d /\ msg \notin opened[d]
         /\ opened' = [opened EXCEPT ![d] = @ \cup {msg}]
         /\ handed' \in {handed, [handed EXCEPT ![d] = Append(@, msg)]}
    BY <1>1, <1>2, ReceiveEffect
<1>4. Posted' = Posted
    BY DEF OnRawMessage, Posted
<1>5. CASE opened' = opened /\ handed' = handed
    BY <1>4, <1>5 DEF Channel!cvars, Posted
<1>6. CASE /\ c[2] = d /\ msg \notin opened[d]
           /\ opened' = [opened EXCEPT ![d] = @ \cup {msg}]
           /\ handed' \in {handed, [handed EXCEPT ![d] = Append(@, msg)]}
    <2>1. msg.to = d
        BY DEF Message
    <2>2. msg \in Posted
        BY <1>2, <1>6 DEF Posted
    <2>3. \A d0 \in Device : msg \in opened[d0] => d0 = d
        BY DEF IInv, OpenedInv, Message
    <2>4. msg \notin Taken
        BY <1>6, <2>3 DEF Taken
    <2>5. Taken' = Taken \cup {msg}
        <3>1. \A d0 \in Device :
                opened'[d0] = IF d0 = d THEN opened[d] \cup {msg} ELSE opened[d0]
            BY <1>6 DEF IInv, Shapes
        <3>2. QED BY <3>1 DEF Taken
    <2>6. n \in 0 .. MaxSent[c] /\ msg = Message(c[1], c[2], n)
        BY <1>1, <1>6, BoundsAssumption DEF IInv, Shapes
    <2>7. msg \in UNION {{Message(p[1], p[2], i) : i \in 0 .. MaxSent[p]} : p \in Contacts}
        BY <2>6
    <2>8. handed' \in {handed, [handed EXCEPT ![msg.to] = Append(@, msg)]}
        BY <1>6, <2>1
    <2>9. Channel!Take(msg)
        BY <1>4, <2>2, <2>4, <2>5, <2>8 DEF Channel!Take, Posted, Taken
    <2>10. QED BY <2>7, <2>9 DEF Channel!Next
<1>7. QED BY <1>3, <1>5, <1>6

\* Dispatchers used as the desktop client uses them are the channel that
\* SecureChannel describes.
THEOREM Refinement == Spec => ImplementsChannel
<1>1. Init => Channel!Init
    <2>1. ASSUME Init PROVE Posted = {} /\ Taken = {} /\ handed = [d \in Device |-> <<>>]
        BY <2>1 DEF Init, Posted, Taken
    <2>2. QED BY <2>1 DEF Channel!Init, Posted, Taken
<1>2. ASSUME IInv, [Next]_vars PROVE [Channel!Next]_(Channel!cvars)
    <2>1. CASE \E d \in Device : RegisterDevice(d) \/ SetOnInbound(d)
        BY <2>1 DEF RegisterDevice, SetOnInbound, Channel!cvars
    <2>2. CASE \E c \in Contacts : OpenSession(c[1], c[2])
        <3>1. PICK c \in Contacts : OpenSession(c[1], c[2])
            BY <2>2
        <3>2. opened' = opened
            BY <1>2, <3>1, FirstSession
        <3>3. QED BY <3>1, <3>2 DEF OpenSession, CreateSessionWith, Channel!cvars
    <2>3. CASE \E c \in Contacts : SendMessageToDevice(c[1], c[2])
        BY <1>2, <2>3, SendPosts
    <2>4. CASE \E d \in Device, env \in network : OnRawMessage(d, env)
        BY <1>2, <2>4, ReceiveTakes
    <2>5. CASE UNCHANGED vars
        BY <2>5 DEF vars, Channel!cvars
    <2>6. QED BY <1>2, <2>1, <2>2, <2>3, <2>4, <2>5 DEF Next
<1>3. QED BY <1>1, <1>2, Invariance, PTL DEF Spec, ImplementsChannel, Channel!Spec
----------------------------------------------------------------------------
(***************************************************************************)
(* Processes that restart and sessions opened before registration.         *)
(* Ratchets may turn here, at either end alone, so a ratchet is no longer  *)
(* a function of a few numbers.  The invariant RestartInv keeps apart the  *)
(* keys of the common chain, which both ends derive, and those of chains   *)
(* the DH ratchet derived, which are labelled by direction.                *)
(***************************************************************************)
\* The fields of a ratchet.
FieldNames == {"pub", "root", "sendChain", "recvChain", "sendN", "recvN",
               "lastRemote", "sid", "skipped"}

\* The public keys that processes draw.
Pubs == [owner : Device, peer : Device, boot : Nat]

\* The DH ratchet has not turned.
Fresh(r, d, e) == r.root = FreshRoot(RootSecret(d, e))

\* A chain key with that label.
IsChain(k, label) == k = ChainKey(k.root, label, k.pos)

\* d's ratchet for e, whatever either has been through: until it turns, both chains
\* are the common one, and its keys are put aside by their numbers.
GoodRatchet(r, d, e) ==
    /\ DOMAIN r = FieldNames
    /\ r.sendN \in Nat /\ r.recvN \in Nat
    /\ r.root = [secret |-> RootSecret(d, e), mixed |-> r.root.mixed]
    /\ r.root.mixed \in Seq(SUBSET Pubs)
    /\ IF Fresh(r, d, e)
       THEN /\ r.sendChain = Key(d, e, r.sendN) /\ r.recvChain = Key(d, e, r.recvN)
            /\ \A i \in DOMAIN r.skipped : i < r.recvN
       ELSE IsChain(r.sendChain, "SendChain") /\ IsChain(r.recvChain, "RecvChain")
    /\ \A i \in DOMAIN r.skipped :
          i \in Nat /\ (r.skipped[i] = Key(d, e, i) \/ r.skipped[i].label = "RecvChain")

\* It still has the common chain's i-th key, or can derive it.
HasKey(r, d, e, i) ==
    \/ i \in DOMAIN r.skipped /\ r.skipped[i] = Key(d, e, i)
    \/ Fresh(r, d, e) /\ i >= r.recvN

\* The session ids d can have for e: it may not have registered yet.
SessionIds(d, e) == {SessionId(own, e, RootSecret(d, e)) : own \in {d, NoId}}

\* One more than e has sent on its session with d, or 0 if it has none.
Reach(e, d) == IF d \in DOMAIN sessions[e] THEN sessions[e][d].sendN + 1 ELSE 0

\* What an unturned ratchet has received comes from one key pair of the peer, and if
\* that is the peer's current one, not from beyond what the peer has sent.
Heard(r, d, e, boots, reach) ==
    Fresh(r, d, e) =>
        \/ r.lastRemote = NoKey /\ r.recvN = 0
        \/ \E b \in 0 .. boots : /\ r.lastRemote = KeyPair(e, d, b)
                                 /\ b = boots => r.recvN < reach

\* d's ratchet for e, when d's process has restarted own times and e's boots times.
GoodLink(r, d, e, own, boots, reach) ==
    /\ GoodRatchet(r, d, e)
    /\ r.pub = KeyPair(d, e, own)
    /\ r.sid \in SessionIds(d, e)
    /\ Heard(r, d, e, boots, reach)

LinksInv ==
    \A d \in Device : \A e \in DOMAIN sessions[d] :
        /\ <<d, e>> \in Contacts
        /\ GoodLink(sessions[d][e], d, e, restarts[d], restarts[e], Reach(e, d))

\* An envelope that s sealed for d, when s has restarted boots times and sent count
\* messages to d.
SealedBy(env, s, d, boots, reach, count) ==
    /\ env.body = Message(s, d, env.body.n)
    /\ env.body.n \in Nat /\ env.body.n < count
    /\ env.sender \in {s, NoId} /\ env.sid \in SessionIds(s, d)
    /\ env.num \in Nat
    /\ env.key = Key(s, d, env.num) \/ env.key.label = "SendChain"
    /\ \E b \in 0 .. boots : /\ env.pub = KeyPair(s, d, b)
                             /\ b = boots => env.num + 1 < reach

SealedInv ==
    /\ \A env \in network : \E c \in Contacts :
          SealedBy(env, c[1], c[2], restarts[c[1]], Reach(c[1], c[2]), sent[c])
    /\ \A e1, e2 \in network : e1.body = e2.body => e1 = e2

\* A key that has opened an envelope is gone.
UsedInv ==
    \A d \in Device : \A m \in opened[d] :
        /\ m.from \in DOMAIN sessions[d]
        /\ \E env \in network :
              env.body = m /\ ~HasKey(sessions[d][m.from], d, m.from, env.num)

RestartShapes ==
    /\ deviceId \in [Device -> Device \cup {NoId}]
    /\ \A d \in Device : deviceId[d] \in {d, NoId}
    /\ DOMAIN sessions = Device
    /\ \A d \in Device : DOMAIN sessions[d] \subseteq Device
    /\ restarts \in [Device -> Nat] /\ \A d \in Device : restarts[d] <= MaxRestarts
    /\ sent \in [Contacts -> Nat]
    /\ DOMAIN opened = Device
    /\ handed \in [Device -> Seq(Messages)]

RestartInv == RestartShapes /\ LinksInv /\ SealedInv /\ UsedInv
----------------------------------------------------------------------------
\* What following a public key leaves of a ratchet.
LEMMA FollowEffect ==
    ASSUME NEW r, DOMAIN r = FieldNames, NEW pub
    PROVE  LET q == FollowRemote(r, pub)
               root == MixIn(r.root, DhCompute(r.pub, pub)) IN
           /\ DOMAIN q = FieldNames /\ q.lastRemote = pub
           /\ q.pub = r.pub /\ q.sid = r.sid /\ q.sendN = r.sendN
           /\ q.skipped = r.skipped
           /\ IF r.lastRemote \in {NoKey, pub}
              THEN /\ q.root = r.root /\ q.recvN = r.recvN
                   /\ q.sendChain = r.sendChain /\ q.recvChain = r.recvChain
              ELSE /\ q.root = root /\ q.recvN = 0
                   /\ q.sendChain = ChainKey(root, "SendChain", 0)
                   /\ q.recvChain = ChainKey(root, "RecvChain", 0)
<1>1. CASE r.lastRemote \in {NoKey, pub}
    BY <1>1 DEF FollowRemote, FieldNames
<1>2. CASE r.lastRemote \notin {NoKey, pub}
    BY <1>2 DEF FollowRemote, HkdfRootChain, FieldNames
<1>3. QED BY <1>1, <1>2

\* What moving up to a message's number leaves of a ratchet.
LEMMA SkipEffect ==
    ASSUME NEW r, DOMAIN r = FieldNames, NEW num, ~ (num <= r.recvN)
    PROVE  LET q == SkipTo(r, num) IN
           /\ DOMAIN q = FieldNames /\ q.lastRemote = r.lastRemote
           /\ q.pub = r.pub /\ q.sid = r.sid /\ q.sendN = r.sendN
           /\ q.root = r.root /\ q.sendChain = r.sendChain
           /\ q.recvN = num /\ q.recvChain = AdvanceBy(r.recvChain, num - r.recvN)
           /\ q.skipped = [i \in DOMAIN r.skipped \cup r.recvN .. num - 1 |->
                              IF i \in DOMAIN r.skipped THEN r.skipped[i]
                              ELSE AdvanceBy(r.recvChain, i - r.recvN)]
BY DEF SkipTo, FieldNames

\* It keeps who the two ends are and what was sent.
LEMMA SkipKeeps ==
    ASSUME NEW r, DOMAIN r = FieldNames, NEW num
    PROVE  LET q == SkipTo(r, num) IN
           q.lastRemote = r.lastRemote /\ q.pub = r.pub /\ q.sid = r.sid /\ q.sendN = r.sendN
BY DEF SkipTo, FieldNames

\* What taking the next key of the receiving chain leaves of a ratchet.
LEMMA TakeEffect ==
    ASSUME NEW r, DOMAIN r = FieldNames, NEW n
    PROVE  LET q == [r EXCEPT !.recvChain = AdvanceBy(@, 1), !.recvN = n + 1] IN
           /\ DOMAIN q = FieldNames /\ q.lastRemote = r.lastRemote
           /\ q.pub = r.pub /\ q.sid = r.sid /\ q.sendN = r.sendN
           /\ q.root = r.root /\ q.sendChain = r.sendChain /\ q.skipped = r.skipped
           /\ q.recvN = n + 1 /\ q.recvChain = AdvanceBy(r.recvChain, 1)
BY DEF FieldNames

\* What erasing a skipped key leaves of a ratchet.
LEMMA DropEffect ==
    ASSUME NEW r, DOMAIN r = FieldNames, NEW n
    PROVE  LET q == DropSkipped(r, n) IN
           /\ DOMAIN q = FieldNames /\ q.lastRemote = r.lastRemote
           /\ q.pub = r.pub /\ q.sid = r.sid /\ q.sendN = r.sendN
           /\ q.root = r.root /\ q.sendChain = r.sendChain
           /\ q.recvN = r.recvN /\ q.recvChain = r.recvChain
           /\ q.skipped = [i \in DOMAIN r.skipped \ {n} |-> r.skipped[i]]
BY DEF DropSkipped, FieldNames

\* Advancing a chain changes its position only.
LEMMA ChainAdvances ==
    ASSUME NEW root, NEW label, NEW pos, NEW n
    PROVE  AdvanceBy(ChainKey(root, label, pos), n) = ChainKey(root, label, pos + n)
BY DEF AdvanceBy, ChainKey

\* A key of the common chain is none of a chain the DH ratchet derived.
LEMMA Labels ==
    ASSUME NEW d, NEW e, NEW n
    PROVE  Key(d, e, n).label = "root"
BY DEF Key, ChainKey

\* A root key that a secret was mixed into is not the one a session starts with.
LEMMA MixedRoot ==
    ASSUME NEW d, NEW e, NEW root, NEW s \in SUBSET Pubs,
           root = [secret |-> RootSecret(d, e), mixed |-> root.mixed],
           root.mixed \in Seq(SUBSET Pubs)
    PROVE  /\ MixIn(root, s) = [secret |-> RootSecret(d, e), mixed |-> Append(root.mixed, s)]
           /\ Append(root.mixed, s) \in Seq(SUBSET Pubs)
           /\ MixIn(root, s) # FreshRoot(RootSecret(d, e))
<1>1. MixIn(root, s) = [secret |-> RootSecret(d, e), mixed |-> Append(root.mixed, s)]
    BY DEF MixIn
<1>2. Append(root.mixed, s) \in Seq(SUBSET Pubs) /\ Append(root.mixed, s) # <<>>
    OBVIOUS
<1>3. MixIn(root, s) # FreshRoot(RootSecret(d, e))
    BY <1>1, <1>2 DEF FreshRoot
<1>4. QED BY <1>1, <1>2, <1>3

\* A ratchet that follows a public key stays good, gains no key, and is fresh only
\* if it did not turn.
LEMMA FollowGood ==
    ASSUME NEW d, NEW e, NEW r, GoodRatchet(r, d, e), NEW pub \in Pubs, r.pub \in Pubs
    PROVE  LET q == FollowRemote(r, pub) IN
           /\ GoodRatchet(q, d, e)
           /\ Fresh(q, d, e) <=> Fresh(r, d, e) /\ r.lastRemote \in {NoKey, pub}
           /\ Fresh(q, d, e) => q.recvN = r.recvN
           /\ \A i : HasKey(q, d, e, i) => HasKey(r, d, e, i)
<1> DEFINE q == FollowRemote(r, pub)
           root == MixIn(r.root, DhCompute(r.pub, pub))
<1> SUFFICES /\ GoodRatchet(q, d, e)
             /\ Fresh(q, d, e) <=> Fresh(r, d, e) /\ r.lastRemote \in {NoKey, pub}
             /\ Fresh(q, d, e) => q.recvN = r.recvN
             /\ \A i : HasKey(q, d, e, i) => HasKey(r, d, e, i)
    OBVIOUS
<1>1. DOMAIN r = FieldNames
    BY DEF GoodRatchet
<1>2. /\ DOMAIN q = FieldNames /\ q.sendN = r.sendN /\ q.skipped = r.skipped
      /\ IF r.lastRemote \in {NoKey, pub}
         THEN /\ q.root = r.root /\ q.recvN = r.recvN
              /\ q.sendChain = r.sendChain /\ q.recvChain = r.recvChain
         ELSE /\ q.root = root /\ q.recvN = 0
              /\ q.sendChain = ChainKey(root, "SendChain", 0)
              /\ q.recvChain = ChainKey(root, "RecvChain", 0)
    BY <1>1, FollowEffect
<1>3. CASE r.lastRemote \in {NoKey, pub}
    <2> HIDE DEF q
    <2>1. GoodRatchet(q, d, e)
        BY <1>2, <1>3 DEF GoodRatchet, Fresh
    <2>2. QED BY <1>2, <1>3, <2>1 DEF HasKey, Fresh
<1>4. CASE r.lastRemote \notin {NoKey, pub}
    <2>1. /\ q.root = root /\ q.recvN = 0
          /\ q.sendChain = ChainKey(root, "SendChain", 0)
          /\ q.recvChain = ChainKey(root, "RecvChain", 0)
        BY <1>2, <1>4
    <2>2. DhCompute(r.pub, pub) \in SUBSET Pubs
        BY DEF DhCompute
    <2>3. /\ root = [secret |-> RootSecret(d, e), mixed |-> root.mixed]
          /\ root.mixed \in Seq(SUBSET Pubs)
          /\ root # FreshRoot(RootSecret(d, e))
        <3>1. r.root = [secret |-> RootSecret(d, e), mixed |-> r.root.mixed]
            BY DEF GoodRatchet
        <3>2. r.root.mixed \in Seq(SUBSET Pubs)
            BY DEF GoodRatchet
        <3> DEFINE m == Append(r.root.mixed, DhCompute(r.pub, pub))
        <3>3. /\ root = [secret |-> RootSecret(d, e), mixed |-> m]
              /\ m \in Seq(SUBSET Pubs)
              /\ root # FreshRoot(RootSecret(d, e))
            BY <2>2, <3>1, <3>2, MixedRoot
        <3> HIDE DEF m, root
        <3>4. QED BY <3>3
    <2> HIDE DEF q, root
    <2>4. ~ Fresh(q, d, e)
        BY <2>1, <2>3 DEF Fresh
    <2>5. IsChain(q.sendChain, "SendChain") /\ IsChain(q.recvChain, "RecvChain")
        BY <2>1 DEF IsChain, ChainKey
    <2>6. GoodRatchet(q, d, e)
        BY <1>2, <2>1, <2>3, <2>4, <2>5 DEF GoodRatchet
    <2>7. QED BY <1>2, <1>4, <2>4, <2>6 DEF HasKey
<1>5. QED BY <1>3, <1>4

\* So does one that puts keys aside to move up to a number.
LEMMA SkipGood ==
    ASSUME NEW d, NEW e, NEW r, GoodRatchet(r, d, e), NEW num \in Nat
    PROVE  LET q == SkipTo(r, num) IN
           /\ GoodRatchet(q, d, e)
           /\ Fresh(q, d, e) <=> Fresh(r, d, e)
           /\ q.recvN = r.recvN \/ q.recvN = num
           /\ num <= q.recvN
           /\ \A i \in Nat : HasKey(q, d, e, i) => HasKey(r, d, e, i)
<1> DEFINE q == SkipTo(r, num)
<1> SUFFICES /\ GoodRatchet(q, d, e)
             /\ Fresh(q, d, e) <=> Fresh(r, d, e)
             /\ q.recvN = r.recvN \/ q.recvN = num
             /\ num <= q.recvN
             /\ \A i \in Nat : HasKey(q, d, e, i) => HasKey(r, d, e, i)
    OBVIOUS
<1>1. CASE num <= r.recvN
    BY <1>1 DEF SkipTo
<1>2. CASE ~ (num <= r.recvN)
    <2>0. DOMAIN r = FieldNames /\ r.recvN \in Nat
        BY DEF GoodRatchet
    <2>1. /\ DOMAIN q = FieldNames /\ q.sendN = r.sendN
          /\ q.root = r.root /\ q.sendChain = r.sendChain
          /\ q.recvN = num /\ q.recvChain = AdvanceBy(r.recvChain, num - r.recvN)
          /\ q.skipped = [i \in DOMAIN r.skipped \cup r.recvN .. num - 1 |->
                             IF i \in DOMAIN r.skipped THEN r.skipped[i]
                             ELSE AdvanceBy(r.recvChain, i - r.recvN)]
        BY <1>2, <2>0, SkipEffect
    <2> HIDE DEF q
    <2>2. Fresh(q, d, e) <=> Fresh(r, d, e)
        BY <2>1 DEF Fresh
    <2>3. ASSUME Fresh(r, d, e), NEW n \in Nat, n >= r.recvN
          PROVE  AdvanceBy(r.recvChain, n - r.recvN) = Key(d, e, n)
        <3>1. r.recvChain = Key(d, e, r.recvN)
            BY <2>3 DEF GoodRatchet
        <3>2. AdvanceBy(Key(d, e, r.recvN), n - r.recvN) = Key(d, e, r.recvN + (n - r.recvN))
            BY ChainAdvances DEF Key
        <3>3. r.recvN + (n - r.recvN) = n
            BY <2>0
        <3>4. QED BY <3>1, <3>2, <3>3
    <2>4. ASSUME ~ Fresh(r, d, e), NEW n
          PROVE  IsChain(AdvanceBy(r.recvChain, n), "RecvChain")
        <3>1. IsChain(r.recvChain, "RecvChain")
            BY <2>4 DEF GoodRatchet
        <3> DEFINE k == r.recvChain
        <3>2. AdvanceBy(k, n) = ChainKey(k.root, "RecvChain", k.pos + n)
            BY <3>1, ChainAdvances DEF IsChain
        <3> HIDE DEF k
        <3>3. QED BY <3>2 DEF IsChain, ChainKey, k
    <2>5. /\ Fresh(r, d, e) => q.recvChain = Key(d, e, q.recvN)
          /\ ~ Fresh(r, d, e) => IsChain(q.recvChain, "RecvChain")
        BY <1>2, <2>0, <2>1, <2>3, <2>4
    <2>6. ASSUME NEW i \in DOMAIN q.skipped, i \notin DOMAIN r.skipped
          PROVE  /\ i \in Nat /\ r.recvN <= i /\ i < num
                 /\ q.skipped[i] = AdvanceBy(r.recvChain, i - r.recvN)
        BY <2>0, <2>1, <2>6
    <2>7. ASSUME NEW i \in DOMAIN r.skipped
          PROVE  i \in DOMAIN q.skipped /\ q.skipped[i] = r.skipped[i]
        BY <2>1
    <2>8. ASSUME NEW i \in DOMAIN q.skipped
          PROVE  /\ i \in Nat
                 /\ q.skipped[i] = Key(d, e, i) \/ q.skipped[i].label = "RecvChain"
                 /\ Fresh(r, d, e) => i < num
        <3>1. CASE i \in DOMAIN r.skipped
            <4>1. i \in Nat /\ (r.skipped[i] = Key(d, e, i) \/ r.skipped[i].label = "RecvChain")
                BY <3>1 DEF GoodRatchet
            <4>2. Fresh(r, d, e) => i < r.recvN
                BY <3>1 DEF GoodRatchet
            <4>3. QED BY <1>2, <2>0, <2>7, <3>1, <4>1, <4>2
        <3>2. CASE i \notin DOMAIN r.skipped
            <4>1. CASE Fresh(r, d, e)
                BY <2>3, <2>6, <2>0, <3>2, <4>1
            <4>2. CASE ~ Fresh(r, d, e)
                <5>1. IsChain(q.skipped[i], "RecvChain")
                    BY <2>4, <2>6, <3>2, <4>2
                <5>2. q.skipped[i].label = "RecvChain"
                    BY <5>1 DEF IsChain, ChainKey
                <5>3. QED BY <2>6, <3>2, <4>2, <5>2
            <4>3. QED BY <4>1, <4>2
        <3>3. QED BY <3>1, <3>2
    <2>9. GoodRatchet(q, d, e)
        <3>1. /\ q.root = [secret |-> RootSecret(d, e), mixed |-> q.root.mixed]
              /\ q.root.mixed \in Seq(SUBSET Pubs)
            BY <2>1 DEF GoodRatchet
        <3>2. q.sendN \in Nat /\ q.recvN \in Nat
            BY <2>1 DEF GoodRatchet
        <3>3. IF Fresh(q, d, e)
              THEN /\ q.sendChain = Key(d, e, q.sendN) /\ q.recvChain = Key(d, e, q.recvN)
                   /\ \A i \in DOMAIN q.skipped : i < q.recvN
              ELSE IsChain(q.sendChain, "SendChain") /\ IsChain(q.recvChain, "RecvChain")
            <4>1. CASE Fresh(r, d, e)
                <5>1. q.sendChain = Key(d, e, q.sendN)
                    BY <2>1, <4>1 DEF GoodRatchet
                <5>2. QED BY <2>1, <2>2, <2>5, <2>8, <4>1, <5>1
            <4>2. CASE ~ Fresh(r, d, e)
                <5>1. IsChain(q.sendChain, "SendChain")
                    BY <2>1, <4>2 DEF GoodRatchet
                <5>2. QED BY <2>2, <2>5, <4>2, <5>1
            <4>3. QED BY <4>1, <4>2
        <3>4. QED BY <2>1, <2>8, <3>1, <3>2, <3>3 DEF GoodRatchet
    <2>10. ASSUME NEW i \in Nat, HasKey(q, d, e, i)
           PROVE  HasKey(r, d, e, i)
        <3>1. CASE i \in DOMAIN q.skipped /\ q.skipped[i] = Key(d, e, i)
            <4>1. CASE i \in DOMAIN r.skipped
                BY <2>7, <3>1, <4>1 DEF HasKey
            <4>2. CASE i \notin DOMAIN r.skipped
                <5>1. CASE Fresh(r, d, e)
                    BY <2>0, <2>6, <3>1, <4>2, <5>1 DEF HasKey
                <5>2. CASE ~ Fresh(r, d, e)
                    <6>1. IsChain(Key(d, e, i), "RecvChain")
                        BY <2>4, <2>6, <3>1, <4>2, <5>2
                    <6>2. QED BY <6>1 DEF IsChain, ChainKey, Key
                <5>3. QED BY <5>1, <5>2
            <4>3. QED BY <4>1, <4>2
        <3>2. CASE Fresh(q, d, e) /\ i >= q.recvN
            BY <1>2, <2>0, <2>1, <2>2, <3>2 DEF HasKey
        <3>3. QED BY <2>10, <3>1, <3>2 DEF HasKey
    <2>11. QED BY <2>1, <2>2, <2>9, <2>10
<1>3. QED BY <1>1, <1>2

\* A ratchet about to authenticate a ciphertext.
LEMMA PreparedGood ==
    ASSUME NEW d, NEW e, NEW r, GoodRatchet(r, d, e), r.pub \in Pubs,
           NEW env, env.pub \in Pubs, env.num \in Nat
    PROVE  LET p == Prepared(r, env) IN
           /\ GoodRatchet(p, d, e)
           /\ p.pub = r.pub /\ p.sid = env.sid /\ p.sendN = r.sendN
           /\ p.lastRemote = env.pub
           /\ Fresh(p, d, e) <=> Fresh(r, d, e) /\ r.lastRemote \in {NoKey, env.pub}
           /\ Fresh(p, d, e) => p.recvN \in {r.recvN, env.num}
           /\ env.num <= p.recvN
           /\ \A i \in Nat : HasKey(p, d, e, i) => HasKey(r, d, e, i)
<1> DEFINE a == [r EXCEPT !.sid = env.sid]
           f == FollowRemote(a, env.pub)
           p == SkipTo(f, env.num)
<1> SUFFICES /\ GoodRatchet(p, d, e)
             /\ p.pub = r.pub /\ p.sid = env.sid /\ p.sendN = r.sendN
             /\ p.lastRemote = env.pub
             /\ Fresh(p, d, e) <=> Fresh(r, d, e) /\ r.lastRemote \in {NoKey, env.pub}
             /\ Fresh(p, d, e) => p.recvN \in {r.recvN, env.num}
             /\ env.num <= p.recvN
             /\ \A i \in Nat : HasKey(p, d, e, i) => HasKey(r, d, e, i)
    BY DEF Prepared
<1>1. DOMAIN r = FieldNames
    BY DEF GoodRatchet
<1>2. /\ DOMAIN a = FieldNames /\ a.sid = env.sid /\ a.pub = r.pub /\ a.root = r.root
      /\ a.sendChain = r.sendChain /\ a.recvChain = r.recvChain /\ a.sendN = r.sendN
      /\ a.recvN = r.recvN /\ a.lastRemote = r.lastRemote /\ a.skipped = r.skipped
    BY <1>1 DEF FieldNames
<1> HIDE DEF a
<1>3. GoodRatchet(a, d, e)
    BY <1>1, <1>2 DEF GoodRatchet, Fresh
<1>4. /\ GoodRatchet(f, d, e)
      /\ Fresh(f, d, e) <=> Fresh(a, d, e) /\ a.lastRemote \in {NoKey, env.pub}
      /\ Fresh(f, d, e) => f.recvN = a.recvN
      /\ \A i : HasKey(f, d, e, i) => HasKey(a, d, e, i)
    <2>1. a.pub \in Pubs
        BY <1>2
    <2>2. QED BY <1>3, <2>1, FollowGood
<1>5. /\ f.lastRemote = env.pub /\ f.pub = a.pub /\ f.sid = a.sid /\ f.sendN = a.sendN
    BY <1>2, FollowEffect
<1> HIDE DEF f
<1>6. /\ GoodRatchet(p, d, e)
      /\ Fresh(p, d, e) <=> Fresh(f, d, e)
      /\ p.recvN = f.recvN \/ p.recvN = env.num
      /\ env.num <= p.recvN
      /\ \A i \in Nat : HasKey(p, d, e, i) => HasKey(f, d, e, i)
    BY <1>4, SkipGood
<1>7. p.lastRemote = f.lastRemote /\ p.pub = f.pub /\ p.sid = f.sid /\ p.sendN = f.sendN
    <2>1. DOMAIN f = FieldNames
        BY <1>4 DEF GoodRatchet
    <2>2. QED BY <2>1, SkipKeeps
<1> HIDE DEF p
<1>8. \A i : HasKey(a, d, e, i) => HasKey(r, d, e, i)
    BY <1>2 DEF HasKey, Fresh
<1>9. Fresh(a, d, e) <=> Fresh(r, d, e)
    BY <1>2 DEF Fresh
<1>10. QED BY <1>2, <1>4, <1>5, <1>6, <1>7, <1>8, <1>9

\* What decrypt_envelope does to a good ratchet with an envelope of its session: it
\* gains no key, and the key that opens an envelope is one it had and has no more.
LEMMA DecryptGood ==
    ASSUME NEW d, NEW e, NEW r, GoodRatchet(r, d, e), r.pub \in Pubs,
           NEW env, env.pub \in Pubs, env.num \in Nat, ForThisSession(r, env),
           env.key = Key(d, e, env.num) \/ env.key.label = "SendChain"
    PROVE  LET q == AfterDecrypt(r, env) IN
           /\ GoodRatchet(q, d, e)
           /\ q.pub = r.pub /\ q.sid = env.sid /\ q.sendN = r.sendN
           /\ q.lastRemote = env.pub
           /\ Fresh(q, d, e) => /\ Fresh(r, d, e) /\ r.lastRemote \in {NoKey, env.pub}
                                /\ q.recvN \in {r.recvN, env.num, env.num + 1}
           /\ \A i \in Nat : HasKey(q, d, e, i) => HasKey(r, d, e, i)
           /\ Opens(r, env) => /\ env.key = Key(d, e, env.num)
                               /\ HasKey(r, d, e, env.num) /\ ~ HasKey(q, d, e, env.num)
<1> DEFINE p == Prepared(r, env)
           q == AfterDecrypt(r, env)
           n == env.num
<1> SUFFICES /\ GoodRatchet(q, d, e)
             /\ q.pub = r.pub /\ q.sid = env.sid /\ q.sendN = r.sendN
             /\ q.lastRemote = env.pub
             /\ Fresh(q, d, e) => /\ Fresh(r, d, e) /\ r.lastRemote \in {NoKey, env.pub}
                                  /\ q.recvN \in {r.recvN, n, n + 1}
             /\ \A i \in Nat : HasKey(q, d, e, i) => HasKey(r, d, e, i)
             /\ Opens(r, env) => /\ env.key = Key(d, e, n)
                                 /\ HasKey(r, d, e, n) /\ ~ HasKey(q, d, e, n)
    OBVIOUS
<1>1. /\ GoodRatchet(p, d, e)
      /\ p.pub = r.pub /\ p.sid = env.sid /\ p.sendN = r.sendN
      /\ p.lastRemote = env.pub
      /\ Fresh(p, d, e) <=> Fresh(r, d, e) /\ r.lastRemote \in {NoKey, env.pub}
      /\ Fresh(p, d, e) => p.recvN \in {r.recvN, n}
      /\ \A i \in Nat : HasKey(p, d, e, i) => HasKey(r, d, e, i)
    BY PreparedGood
<1>2. DOMAIN p = FieldNames /\ p.recvN \in Nat
    BY <1>1 DEF GoodRatchet
<1>3. Opens(r, env) <=> KeyTried(p, n) = env.key
    BY DEF Opens
<1>4. q = IF ~ Opens(r, env) THEN p
          ELSE IF n \in DOMAIN p.skipped THEN DropSkipped(p, n)
          ELSE [p EXCEPT !.recvChain = AdvanceBy(@, 1), !.recvN = n + 1]
    BY DEF AfterDecrypt
<1>5. CASE ~ Opens(r, env)
    BY <1>1, <1>4, <1>5
<1>6. CASE Opens(r, env) /\ n \in DOMAIN p.skipped
    <2>1. /\ DOMAIN q = FieldNames /\ q.lastRemote = p.lastRemote
          /\ q.pub = p.pub /\ q.sid = p.sid /\ q.sendN = p.sendN
          /\ q.root = p.root /\ q.sendChain = p.sendChain
          /\ q.recvN = p.recvN /\ q.recvChain = p.recvChain
          /\ q.skipped = [i \in DOMAIN p.skipped \ {n} |-> p.skipped[i]]
        <3>1. q = DropSkipped(p, n)
            BY <1>4, <1>6
        <3> HIDE DEF p, q, n
        <3>2. QED BY <1>2, <3>1, DropEffect
    <2>2. p.skipped[n] = env.key
        BY <1>3, <1>6 DEF KeyTried
    <2> HIDE DEF p, q
    <2>3. p.skipped[n] = Key(d, e, n) \/ p.skipped[n].label = "RecvChain"
        BY <1>1, <1>6 DEF GoodRatchet
    <2>4. env.key = Key(d, e, n)
        BY <2>2, <2>3, Labels
    <2>5. HasKey(p, d, e, n)
        BY <1>6, <2>2, <2>4 DEF HasKey
    <2>6. Fresh(q, d, e) <=> Fresh(p, d, e)
        BY <2>1 DEF Fresh
    <2>7. \A i \in DOMAIN q.skipped : i \in DOMAIN p.skipped /\ i # n
                                      /\ q.skipped[i] = p.skipped[i]
        BY <2>1
    <2>8. GoodRatchet(q, d, e)
        BY <1>1, <2>1, <2>6, <2>7 DEF GoodRatchet
    <2>9. ~ HasKey(q, d, e, n)
        <3>1. Fresh(p, d, e) => n < p.recvN
            BY <1>1, <1>6 DEF GoodRatchet
        <3>2. QED BY <1>2, <2>1, <2>6, <2>7, <3>1 DEF HasKey
    <2>10. \A i \in Nat : HasKey(q, d, e, i) => HasKey(p, d, e, i)
        BY <2>1, <2>6, <2>7 DEF HasKey
    <2>11. QED BY <1>1, <2>1, <2>4, <2>5, <2>6, <2>8, <2>9, <2>10
<1>7. CASE Opens(r, env) /\ n \notin DOMAIN p.skipped
    <2>1. /\ DOMAIN q = FieldNames /\ q.lastRemote = p.lastRemote
          /\ q.pub = p.pub /\ q.sid = p.sid /\ q.sendN = p.sendN
          /\ q.root = p.root /\ q.sendChain = p.sendChain /\ q.skipped = p.skipped
          /\ q.recvN = n + 1 /\ q.recvChain = AdvanceBy(p.recvChain, 1)
        <3>1. q = [p EXCEPT !.recvChain = AdvanceBy(@, 1), !.recvN = n + 1]
            BY <1>4, <1>7
        <3> HIDE DEF p, q, n
        <3>2. QED BY <1>2, <3>1, TakeEffect
    <2>2. p.recvChain = env.key
        BY <1>3, <1>7 DEF KeyTried
    <2> HIDE DEF p, q
    <2>3. Fresh(p, d, e) /\ p.recvChain = Key(d, e, p.recvN)
        <3>1. CASE ~ Fresh(p, d, e)
            <4>1. IsChain(p.recvChain, "RecvChain")
                BY <1>1, <3>1 DEF GoodRatchet
            <4>2. p.recvChain.label = "RecvChain"
                BY <4>1 DEF IsChain, ChainKey
            <4>3. QED BY <2>2, <4>2, Labels
        <3>2. QED BY <1>1, <3>1 DEF GoodRatchet
    <2>4. env.key = Key(d, e, n)
        BY <2>2, <2>3, Labels
    <2>5. p.recvN = n
        BY <2>2, <2>3, <2>4, KeyInjective
    <2>6. HasKey(p, d, e, n)
        BY <1>2, <2>3, <2>5 DEF HasKey
    <2>7. Fresh(q, d, e)
        BY <2>1, <2>3 DEF Fresh
    <2>8. q.recvChain = Key(d, e, n + 1)
        BY <2>1, <2>3, <2>5, ChainAdvances DEF Key
    <2>9. \A i \in DOMAIN q.skipped : i < q.recvN
        <3>1. \A i \in DOMAIN p.skipped : i \in Nat /\ i < n
            BY <1>1, <2>3, <2>5 DEF GoodRatchet
        <3>2. QED BY <2>1, <3>1
    <2>10. GoodRatchet(q, d, e)
        BY <1>1, <2>1, <2>3, <2>7, <2>8, <2>9 DEF GoodRatchet, Fresh
    <2>11. ~ HasKey(q, d, e, n)
        BY <1>7, <2>1 DEF HasKey
    <2>12. \A i \in Nat : HasKey(q, d, e, i) => HasKey(p, d, e, i)
        BY <2>1, <2>3, <2>5 DEF HasKey
    <2>13. QED BY <1>1, <2>1, <2>3, <2>4, <2>6, <2>10, <2>11, <2>12
<1>8. QED BY <1>5, <1>6, <1>7

\* A ratchet made and initialized for a session.
LEMMA StartGood ==
    ASSUME NEW d, NEW e, NEW pub, NEW sid
    PROVE  LET q == Initialize(NewRatchet(pub), RootSecret(d, e), sid) IN
           /\ GoodRatchet(q, d, e)
           /\ q.pub = pub /\ q.sid = sid /\ q.lastRemote = NoKey
           /\ q.recvN = 0 /\ q.sendN = 0
<1> DEFINE q == Initialize(NewRatchet(pub), RootSecret(d, e), sid)
<1>1. q = [pub |-> pub, root |-> FreshRoot(RootSecret(d, e)),
           sendChain |-> Key(d, e, 0), recvChain |-> Key(d, e, 0),
           sendN |-> 0, recvN |-> 0, lastRemote |-> NoKey, sid |-> sid,
           skipped |-> NoSkipped]
    BY DEF Initialize, NewRatchet, Key
<1> SUFFICES /\ GoodRatchet(q, d, e)
             /\ q.pub = pub /\ q.sid = sid /\ q.lastRemote = NoKey
             /\ q.recvN = 0 /\ q.sendN = 0
    OBVIOUS
<1> HIDE DEF q
<1>2. /\ DOMAIN q = FieldNames /\ q.root = FreshRoot(RootSecret(d, e))
      /\ q.sendChain = Key(d, e, 0) /\ q.recvChain = Key(d, e, 0)
      /\ q.sendN = 0 /\ q.recvN = 0 /\ q.skipped = NoSkipped
      /\ q.pub = pub /\ q.sid = sid /\ q.lastRemote = NoKey
    BY <1>1 DEF FieldNames
<1>3. DOMAIN q.skipped = {}
    BY <1>2 DEF NoSkipped
<1>4. /\ q.root = [secret |-> RootSecret(d, e), mixed |-> q.root.mixed]
      /\ q.root.mixed \in Seq(SUBSET Pubs)
    BY <1>2 DEF FreshRoot
<1>5. QED BY <1>2, <1>3, <1>4 DEF GoodRatchet, Fresh

\* Encrypting moves a good ratchet's sending side only, and seals with its next key.
LEMMA EncryptGood ==
    ASSUME NEW d, NEW e, NEW r, GoodRatchet(r, d, e), r.sid # NoSession
    PROVE  LET q == AfterEncrypt(r, NoSession) IN
           /\ GoodRatchet(q, d, e)
           /\ Fresh(q, d, e) <=> Fresh(r, d, e)
           /\ q.pub = r.pub /\ q.sid = r.sid /\ q.lastRemote = r.lastRemote
           /\ q.recvN = r.recvN /\ q.sendN = r.sendN + 1
           /\ \A i \in Nat : HasKey(q, d, e, i) <=> HasKey(r, d, e, i)
           /\ r.sendChain = Key(d, e, r.sendN) \/ r.sendChain.label = "SendChain"
<1> DEFINE q == AfterEncrypt(r, NoSession)
<1> SUFFICES /\ GoodRatchet(q, d, e)
             /\ Fresh(q, d, e) <=> Fresh(r, d, e)
             /\ q.pub = r.pub /\ q.sid = r.sid /\ q.lastRemote = r.lastRemote
             /\ q.recvN = r.recvN /\ q.sendN = r.sendN + 1
             /\ \A i \in Nat : HasKey(q, d, e, i) <=> HasKey(r, d, e, i)
             /\ r.sendChain = Key(d, e, r.sendN) \/ r.sendChain.label = "SendChain"
    OBVIOUS
<1>1. DOMAIN r = FieldNames /\ r.sendN \in Nat
    BY DEF GoodRatchet
<1>2. /\ DOMAIN q = FieldNames /\ q.root = r.root
      /\ q.sendChain = AdvanceBy(r.sendChain, 1) /\ q.recvChain = r.recvChain
      /\ q.sendN = r.sendN + 1 /\ q.recvN = r.recvN /\ q.skipped = r.skipped
      /\ q.pub = r.pub /\ q.sid = r.sid /\ q.lastRemote = r.lastRemote
    BY <1>1 DEF AfterEncrypt, SessionToUse, FieldNames
<1> HIDE DEF q
<1>3. Fresh(q, d, e) <=> Fresh(r, d, e)
    BY <1>2 DEF Fresh
<1>4. CASE Fresh(r, d, e)
    <2>1. r.sendChain = Key(d, e, r.sendN)
        BY <1>4 DEF GoodRatchet
    <2>2. q.sendChain = Key(d, e, q.sendN)
        BY <1>2, <2>1, ChainAdvances DEF Key
    <2>3. GoodRatchet(q, d, e)
        BY <1>1, <1>2, <1>3, <1>4, <2>2 DEF GoodRatchet
    <2>4. QED BY <1>2, <1>3, <2>1, <2>3 DEF HasKey
<1>5. CASE ~ Fresh(r, d, e)
    <2>1. IsChain(r.sendChain, "SendChain")
        BY <1>5 DEF GoodRatchet
    <2>2. r.sendChain.label = "SendChain"
        BY <2>1 DEF IsChain, ChainKey
    <2>3. IsChain(q.sendChain, "SendChain")
        <3> DEFINE k == r.sendChain
        <3>1. AdvanceBy(k, 1) = ChainKey(k.root, "SendChain", k.pos + 1)
            BY <2>1, ChainAdvances DEF IsChain
        <3> HIDE DEF k
        <3>2. QED BY <1>2, <3>1 DEF IsChain, ChainKey, k
    <2>4. GoodRatchet(q, d, e)
        BY <1>1, <1>2, <1>3, <1>5, <2>3 DEF GoodRatchet
    <2>5. QED BY <1>2, <1>3, <2>2, <2>4 DEF HasKey
<1>6. QED BY <1>4, <1>5

\* What a receiver heard stays true while its peer sends more or restarts.
LEMMA HeardLater ==
    ASSUME NEW r, NEW d, NEW e, NEW boots \in Nat, NEW reach \in Nat, r.recvN \in Nat,
           NEW later \in Nat, NEW further \in Nat,
           later > boots \/ (later = boots /\ reach <= further),
           Heard(r, d, e, boots, reach)
    PROVE  Heard(r, d, e, later, further)
<1> SUFFICES ASSUME Fresh(r, d, e), ~ (r.lastRemote = NoKey /\ r.recvN = 0)
             PROVE  \E b \in 0 .. later : /\ r.lastRemote = KeyPair(e, d, b)
                                          /\ b = later => r.recvN < further
    BY DEF Heard
<1>1. PICK b \in 0 .. boots : /\ r.lastRemote = KeyPair(e, d, b)
                              /\ b = boots => r.recvN < reach
    BY DEF Heard
<1>2. b \in 0 .. later /\ (b = later => r.recvN < further)
    BY <1>1
<1>3. QED BY <1>1, <1>2

\* So does what is known of an envelope.
LEMMA SealedLater ==
    ASSUME NEW env, NEW s, NEW d, NEW boots \in Nat, NEW reach \in Nat, NEW count \in Nat,
           NEW later \in Nat, NEW further \in Nat, NEW more \in Nat,
           later > boots \/ (later = boots /\ reach <= further), count <= more,
           SealedBy(env, s, d, boots, reach, count)
    PROVE  SealedBy(env, s, d, later, further, more)
<1>1. PICK b \in 0 .. boots : /\ env.pub = KeyPair(s, d, b)
                              /\ b = boots => env.num + 1 < reach
    BY DEF SealedBy
<1>2. env.num \in Nat /\ env.body.n \in Nat /\ env.body.n < count
    BY DEF SealedBy
<1>3. b \in 0 .. later /\ (b = later => env.num + 1 < further)
    BY <1>1, <1>2
<1>4. \E x \in 0 .. later : env.pub = KeyPair(s, d, x) /\ (x = later => env.num + 1 < further)
    BY <1>1, <1>3
<1>5. env.body.n < more
    BY <1>2
<1>6. QED BY <1>4, <1>5 DEF SealedBy

\* A key pair is of one start of one process.
LEMMA KeyPairInjective ==
    ASSUME NEW d, NEW e, NEW a, NEW b, KeyPair(d, e, a) = KeyPair(d, e, b)
    PROVE  a = b
BY DEF KeyPair
----------------------------------------------------------------------------
\* Every process restarts, or sends no less than before.
Onward ==
    \A d, e \in Device :
        /\ Reach(d, e) \in Nat /\ Reach(d, e)' \in Nat
        /\ \/ restarts'[d] > restarts[d]
           \/ restarts'[d] = restarts[d] /\ Reach(d, e) <= Reach(d, e)'

\* Links a step leaves alone stay good when the others are.
LEMMA LinksStep ==
    ASSUME RestartShapes, LinksInv, Onward, restarts' \in [Device -> Nat],
           \A d \in Device : DOMAIN sessions'[d] \subseteq Device,
           \A d \in Device : \A e \in DOMAIN sessions'[d] :
              \/ /\ e \in DOMAIN sessions[d] /\ sessions'[d][e] = sessions[d][e]
                 /\ restarts'[d] = restarts[d]
              \/ /\ <<d, e>> \in Contacts
                 /\ GoodLink(sessions'[d][e], d, e, restarts'[d], restarts'[e], Reach(e, d)')
    PROVE  LinksInv'
<1> SUFFICES ASSUME NEW d \in Device, NEW e \in DOMAIN sessions'[d]
             PROVE  /\ <<d, e>> \in Contacts
                    /\ GoodLink(sessions'[d][e], d, e, restarts'[d], restarts'[e], Reach(e, d)')
    BY DEF LinksInv
<1>1. CASE /\ e \in DOMAIN sessions[d] /\ sessions'[d][e] = sessions[d][e]
           /\ restarts'[d] = restarts[d]
    <2>1. PICK r : r = sessions[d][e]
        OBVIOUS
    <2>2. PICK reach : reach = Reach(e, d)
        OBVIOUS
    <2>3. PICK further : further = Reach(e, d)'
        OBVIOUS
    <2>4. /\ <<d, e>> \in Contacts /\ GoodLink(r, d, e, restarts[d], restarts[e], reach)
          /\ e \in Device
        BY <1>1, <2>1, <2>2 DEF LinksInv
    <2>5. reach \in Nat /\ further \in Nat
        BY <2>2, <2>3, <2>4 DEF Onward
    <2>6. restarts'[e] > restarts[e] \/ (restarts'[e] = restarts[e] /\ reach <= further)
        BY <2>2, <2>3, <2>4 DEF Onward
    <2>7. restarts[e] \in Nat /\ restarts'[e] \in Nat
        BY <2>4 DEF RestartShapes
    <2>8. r.recvN \in Nat
        BY <2>4 DEF GoodLink, GoodRatchet
    <2>9. Heard(r, d, e, restarts[e], reach)
        BY <2>4 DEF GoodLink
    <2>10. Heard(r, d, e, restarts'[e], further)
        BY <2>5, <2>6, <2>7, <2>8, <2>9, HeardLater
    <2>11. GoodLink(r, d, e, restarts'[d], restarts'[e], further)
        BY <1>1, <2>4, <2>10 DEF GoodLink
    <2>12. QED BY <1>1, <2>1, <2>3, <2>4, <2>11
<1>2. QED BY <1>1

\* Envelopes already sealed keep what is known of them.
LEMMA SealedStep ==
    ASSUME RestartShapes, SealedInv, Onward, restarts' \in [Device -> Nat],
           sent' \in [Contacts -> Nat], \A c \in Contacts : sent[c] <= sent'[c],
           NEW env \in network
    PROVE  \E c \in Contacts :
              SealedBy(env, c[1], c[2], restarts'[c[1]], Reach(c[1], c[2])', sent'[c])
<1>1. PICK c \in Contacts :
        SealedBy(env, c[1], c[2], restarts[c[1]], Reach(c[1], c[2]), sent[c])
    BY DEF SealedInv
<1>2. c[1] \in Device /\ c[2] \in Device
    BY ContactsAssumption
<1>3. PICK s \in Device : s = c[1]
    BY <1>2
<1>4. PICK d \in Device : d = c[2]
    BY <1>2
<1>5. PICK reach : reach = Reach(s, d)
    OBVIOUS
<1>6. PICK further : further = Reach(s, d)'
    OBVIOUS
<1>7. reach \in Nat /\ further \in Nat
    BY <1>5, <1>6 DEF Onward
<1>8. restarts'[s] > restarts[s] \/ (restarts'[s] = restarts[s] /\ reach <= further)
    BY <1>5, <1>6 DEF Onward
<1>9. restarts[s] \in Nat /\ restarts'[s] \in Nat
    BY DEF RestartShapes
<1>10. sent[c] \in Nat /\ sent'[c] \in Nat /\ sent[c] <= sent'[c]
    BY DEF RestartShapes
<1>11. SealedBy(env, s, d, restarts[s], reach, sent[c])
    BY <1>1, <1>3, <1>4, <1>5
<1>12. SealedBy(env, s, d, restarts'[s], further, sent'[c])
    BY <1>7, <1>8, <1>9, <1>10, <1>11, SealedLater
<1>13. QED BY <1>3, <1>4, <1>6, <1>12

\* Used keys stay used when no session of the device gains a key.
LEMMA UsedStep ==
    ASSUME UsedInv, SealedInv, \A env \in network : env \in network',
           \A d \in Device : \A m \in opened'[d] :
              /\ m.from \in DOMAIN sessions'[d]
              /\ \/ /\ m \in opened[d]
                    /\ \A i \in Nat : HasKey(sessions'[d][m.from], d, m.from, i) =>
                                         HasKey(sessions[d][m.from], d, m.from, i)
                 \/ \E env \in network' :
                       env.body = m /\ ~ HasKey(sessions'[d][m.from], d, m.from, env.num)
    PROVE  UsedInv'
<1> SUFFICES ASSUME NEW d \in Device, NEW m \in opened'[d]
             PROVE  /\ m.from \in DOMAIN sessions'[d]
                    /\ \E env \in network' :
                         env.body = m /\ ~ HasKey(sessions'[d][m.from], d, m.from, env.num)
    BY DEF UsedInv
<1>1. CASE /\ m \in opened[d]
           /\ \A i \in Nat : HasKey(sessions'[d][m.from], d, m.from, i) =>
                                HasKey(sessions[d][m.from], d, m.from, i)
    <2>1. PICK env \in network :
             env.body = m /\ ~ HasKey(sessions[d][m.from], d, m.from, env.num)
        BY <1>1 DEF UsedInv
    <2>2. env.num \in Nat
        BY DEF SealedInv, SealedBy
    <2>3. ~ HasKey(sessions'[d][m.from], d, m.from, env.num)
        BY <1>1, <2>1, <2>2
    <2>4. QED BY <2>1, <2>3
<1>2. QED BY <1>1

\* What RestartInv says of one link.
LEMMA LinkAt ==
    ASSUME RestartInv, NEW d \in Device, NEW e \in DOMAIN sessions[d]
    PROVE  /\ e \in Device /\ <<d, e>> \in Contacts /\ d # e
           /\ GoodRatchet(sessions[d][e], d, e)
           /\ sessions[d][e].pub = KeyPair(d, e, restarts[d])
           /\ sessions[d][e].pub \in Pubs
           /\ sessions[d][e].sid \in SessionIds(d, e)
           /\ sessions[d][e].sid # NoSession
           /\ Heard(sessions[d][e], d, e, restarts[e], Reach(e, d))
<1>1. /\ e \in Device /\ <<d, e>> \in Contacts
      /\ GoodLink(sessions[d][e], d, e, restarts[d], restarts[e], Reach(e, d))
    BY DEF RestartInv, RestartShapes, LinksInv
<1>2. d # e
    BY <1>1, ContactsAssumption
<1>3. restarts[d] \in Nat
    BY DEF RestartInv, RestartShapes
<1>4. KeyPair(d, e, restarts[d]) \in Pubs
    BY <1>1, <1>3 DEF KeyPair, Pubs
<1>5. \A sid \in SessionIds(d, e) : sid # NoSession
    BY <1>1, SessionAssumption DEF SessionIds
<1>6. QED BY <1>1, <1>2, <1>4, <1>5 DEF GoodLink

\* How far a device has sent is a number.
LEMMA ReachType ==
    ASSUME RestartInv, NEW d \in Device, NEW e \in Device
    PROVE  Reach(d, e) \in Nat
<1>1. CASE e \in DOMAIN sessions[d]
    <2>1. sessions[d][e].sendN \in Nat
        BY <1>1, LinkAt DEF GoodRatchet
    <2>2. QED BY <1>1, <2>1 DEF Reach
<1>2. CASE e \notin DOMAIN sessions[d]
    BY <1>2 DEF Reach
<1>3. QED BY <1>1, <1>2

----------------------------------------------------------------------------
\* A step that leaves sessions, network and histories alone keeps the invariant.
LEMMA QuietStep ==
    ASSUME RestartInv, deviceId' \in [Device -> Device \cup {NoId}],
           \A d \in Device : deviceId'[d] \in {d, NoId},
           UNCHANGED <<sessions, network, restarts, sent, opened, handed>>
    PROVE  RestartInv'
<1>1. RestartShapes'
    BY DEF RestartInv, RestartShapes
<1>2. \A d, e : Reach(d, e)' = Reach(d, e)
    BY DEF Reach
<1>3. Onward
    BY <1>2, ReachType DEF Onward
<1>4. LinksInv'
    <2>1. restarts' \in [Device -> Nat]
        BY <1>1 DEF RestartShapes
    <2>2. \A d \in Device : DOMAIN sessions'[d] \subseteq Device
        BY <1>1 DEF RestartShapes
    <2>3. QED BY <1>3, <2>1, <2>2, LinksStep DEF RestartInv
<1>5. SealedInv'
    BY <1>2 DEF RestartInv, SealedInv
<1>6. UsedInv'
    BY DEF RestartInv, UsedInv
<1>7. QED BY <1>1, <1>4, <1>5, <1>6 DEF RestartInv

\* register_device sets a device's own id.
LEMMA RestartRegister ==
    ASSUME RestartInv, NEW d \in Device, RegisterDevice(d)
    PROVE  RestartInv'
<1>1. deviceId \in [Device -> Device \cup {NoId}] /\ \A x \in Device : deviceId[x] \in {x, NoId}
    BY DEF RestartInv, RestartShapes
<1>2. /\ deviceId' \in [Device -> Device \cup {NoId}]
      /\ \A x \in Device : deviceId'[x] \in {x, NoId}
    BY <1>1 DEF RegisterDevice
<1>3. UNCHANGED <<sessions, network, restarts, sent, opened, handed>>
    BY DEF RegisterDevice
<1>4. QED BY <1>2, <1>3, QuietStep

\* Installing the callback touches nothing the invariant is about.
LEMMA RestartCallback ==
    ASSUME RestartInv, NEW d \in Device, SetOnInbound(d)
    PROVE  RestartInv'
<1>1. deviceId \in [Device -> Device \cup {NoId}] /\ \A x \in Device : deviceId[x] \in {x, NoId}
    BY DEF RestartInv, RestartShapes
<1>2. /\ deviceId' \in [Device -> Device \cup {NoId}]
      /\ \A x \in Device : deviceId'[x] \in {x, NoId}
    BY <1>1 DEF SetOnInbound
<1>3. UNCHANGED <<sessions, network, restarts, sent, opened, handed>>
    BY DEF SetOnInbound
<1>4. QED BY <1>2, <1>3, QuietStep

\* A restart forgets the device's sessions; its old key pairs are not its current one.
LEMMA RestartCrash ==
    ASSUME RestartInv, NEW d \in Device, Restart(d)
    PROVE  RestartInv'
<1> DEFINE none == [e \in {} |-> NewRatchet(NoKey)]
<1>1. /\ restarts[d] < MaxRestarts /\ restarts' = [restarts EXCEPT ![d] = @ + 1]
      /\ deviceId' = [deviceId EXCEPT ![d] = NoId]
      /\ sessions' = [sessions EXCEPT ![d] = none]
      /\ opened' = [opened EXCEPT ![d] = {}]
      /\ UNCHANGED <<network, sent, handed>>
    BY DEF Restart
<1>2. DOMAIN none = {}
    OBVIOUS
<1> HIDE DEF none
<1>3. RestartShapes
    BY DEF RestartInv
<1>4. /\ DOMAIN sessions' = Device /\ sessions'[d] = none
      /\ \A x \in Device : x # d => sessions'[x] = sessions[x]
    BY <1>1, <1>3 DEF RestartShapes
<1>5. /\ restarts' \in [Device -> Nat] /\ restarts'[d] = restarts[d] + 1
      /\ \A x \in Device : x # d => restarts'[x] = restarts[x]
      /\ \A x \in Device : restarts'[x] <= MaxRestarts
    BY <1>1, <1>3, BoundsAssumption DEF RestartShapes
<1>6. RestartShapes'
    <2>1. \A x \in Device : DOMAIN sessions'[x] \subseteq Device
        BY <1>2, <1>3, <1>4 DEF RestartShapes
    <2>2. DOMAIN opened' = Device
        BY <1>1, <1>3 DEF RestartShapes
    <2>3. /\ deviceId' \in [Device -> Device \cup {NoId}]
          /\ \A x \in Device : deviceId'[x] \in {x, NoId}
        BY <1>1, <1>3 DEF RestartShapes
    <2>4. QED BY <1>1, <1>3, <1>4, <1>5, <2>1, <2>2, <2>3 DEF RestartShapes
<1>7. Onward
    <2> SUFFICES ASSUME NEW x \in Device, NEW y \in Device
                 PROVE  /\ Reach(x, y) \in Nat /\ Reach(x, y)' \in Nat
                        /\ \/ restarts'[x] > restarts[x]
                           \/ restarts'[x] = restarts[x] /\ Reach(x, y) <= Reach(x, y)'
        BY DEF Onward
    <2>1. Reach(x, y) \in Nat
        BY ReachType
    <2>2. CASE x = d
        <3>1. Reach(x, y)' = 0
            BY <1>2, <1>4, <2>2 DEF Reach
        <3>2. restarts[d] \in Nat
            BY <1>3 DEF RestartShapes
        <3>3. QED BY <1>5, <2>1, <2>2, <3>1, <3>2
    <2>3. CASE x # d
        <3>1. Reach(x, y)' = Reach(x, y)
            BY <1>4, <2>3 DEF Reach
        <3>2. QED BY <1>5, <2>1, <2>3, <3>1
    <2>4. QED BY <2>2, <2>3
<1>8. LinksInv'
    <2>1. ASSUME NEW x \in Device, NEW e \in DOMAIN sessions'[x]
          PROVE  /\ e \in DOMAIN sessions[x] /\ sessions'[x][e] = sessions[x][e]
                 /\ restarts'[x] = restarts[x]
        BY <1>2, <1>4, <1>5, <2>1
    <2>2. \A x \in Device : DOMAIN sessions'[x] \subseteq Device
        BY <1>6 DEF RestartShapes
    <2>3. QED BY <1>3, <1>5, <1>7, <2>1, <2>2, LinksStep DEF RestartInv
<1>9. SealedInv'
    <2>1. \A env \in network : \E c \in Contacts :
             SealedBy(env, c[1], c[2], restarts'[c[1]], Reach(c[1], c[2])', sent'[c])
        <3>1. sent' \in [Contacts -> Nat] /\ \A c \in Contacts : sent[c] <= sent'[c]
            BY <1>1, <1>3 DEF RestartShapes
        <3>2. QED BY <1>3, <1>5, <1>7, <3>1, SealedStep DEF RestartInv
    <2>2. QED BY <1>1, <2>1 DEF SealedInv, RestartInv
<1>10. UsedInv'
    <2>1. ASSUME NEW x \in Device, NEW m \in opened'[x]
          PROVE  m \in opened[x] /\ sessions'[x] = sessions[x]
        BY <1>1, <1>3, <1>4 DEF RestartShapes
    <2>2. QED BY <1>1, <2>1 DEF RestartInv, UsedInv
<1>11. QED BY <1>6, <1>8, <1>9, <1>10 DEF RestartInv

\* A step that sets s's ratchet for d and no other.
OneLink(s, d, q) ==
    /\ DOMAIN sessions' = Device
    /\ \A x \in Device : x # s => sessions'[x] = sessions[x]
    /\ DOMAIN sessions'[s] = DOMAIN sessions[s] \cup {d}
    /\ sessions'[s][d] = q
    /\ \A e \in DOMAIN sessions[s] : e # d => sessions'[s][e] = sessions[s][e]
    /\ restarts' = restarts

\* If the ratchet it sets is a good link, all links are.
LEMMA OneLinkStep ==
    ASSUME RestartInv, NEW s \in Device, NEW d \in Device, <<s, d>> \in Contacts,
           NEW q, OneLink(s, d, q), GoodRatchet(q, s, d),
           d \in DOMAIN sessions[s] => sessions[s][d].sendN <= q.sendN,
           q.pub = KeyPair(s, d, restarts[s]), q.sid \in SessionIds(s, d),
           Heard(q, s, d, restarts[d], Reach(d, s))
    PROVE  /\ Onward /\ LinksInv'
           /\ \A x \in Device : DOMAIN sessions'[x] \subseteq Device
           /\ Reach(s, d)' = q.sendN + 1
<1>1. q.sendN \in Nat
    BY DEF GoodRatchet
<1>2. Reach(s, d)' = q.sendN + 1
    BY DEF Reach, OneLink
<1>3. Reach(s, d) <= q.sendN + 1
    <2>1. CASE d \in DOMAIN sessions[s]
        <3>1. sessions[s][d].sendN \in Nat
            BY <2>1, LinkAt DEF GoodRatchet
        <3>2. QED BY <1>1, <2>1, <3>1 DEF Reach
    <2>2. CASE d \notin DOMAIN sessions[s]
        BY <1>1, <2>2 DEF Reach
    <2>3. QED BY <2>1, <2>2
<1>4. ASSUME NEW x \in Device, NEW y \in Device, <<x, y>> # <<s, d>>
      PROVE  Reach(x, y)' = Reach(x, y)
    <2>1. CASE x # s
        <3>1. sessions'[x] = sessions[x]
            BY <2>1 DEF OneLink
        <3>2. QED BY <3>1 DEF Reach
    <2>2. CASE x = s /\ y # d
        <3>1. y \in DOMAIN sessions'[x] <=> y \in DOMAIN sessions[x]
            BY <2>2 DEF OneLink
        <3>2. y \in DOMAIN sessions[x] => sessions'[x][y] = sessions[x][y]
            BY <2>2 DEF OneLink
        <3>3. QED BY <3>1, <3>2 DEF Reach
    <2>3. QED BY <1>4, <2>1, <2>2
<1>5. Onward
    <2> SUFFICES ASSUME NEW x \in Device, NEW y \in Device
                 PROVE  /\ Reach(x, y) \in Nat /\ Reach(x, y)' \in Nat
                        /\ restarts'[x] = restarts[x] /\ Reach(x, y) <= Reach(x, y)'
        BY DEF Onward
    <2>1. Reach(x, y) \in Nat
        BY ReachType
    <2>2. restarts'[x] = restarts[x]
        BY DEF OneLink
    <2>3. CASE <<x, y>> = <<s, d>>
        BY <1>1, <1>2, <1>3, <2>1, <2>2, <2>3
    <2>4. CASE <<x, y>> # <<s, d>>
        BY <1>4, <2>1, <2>2, <2>4
    <2>5. QED BY <2>3, <2>4
<1>6. restarts' \in [Device -> Nat]
    BY DEF OneLink, RestartInv, RestartShapes
<1>7. \A x \in Device : DOMAIN sessions'[x] \subseteq Device
    BY DEF OneLink, RestartInv, RestartShapes
<1>8. LinksInv'
    <2>1. ASSUME NEW x \in Device, NEW e \in DOMAIN sessions'[x], <<x, e>> # <<s, d>>
          PROVE  /\ e \in DOMAIN sessions[x] /\ sessions'[x][e] = sessions[x][e]
                 /\ restarts'[x] = restarts[x]
        BY <2>1 DEF OneLink
    <2>2. GoodLink(sessions'[s][d], s, d, restarts'[s], restarts'[d], Reach(d, s)')
        <3>1. s # d
            BY ContactsAssumption
        <3>2. Reach(d, s)' = Reach(d, s)
            BY <1>4, <3>1
        <3>3. GoodLink(q, s, d, restarts[s], restarts[d], Reach(d, s))
            BY DEF GoodLink
        <3>4. sessions'[s][d] = q /\ restarts'[s] = restarts[s] /\ restarts'[d] = restarts[d]
            BY DEF OneLink
        <3>5. QED BY <3>2, <3>3, <3>4
    <2>3. ASSUME NEW x \in Device, NEW e \in DOMAIN sessions'[x]
          PROVE  \/ /\ e \in DOMAIN sessions[x] /\ sessions'[x][e] = sessions[x][e]
                    /\ restarts'[x] = restarts[x]
                 \/ /\ <<x, e>> \in Contacts
                    /\ GoodLink(sessions'[x][e], x, e, restarts'[x], restarts'[e], Reach(e, x)')
        <3>1. CASE <<x, e>> # <<s, d>>
            BY <2>1, <3>1
        <3>2. CASE x = s /\ e = d
            BY <2>2, <3>2
        <3>3. QED BY <3>1, <3>2
    <2>4. RestartShapes /\ LinksInv
        BY DEF RestartInv
    <2>5. QED BY <1>5, <1>6, <1>7, <2>3, <2>4, LinksStep
<1>9. QED BY <1>2, <1>5, <1>7, <1>8

\* A session opened with a peer there was none for.
LEMMA RestartOpen ==
    ASSUME RestartInv, NEW s \in Device, NEW d \in Device, <<s, d>> \in Contacts,
           d \notin DOMAIN sessions[s], CreateSessionWith(s, d)
    PROVE  RestartInv'
<1> DEFINE sid == SessionId(deviceId[s], d, RootSecret(s, d))
           q == Initialize(NewRatchet(KeyPair(s, d, restarts[s])), RootSecret(s, d), sid)
<1>0. RestartShapes
    BY DEF RestartInv
<1>1. RatchetFor(s, d) = NewRatchet(KeyPair(s, d, restarts[s]))
    BY DEF RatchetFor
<1>2. /\ sessions' = [sessions EXCEPT ![s] = [p \in DOMAIN sessions[s] \cup {d} |->
                            IF p = d THEN q ELSE sessions[s][p]]]
      /\ opened' = [opened EXCEPT ![s] = {m \in @ : m.from # d}]
      /\ UNCHANGED <<deviceId, network, restarts, sent, handed>>
    BY <1>1 DEF CreateSessionWith
<1>3. /\ GoodRatchet(q, s, d) /\ q.pub = KeyPair(s, d, restarts[s]) /\ q.sid = sid
      /\ q.lastRemote = NoKey /\ q.recvN = 0
    BY StartGood
<1>4. sid \in SessionIds(s, d)
    BY <1>0 DEF SessionIds, RestartShapes
<1> HIDE DEF q, sid
<1>5. OneLink(s, d, q)
    <2> DEFINE g == [p \in DOMAIN sessions[s] \cup {d} |-> IF p = d THEN q ELSE sessions[s][p]]
    <2>1. /\ DOMAIN g = DOMAIN sessions[s] \cup {d} /\ g[d] = q
          /\ \A e \in DOMAIN sessions[s] : e # d => g[e] = sessions[s][e]
        OBVIOUS
    <2>2. sessions' = [sessions EXCEPT ![s] = g] /\ restarts' = restarts
        BY <1>2
    <2> HIDE DEF g
    <2>3. /\ DOMAIN sessions' = Device /\ sessions'[s] = g
          /\ \A x \in Device : x # s => sessions'[x] = sessions[x]
        BY <1>0, <2>2 DEF RestartShapes
    <2>4. QED BY <2>1, <2>2, <2>3 DEF OneLink
<1>6. Heard(q, s, d, restarts[d], Reach(d, s))
    BY <1>3 DEF Heard
<1>7. /\ Onward /\ LinksInv'
      /\ \A x \in Device : DOMAIN sessions'[x] \subseteq Device
    BY <1>3, <1>4, <1>5, <1>6, OneLinkStep
<1>8. RestartShapes'
    <2>1. DOMAIN sessions' = Device
        BY <1>5 DEF OneLink
    <2>2. DOMAIN opened' = Device
        BY <1>0, <1>2 DEF RestartShapes
    <2>3. QED BY <1>0, <1>2, <1>7, <2>1, <2>2 DEF RestartShapes
<1>9. SealedInv'
    <2>1. restarts' \in [Device -> Nat]
        BY <1>8 DEF RestartShapes
    <2>2. sent' \in [Contacts -> Nat] /\ \A c \in Contacts : sent[c] <= sent'[c]
        BY <1>0, <1>2 DEF RestartShapes
    <2>3. \A env \in network : \E c \in Contacts :
             SealedBy(env, c[1], c[2], restarts'[c[1]], Reach(c[1], c[2])', sent'[c])
        BY <1>0, <1>7, <2>1, <2>2, SealedStep DEF RestartInv
    <2>4. QED BY <1>2, <2>3 DEF SealedInv, RestartInv
<1>10. UsedInv'
    <2>1. ASSUME NEW x \in Device, NEW m \in opened'[x]
          PROVE  /\ m.from \in DOMAIN sessions'[x]
                 /\ m \in opened[x]
                 /\ sessions'[x][m.from] = sessions[x][m.from]
        <3>1. m \in opened[x] /\ (x = s => m.from # d)
            BY <1>0, <1>2, <2>1 DEF RestartShapes
        <3>2. m.from \in DOMAIN sessions[x]
            BY <3>1 DEF RestartInv, UsedInv
        <3>3. QED BY <1>5, <3>1, <3>2 DEF OneLink
    <2>2. UsedInv /\ SealedInv /\ \A env \in network : env \in network'
        BY <1>2 DEF RestartInv
    <2>3. QED BY <2>1, <2>2, UsedStep
<1>11. QED BY <1>7, <1>8, <1>9, <1>10 DEF RestartInv

\* A message sealed and handed to the transport.
LEMMA RestartSend ==
    ASSUME RestartInv, NEW s \in Device, NEW d \in Device, <<s, d>> \in Contacts,
           SendMessageToDevice(s, d)
    PROVE  RestartInv'
<1>0. RestartShapes /\ d \in DOMAIN sessions[s]
    BY DEF RestartInv, SendMessageToDevice
<1>1. PICK c : c = <<s, d>>
    OBVIOUS
<1>2. PICK r : r = sessions[s][d]
    OBVIOUS
<1>3. PICK q : q = AfterEncrypt(r, NoSession)
    OBVIOUS
<1>4. PICK env : env = Sealed(r, NoSession, deviceId[s], Message(s, d, sent[c]))
    OBVIOUS
<1>5. /\ network' = network \cup {env}
      /\ sessions' = [sessions EXCEPT ![s][d] = q]
      /\ sent' = [sent EXCEPT ![c] = @ + 1]
      /\ UNCHANGED <<deviceId, restarts, opened, handed>>
    BY <1>1, <1>2, <1>3, <1>4 DEF SendMessageToDevice
<1>6. /\ GoodRatchet(r, s, d) /\ r.pub = KeyPair(s, d, restarts[s])
      /\ r.sid \in SessionIds(s, d) /\ r.sid # NoSession
      /\ Heard(r, s, d, restarts[d], Reach(d, s))
    BY <1>0, <1>2, LinkAt
<1>7. /\ GoodRatchet(q, s, d) /\ (Fresh(q, s, d) <=> Fresh(r, s, d))
      /\ q.pub = r.pub /\ q.sid = r.sid /\ q.lastRemote = r.lastRemote
      /\ q.recvN = r.recvN /\ q.sendN = r.sendN + 1
      /\ \A i \in Nat : HasKey(q, s, d, i) <=> HasKey(r, s, d, i)
      /\ r.sendChain = Key(s, d, r.sendN) \/ r.sendChain.label = "SendChain"
    BY <1>3, <1>6, EncryptGood
<1>8. r.sendN \in Nat
    BY <1>6 DEF GoodRatchet
<1>9. OneLink(s, d, q)
    <2>1. PICK f : f = sessions[s]
        OBVIOUS
    <2>2. sessions' = [sessions EXCEPT ![s] = [f EXCEPT ![d] = q]]
        BY <1>5, <2>1
    <2>3. PICK g : g = [f EXCEPT ![d] = q]
        OBVIOUS
    <2>4. /\ DOMAIN g = DOMAIN f /\ g[d] = q
          /\ \A e \in DOMAIN f : e # d => g[e] = f[e]
        BY <1>0, <2>1, <2>3
    <2>5. /\ DOMAIN sessions' = Device /\ sessions'[s] = g
          /\ \A x \in Device : x # s => sessions'[x] = sessions[x]
        BY <1>0, <2>2, <2>3 DEF RestartShapes
    <2>6. QED BY <1>0, <1>5, <2>1, <2>4, <2>5 DEF OneLink
<1>10. Heard(q, s, d, restarts[d], Reach(d, s))
    BY <1>6, <1>7 DEF Heard
<1>11. /\ Onward /\ LinksInv'
       /\ \A x \in Device : DOMAIN sessions'[x] \subseteq Device
       /\ Reach(s, d)' = q.sendN + 1
    <2>1. sessions[s][d].sendN <= q.sendN
        BY <1>2, <1>7, <1>8
    <2>2. q.pub = KeyPair(s, d, restarts[s]) /\ q.sid \in SessionIds(s, d)
        BY <1>6, <1>7
    <2>3. QED BY <1>7, <1>9, <1>10, <2>1, <2>2, OneLinkStep
<1>12. /\ sent' \in [Contacts -> Nat] /\ sent'[c] = sent[c] + 1 /\ sent[c] \in Nat
       /\ \A x \in Contacts : sent[x] <= sent'[x]
    <2>1. c \in Contacts /\ sent \in [Contacts -> Nat]
        BY <1>0, <1>1 DEF RestartShapes
    <2>2. sent' = [sent EXCEPT ![c] = sent[c] + 1]
        BY <1>5
    <2>3. QED BY <2>1, <2>2
<1>13. RestartShapes'
    <2>1. DOMAIN sessions' = Device
        BY <1>9 DEF OneLink
    <2>2. QED BY <1>0, <1>5, <1>11, <1>12, <2>1 DEF RestartShapes
<1>14. /\ env.sid = r.sid /\ env.sender = deviceId[s] /\ env.num = r.sendN
       /\ env.pub = r.pub /\ env.key = r.sendChain /\ env.body = Message(s, d, sent[c])
    BY <1>4, <1>6 DEF Sealed, SessionToUse
<1>15. SealedBy(env, s, d, restarts'[s], Reach(s, d)', sent'[c])
    <2>1. env.body.n = sent[c]
        BY <1>14 DEF Message
    <2>2. deviceId[s] \in {s, NoId} /\ restarts[s] \in Nat /\ restarts'[s] = restarts[s]
        BY <1>0, <1>5 DEF RestartShapes
    <2>3. restarts[s] \in 0 .. restarts[s]
        BY <2>2
    <2>4. \E b \in 0 .. restarts'[s] : /\ env.pub = KeyPair(s, d, b)
                                       /\ b = restarts'[s] => env.num + 1 < Reach(s, d)'
        BY <1>6, <1>7, <1>8, <1>11, <1>14, <2>2, <2>3
    <2>5. env.key = Key(s, d, env.num) \/ env.key.label = "SendChain"
        BY <1>7, <1>14
    <2>6. env.body = Message(s, d, env.body.n) /\ env.body.n \in Nat /\ env.body.n < sent'[c]
        BY <1>12, <1>14, <2>1
    <2>7. env.sid \in SessionIds(s, d) /\ env.num \in Nat /\ env.sender \in {s, NoId}
        BY <1>6, <1>8, <1>14, <2>2
    <2>8. QED BY <2>4, <2>5, <2>6, <2>7 DEF SealedBy
<1>16. SealedInv'
    <2>1. restarts' \in [Device -> Nat]
        BY <1>13 DEF RestartShapes
    <2>2. \A e1 \in network : \E x \in Contacts :
             SealedBy(e1, x[1], x[2], restarts'[x[1]], Reach(x[1], x[2])', sent'[x])
        BY <1>0, <1>11, <1>12, <2>1, SealedStep DEF RestartInv
    <2>3. \E x \in Contacts :
             SealedBy(env, x[1], x[2], restarts'[x[1]], Reach(x[1], x[2])', sent'[x])
        BY <1>1, <1>15
    <2>4. ASSUME NEW e1 \in network
          PROVE  e1.body # env.body
        <3>1. PICK x \in Contacts :
                SealedBy(e1, x[1], x[2], restarts[x[1]], Reach(x[1], x[2]), sent[x])
            BY DEF RestartInv, SealedInv
        <3>2. /\ e1.body = Message(x[1], x[2], e1.body.n)
              /\ e1.body.n \in Nat /\ e1.body.n < sent[x]
            BY <3>1 DEF SealedBy
        <3>3. SUFFICES ASSUME e1.body = env.body PROVE FALSE
            OBVIOUS
        <3>4. x[1] = s /\ x[2] = d /\ e1.body.n = sent[c]
            BY <1>14, <3>2, <3>3 DEF Message
        <3>5. x = c
            BY <1>1, <3>4, ContactsAssumption
        <3>6. QED BY <1>12, <3>2, <3>4, <3>5
    <2>5. \A e1, e2 \in network : e1.body = e2.body => e1 = e2
        BY DEF RestartInv, SealedInv
    <2>6. \A e1, e2 \in network' : e1.body = e2.body => e1 = e2
        BY <1>5, <2>4, <2>5
    <2>7. \A e1 \in network' : \E x \in Contacts :
             SealedBy(e1, x[1], x[2], restarts'[x[1]], Reach(x[1], x[2])', sent'[x])
        BY <1>5, <2>2, <2>3
    <2>8. QED BY <2>6, <2>7 DEF SealedInv
<1>17. UsedInv'
    <2>1. ASSUME NEW x \in Device, NEW m \in opened'[x]
          PROVE  /\ m.from \in DOMAIN sessions'[x]
                 /\ m \in opened[x]
                 /\ \A i \in Nat : HasKey(sessions'[x][m.from], x, m.from, i) =>
                                      HasKey(sessions[x][m.from], x, m.from, i)
        <3>1. m \in opened[x]
            BY <1>5, <2>1
        <3>2. m.from \in DOMAIN sessions[x]
            BY <3>1 DEF RestartInv, UsedInv
        <3>3. CASE x = s /\ m.from = d
            <4>1. sessions'[s][d] = q /\ d \in DOMAIN sessions'[s]
                BY <1>9 DEF OneLink
            <4>2. QED BY <1>2, <1>7, <3>1, <3>3, <4>1
        <3>4. CASE ~ (x = s /\ m.from = d)
            <4>1. m.from \in DOMAIN sessions'[x] /\ sessions'[x][m.from] = sessions[x][m.from]
                BY <1>9, <3>2, <3>4 DEF OneLink
            <4>2. QED BY <3>1, <4>1
        <3>5. QED BY <3>3, <3>4
    <2>2. UsedInv /\ SealedInv /\ \A e1 \in network : e1 \in network'
        BY <1>5 DEF RestartInv
    <2>3. QED BY <2>1, <2>2, UsedStep
<1>18. QED BY <1>11, <1>13, <1>16, <1>17 DEF RestartInv

\* Only an envelope its peer sealed for it gets past a session's id check.
LEMMA ForThisLink ==
    ASSUME RestartInv, NEW d \in Device, NEW env \in network,
           env.sender \in DOMAIN sessions[d],
           ForThisSession(sessions[d][env.sender], env)
    PROVE  /\ env.body.from = env.sender
           /\ env.body.to = d
           /\ SealedBy(env, env.sender, d, restarts[env.sender], Reach(env.sender, d),
                       sent[<<env.sender, d>>])
           /\ env.sid = sessions[d][env.sender].sid
           /\ env.pub \in Pubs /\ env.num \in Nat
           /\ env.key = Key(d, env.sender, env.num) \/ env.key.label = "SendChain"
<1>1. PICK e \in Device : e = env.sender
    BY DEF RestartInv, RestartShapes
<1>2. /\ <<d, e>> \in Contacts /\ d # e
      /\ sessions[d][e].sid \in SessionIds(d, e) /\ sessions[d][e].sid # NoSession
    BY <1>1, LinkAt
<1>3. env.sid = sessions[d][e].sid
    BY <1>1, <1>2 DEF ForThisSession
<1>4. PICK c \in Contacts :
         SealedBy(env, c[1], c[2], restarts[c[1]], Reach(c[1], c[2]), sent[c])
    BY DEF RestartInv, SealedInv
<1>5. c[1] \in Device /\ c[2] \in Device /\ c[1] # c[2] /\ c = <<c[1], c[2]>>
    BY ContactsAssumption
<1>6. c[1] = e
    BY <1>1, <1>4, SessionAssumption DEF SealedBy
<1>7. env.sid \in SessionIds(e, c[2])
    BY <1>4, <1>6 DEF SealedBy
<1>8. PICK own1 \in {d, NoId}, own2 \in {e, NoId} : {own1, e} = {own2, c[2]}
    BY <1>2, <1>3, <1>7 DEF SessionIds, SessionId
<1>9. c[2] = d
    <2>1. c[2] # e /\ c[2] # NoId /\ d # NoId /\ e # NoId
        BY <1>5, <1>6, SessionAssumption
    <2>2. c[2] \in {own1, e} /\ e \in {own2, c[2]}
        BY <1>8
    <2>3. QED BY <1>8, <2>1, <2>2
<1>10. c = <<e, d>>
    BY <1>5, <1>6, <1>9
<1>11. SealedBy(env, e, d, restarts[e], Reach(e, d), sent[<<e, d>>])
    BY <1>4, <1>10
<1>12. env.body.from = e /\ env.body.to = d
    BY <1>11 DEF SealedBy, Message
<1>13. env.num \in Nat /\ (env.key = Key(d, e, env.num) \/ env.key.label = "SendChain")
    BY <1>11, Symmetry DEF SealedBy
<1>14. env.pub \in Pubs
    <2>1. PICK b \in 0 .. restarts[e] : env.pub = KeyPair(e, d, b)
        BY <1>11 DEF SealedBy
    <2>2. b \in Nat
        BY DEF RestartInv, RestartShapes
    <2>3. QED BY <2>1, <2>2 DEF KeyPair, Pubs
<1>15. QED BY <1>1, <1>3, <1>11, <1>12, <1>13, <1>14

\* What a receiver has heard after one more envelope of its peer.
LEMMA HeardNext ==
    ASSUME NEW r, NEW q, NEW env, NEW d \in Device, NEW e \in Device,
           NEW boots \in 0 .. MaxRestarts, NEW reach \in Nat, NEW count,
           r.recvN \in Nat, Heard(r, d, e, boots, reach),
           SealedBy(env, e, d, boots, reach, count),
           q.lastRemote = env.pub,
           Fresh(q, d, e) => /\ Fresh(r, d, e) /\ r.lastRemote \in {NoKey, env.pub}
                             /\ q.recvN \in {r.recvN, env.num, env.num + 1}
    PROVE  Heard(q, d, e, boots, reach)
<1> SUFFICES ASSUME Fresh(q, d, e)
             PROVE  \E b \in 0 .. boots : /\ q.lastRemote = KeyPair(e, d, b)
                                          /\ b = boots => q.recvN < reach
    BY DEF Heard
<1>1. PICK b \in 0 .. boots : env.pub = KeyPair(e, d, b) /\ (b = boots => env.num + 1 < reach)
    BY DEF SealedBy
<1>2. env.num \in Nat
    BY DEF SealedBy
<1>3. b = boots => r.recvN < reach
    <2>1. CASE r.lastRemote = NoKey /\ r.recvN = 0
        BY <1>1, <1>2, <2>1
    <2>2. CASE \E b2 \in 0 .. boots : /\ r.lastRemote = KeyPair(e, d, b2)
                                      /\ b2 = boots => r.recvN < reach
        <3>1. PICK b2 \in 0 .. boots : /\ r.lastRemote = KeyPair(e, d, b2)
                                       /\ b2 = boots => r.recvN < reach
            BY <2>2
        <3>2. b2 \in 0 .. MaxRestarts
            BY BoundsAssumption
        <3>3. KeyPair(e, d, b2) # NoKey
            BY <3>2, SessionAssumption
        <3>4. KeyPair(e, d, b2) = KeyPair(e, d, b)
            BY <1>1, <3>1, <3>3
        <3>5. b2 = b
            BY <3>4, KeyPairInjective
        <3>6. QED BY <3>1, <3>5
    <2>3. QED BY <2>1, <2>2 DEF Heard
<1>4. b = boots => q.recvN < reach
    BY <1>1, <1>2, <1>3
<1>5. QED BY <1>1, <1>4

\* An envelope delivered: to whom, in what order and how often it does not matter.
LEMMA RestartReceive ==
    ASSUME RestartInv, NEW d \in Device, NEW env \in network, OnRawMessage(d, env)
    PROVE  RestartInv'
<1>0. RestartShapes /\ env.sender \in DOMAIN sessions[d]
    BY DEF RestartInv, OnRawMessage
<1>1. PICK e \in Device : e = env.sender
    BY <1>0 DEF RestartShapes
<1>2. PICK r : r = sessions[d][e]
    OBVIOUS
<1>3. PICK q : q = AfterDecrypt(r, env)
    OBVIOUS
<1>4. e \in DOMAIN sessions[d]
    BY <1>0, <1>1
<1>5. /\ sessions' = [sessions EXCEPT ![d][e] = q]
      /\ IF Opens(r, env)
         THEN /\ opened' = [opened EXCEPT ![d] = @ \cup {env.body}]
              /\ handed' = IF onInbound[d]
                           THEN [handed EXCEPT ![d] = Append(@, env.body)]
                           ELSE handed
         ELSE UNCHANGED <<opened, handed>>
      /\ UNCHANGED <<deviceId, network, restarts, sent>>
    BY <1>1, <1>2, <1>3 DEF OnRawMessage
<1>6. /\ <<d, e>> \in Contacts /\ GoodRatchet(r, d, e) /\ r.pub = KeyPair(d, e, restarts[d])
      /\ r.pub \in Pubs /\ r.sid \in SessionIds(d, e) /\ r.sid # NoSession
      /\ Heard(r, d, e, restarts[e], Reach(e, d))
    BY <1>2, <1>4, LinkAt
<1>7. r.recvN \in Nat /\ r.sendN \in Nat
    BY <1>6 DEF GoodRatchet
<1>8. OneLink(d, e, q)
    <2>1. PICK f : f = sessions[d]
        OBVIOUS
    <2>2. sessions' = [sessions EXCEPT ![d] = [f EXCEPT ![e] = q]]
        BY <1>5, <2>1
    <2>3. PICK g : g = [f EXCEPT ![e] = q]
        OBVIOUS
    <2>4. /\ DOMAIN g = DOMAIN f /\ g[e] = q
          /\ \A x \in DOMAIN f : x # e => g[x] = f[x]
        BY <1>4, <2>1, <2>3
    <2>5. /\ DOMAIN sessions' = Device /\ sessions'[d] = g
          /\ \A x \in Device : x # d => sessions'[x] = sessions[x]
        BY <1>0, <2>2, <2>3 DEF RestartShapes
    <2>6. QED BY <1>4, <1>5, <2>1, <2>4, <2>5 DEF OneLink
<1>9. /\ GoodRatchet(q, d, e) /\ q.pub = r.pub /\ q.sid = r.sid /\ q.sendN = r.sendN
      /\ Heard(q, d, e, restarts[e], Reach(e, d))
      /\ \A i \in Nat : HasKey(q, d, e, i) => HasKey(r, d, e, i)
      /\ Opens(r, env) => /\ env.body.from = e /\ env.body.to = d
                          /\ env.body \in Messages
                          /\ ~ HasKey(q, d, e, env.num)
    <2>1. CASE ~ ForThisSession(r, env)
        <3>1. q = r /\ ~ Opens(r, env)
            BY <1>3, <2>1 DEF AfterDecrypt, Opens
        <3>2. QED BY <1>6, <3>1
    <2>2. CASE ForThisSession(r, env)
        <3>1. /\ env.body.from = e /\ env.body.to = d
              /\ SealedBy(env, e, d, restarts[e], Reach(e, d), sent[<<e, d>>])
              /\ env.sid = r.sid /\ env.pub \in Pubs /\ env.num \in Nat
              /\ env.key = Key(d, e, env.num) \/ env.key.label = "SendChain"
            BY <1>0, <1>1, <1>2, <2>2, ForThisLink
        <3>2. /\ GoodRatchet(q, d, e)
              /\ q.pub = r.pub /\ q.sid = env.sid /\ q.sendN = r.sendN
              /\ q.lastRemote = env.pub
              /\ Fresh(q, d, e) => /\ Fresh(r, d, e) /\ r.lastRemote \in {NoKey, env.pub}
                                   /\ q.recvN \in {r.recvN, env.num, env.num + 1}
              /\ \A i \in Nat : HasKey(q, d, e, i) => HasKey(r, d, e, i)
              /\ Opens(r, env) => ~ HasKey(q, d, e, env.num)
            BY <1>3, <1>6, <2>2, <3>1, DecryptGood
        <3>3. restarts[e] \in 0 .. MaxRestarts
            BY <1>0, BoundsAssumption DEF RestartShapes
        <3>4. Reach(e, d) \in Nat
            BY ReachType
        <3>5. PICK boots \in 0 .. MaxRestarts : boots = restarts[e]
            BY <3>3
        <3>6. PICK reach \in Nat : reach = Reach(e, d)
            BY <3>4
        <3>7. Heard(q, d, e, boots, reach)
            <4>1. Heard(r, d, e, boots, reach)
                BY <1>6, <3>5, <3>6
            <4>2. SealedBy(env, e, d, boots, reach, sent[<<e, d>>])
                BY <3>1, <3>5, <3>6
            <4>3. QED BY <1>7, <3>2, <4>1, <4>2, HeardNext
        <3>8. env.body \in Messages
            <4>1. env.body = Message(e, d, env.body.n) /\ env.body.n \in Nat
                BY <3>1 DEF SealedBy
            <4>2. QED BY <4>1 DEF Message, Messages
        <3>9. QED BY <3>1, <3>2, <3>5, <3>6, <3>7, <3>8
    <2>3. QED BY <2>1, <2>2
<1>10. /\ Onward /\ LinksInv'
       /\ \A x \in Device : DOMAIN sessions'[x] \subseteq Device
    <2>1. sessions[d][e].sendN <= q.sendN
        BY <1>2, <1>7, <1>9
    <2>2. q.pub = KeyPair(d, e, restarts[d]) /\ q.sid \in SessionIds(d, e)
        BY <1>6, <1>9
    <2>3. QED BY <1>6, <1>8, <1>9, <2>1, <2>2, OneLinkStep
<1>11. RestartShapes'
    <2>1. DOMAIN sessions' = Device
        BY <1>8 DEF OneLink
    <2>2. DOMAIN opened' = Device
        BY <1>0, <1>5 DEF RestartShapes
    <2>3. handed' \in [Device -> Seq(Messages)]
        <3>1. handed \in [Device -> Seq(Messages)]
            BY <1>0 DEF RestartShapes
        <3>2. CASE Opens(r, env) /\ onInbound[d]
            <4>1. Append(handed[d], env.body) \in Seq(Messages)
                BY <1>9, <3>1, <3>2
            <4>2. PICK h \in Seq(Messages) : h = Append(handed[d], env.body)
                BY <4>1
            <4>3. handed' = [handed EXCEPT ![d] = h]
                BY <1>5, <3>2, <4>2
            <4>4. QED BY <3>1, <4>3
        <3>3. CASE ~ (Opens(r, env) /\ onInbound[d])
            BY <1>5, <3>1, <3>3
        <3>4. QED BY <3>2, <3>3
    <2>4. QED BY <1>0, <1>5, <1>10, <2>1, <2>2, <2>3 DEF RestartShapes
<1>12. SealedInv'
    <2>1. restarts' \in [Device -> Nat]
        BY <1>11 DEF RestartShapes
    <2>2. sent' \in [Contacts -> Nat] /\ \A c \in Contacts : sent[c] <= sent'[c]
        BY <1>0, <1>5 DEF RestartShapes
    <2>3. \A x \in network : \E c \in Contacts :
             SealedBy(x, c[1], c[2], restarts'[c[1]], Reach(c[1], c[2])', sent'[c])
        BY <1>0, <1>10, <2>1, <2>2, SealedStep DEF RestartInv
    <2>4. QED BY <1>5, <2>3 DEF SealedInv, RestartInv
<1>13. UsedInv'
    <2>1. sessions'[d][e] = q /\ e \in DOMAIN sessions'[d]
        BY <1>8 DEF OneLink
    <2>2. ASSUME NEW x \in Device, NEW m \in opened[x]
          PROVE  /\ m.from \in DOMAIN sessions'[x]
                 /\ \A i \in Nat : HasKey(sessions'[x][m.from], x, m.from, i) =>
                                      HasKey(sessions[x][m.from], x, m.from, i)
        <3>1. m.from \in DOMAIN sessions[x]
            BY DEF RestartInv, UsedInv
        <3>2. CASE x = d /\ m.from = e
            BY <1>2, <1>9, <2>1, <3>2
        <3>3. CASE ~ (x = d /\ m.from = e)
            <4>1. m.from \in DOMAIN sessions'[x] /\ sessions'[x][m.from] = sessions[x][m.from]
                BY <1>8, <3>1, <3>3 DEF OneLink
            <4>2. QED BY <4>1
        <3>4. QED BY <3>2, <3>3
    <2>3. ASSUME NEW x \in Device, NEW m \in opened'[x], m \notin opened[x]
          PROVE  /\ m.from \in DOMAIN sessions'[x]
                 /\ \E y \in network' :
                       y.body = m /\ ~ HasKey(sessions'[x][m.from], x, m.from, y.num)
        <3>1. x = d /\ m = env.body /\ Opens(r, env)
            BY <1>0, <1>5, <2>3 DEF RestartShapes
        <3>2. m.from = e /\ ~ HasKey(q, d, e, env.num)
            BY <1>9, <3>1
        <3>3. env \in network'
            BY <1>5
        <3>4. QED BY <2>1, <3>1, <3>2, <3>3
    <2>4. UsedInv /\ SealedInv /\ \A x \in network : x \in network'
        BY <1>5 DEF RestartInv
    <2>5. ASSUME NEW x \in Device, NEW m \in opened'[x]
          PROVE  /\ m.from \in DOMAIN sessions'[x]
                 /\ \/ /\ m \in opened[x]
                       /\ \A i \in Nat : HasKey(sessions'[x][m.from], x, m.from, i) =>
                                            HasKey(sessions[x][m.from], x, m.from, i)
                    \/ \E y \in network' :
                          y.body = m /\ ~ HasKey(sessions'[x][m.from], x, m.from, y.num)
        BY <2>2, <2>3
    <2>6. QED BY <2>4, <2>5, UsedStep
<1>14. QED BY <1>10, <1>11, <1>12, <1>13 DEF RestartInv
----------------------------------------------------------------------------
\* Before any session exists, the invariant holds.
LEMMA RestartInit == Init => RestartInv
<1> SUFFICES ASSUME Init PROVE RestartInv
    OBVIOUS
<1>1. \A d \in Device : DOMAIN sessions[d] = {}
    BY DEF Init
<1>2. network = {} /\ \A d \in Device : opened[d] = {}
    BY DEF Init
<1>3. RestartShapes
    <2>1. restarts \in [Device -> Nat] /\ \A d \in Device : restarts[d] <= MaxRestarts
        BY BoundsAssumption DEF Init
    <2>2. handed \in [Device -> Seq(Messages)]
        BY DEF Init
    <2>3. \A d \in Device : DOMAIN sessions[d] \subseteq Device
        BY <1>1
    <2>4. DOMAIN sessions = Device
        BY DEF Init
    <2>5. QED BY <2>1, <2>2, <2>3, <2>4 DEF Init, RestartShapes
<1>4. LinksInv /\ SealedInv /\ UsedInv
    BY <1>1, <1>2 DEF LinksInv, SealedInv, UsedInv
<1>5. QED BY <1>3, <1>4 DEF RestartInv

\* Every step, restarts and early sessions included, keeps the invariant.
LEMMA RestartStep == RestartInv /\ [RestartNext]_vars => RestartInv'
<1> SUFFICES ASSUME RestartInv, [RestartNext]_vars PROVE RestartInv'
    OBVIOUS
<1>1. ASSUME NEW d \in Device, RegisterDevice(d) PROVE RestartInv'
    BY <1>1, RestartRegister
<1>2. ASSUME NEW d \in Device, SetOnInbound(d) PROVE RestartInv'
    BY <1>2, RestartCallback
<1>3. ASSUME NEW d \in Device, Restart(d) PROVE RestartInv'
    BY <1>3, RestartCrash
<1>4. ASSUME NEW c \in Contacts, c[2] \notin DOMAIN sessions[c[1]],
             CreateSessionWith(c[1], c[2])
      PROVE  RestartInv'
    <2>1. c[1] \in Device /\ c[2] \in Device /\ <<c[1], c[2]>> \in Contacts
        BY ContactsAssumption
    <2>2. QED BY <1>4, <2>1, RestartOpen
<1>5. ASSUME NEW c \in Contacts, SendMessageToDevice(c[1], c[2])
      PROVE  RestartInv'
    <2>1. c[1] \in Device /\ c[2] \in Device /\ <<c[1], c[2]>> \in Contacts
        BY ContactsAssumption
    <2>2. QED BY <1>5, <2>1, RestartSend
<1>6. ASSUME NEW d \in Device, NEW env \in network, OnRawMessage(d, env)
      PROVE  RestartInv'
    BY <1>6, RestartReceive
<1>7. ASSUME UNCHANGED vars PROVE RestartInv'
    <2>1. RestartShapes
        BY DEF RestartInv
    <2>2. QED BY <1>7, <2>1, QuietStep DEF vars, RestartShapes
<1>8. QED BY <1>1, <1>2, <1>3, <1>4, <1>5, <1>6, <1>7 DEF RestartNext

\* With restarts and sessions opened before registration, a ratchet that has not turned
\* stays on the common chain, and a key that has opened an envelope is gone.
THEOREM RestartInvariance == RestartSpec => []RestartInv
<1>1. QED BY RestartInit, RestartStep, PTL DEF RestartSpec

\* Whatever two ends that have not turned and agree on the session id have been through,
\* what the sender seals next opens.
THEOREM UnturnedLinkWorksHolds == RestartSpec => []UnturnedLinkWorks
<1>1. RestartInv => UnturnedLinkWorks
    <2> SUFFICES ASSUME RestartInv, NEW s \in Device, NEW d \in Device, <<s, d>> \in Contacts,
                        d \in DOMAIN sessions[s], s \in DOMAIN sessions[d],
                        NotTurned(s, d), NotTurned(d, s),
                        sessions[s][d].sid = sessions[d][s].sid,
                        sessions[d][s].lastRemote \in {NoKey, sessions[s][d].pub}
                 PROVE  Opens(sessions[d][s], Sealed(sessions[s][d], NoSession, deviceId[s],
                                                     Message(s, d, sent[<<s, d>>])))
        <3>1. \A c \in Contacts : c[1] \in Device /\ c[2] \in Device /\ c = <<c[1], c[2]>>
            BY ContactsAssumption
        <3>2. QED BY <3>1 DEF UnturnedLinkWorks
    <2>1. PICK r : r = sessions[d][s]
        OBVIOUS
    <2>2. PICK o : o = sessions[s][d]
        OBVIOUS
    <2>3. PICK env : env = Sealed(o, NoSession, deviceId[s], Message(s, d, sent[<<s, d>>]))
        OBVIOUS
    <2>4. /\ GoodRatchet(r, d, s) /\ r.sid # NoSession /\ r.pub \in Pubs
          /\ Heard(r, d, s, restarts[s], Reach(s, d))
        BY <2>1, LinkAt
    <2>5. /\ GoodRatchet(o, s, d) /\ o.sid # NoSession /\ o.pub \in Pubs
          /\ o.pub = KeyPair(s, d, restarts[s])
        BY <2>2, LinkAt
    <2>6. o.sendN \in Nat /\ r.recvN \in Nat /\ Reach(s, d) = o.sendN + 1
        BY <2>2, <2>4, <2>5 DEF GoodRatchet, Reach
    <2>7. Fresh(o, s, d) /\ Fresh(r, d, s)
        BY <2>1, <2>2 DEF NotTurned, Fresh
    <2>8. /\ env.sid = r.sid /\ env.num = o.sendN /\ env.pub = o.pub
          /\ env.key = Key(s, d, o.sendN)
        <3>1. o.sendChain = Key(s, d, o.sendN)
            BY <2>5, <2>7 DEF GoodRatchet
        <3>2. QED BY <2>1, <2>2, <2>3, <2>5, <3>1 DEF Sealed, SessionToUse
    <2>9. r.recvN <= o.sendN
        <3>1. CASE r.lastRemote = NoKey /\ r.recvN = 0
            BY <2>6, <3>1
        <3>2. CASE \E b \in 0 .. restarts[s] : /\ r.lastRemote = KeyPair(s, d, b)
                                               /\ b = restarts[s] => r.recvN < Reach(s, d)
            <4>1. PICK b \in 0 .. restarts[s] : /\ r.lastRemote = KeyPair(s, d, b)
                                                /\ b = restarts[s] => r.recvN < Reach(s, d)
                BY <3>2
            <4>2. b \in 0 .. MaxRestarts
                BY BoundsAssumption DEF RestartInv, RestartShapes
            <4>3. KeyPair(s, d, b) # NoKey
                BY <4>2, SessionAssumption
            <4>4. KeyPair(s, d, b) = KeyPair(s, d, restarts[s])
                BY <2>1, <2>2, <2>5, <4>1, <4>3
            <4>5. b = restarts[s]
                BY <4>4, KeyPairInjective
            <4>6. QED BY <2>6, <4>1, <4>5
        <3>3. QED BY <2>4, <2>7, <3>1, <3>2 DEF Heard
    <2>10. PICK p : p = Prepared(r, env)
        OBVIOUS
    <2>11. /\ GoodRatchet(p, d, s)
           /\ Fresh(p, d, s) <=> Fresh(r, d, s) /\ r.lastRemote \in {NoKey, env.pub}
           /\ Fresh(p, d, s) => p.recvN \in {r.recvN, env.num}
           /\ env.num <= p.recvN
        <3>1. env.pub \in Pubs /\ env.num \in Nat
            BY <2>5, <2>6, <2>8
        <3>2. QED BY <2>4, <2>10, <3>1, PreparedGood
    <2>12. Fresh(p, d, s) /\ p.recvN = env.num
        <3>1. Fresh(p, d, s)
            BY <2>1, <2>2, <2>7, <2>8, <2>11
        <3>2. QED BY <2>6, <2>8, <2>9, <2>11, <3>1
    <2>13. p.recvChain = Key(d, s, env.num) /\ env.num \notin DOMAIN p.skipped
        <3>1. /\ p.recvChain = Key(d, s, p.recvN)
              /\ \A i \in DOMAIN p.skipped : i \in Nat /\ i < p.recvN
            BY <2>11, <2>12 DEF GoodRatchet
        <3>2. QED BY <2>6, <2>8, <2>12, <3>1
    <2>14. KeyTried(p, env.num) = env.key
        BY <2>8, <2>13, Symmetry DEF KeyTried
    <2>15. ForThisSession(r, env)
        BY <2>8 DEF ForThisSession
    <2>16. Opens(r, env)
        BY <2>10, <2>14, <2>15 DEF Opens
    <2>17. QED BY <2>1, <2>2, <2>3, <2>16
<1>2. QED BY <1>1, RestartInvariance, PTL

\* Restarts or not, what a session hands up it has not decrypted before.
THEOREM NoReplayInSessionHolds == RestartSpec => NoReplayInSession
<1>1. ASSUME RestartInv, [RestartNext]_vars, NEW d \in Device, handed'[d] # handed[d]
      PROVE  handed'[d][Len(handed'[d])] \notin opened[d]
    <2>1. PICK x \in Device : \E env \in network : OnRawMessage(x, env)
        BY <1>1 DEF RestartNext, RegisterDevice, SetOnInbound, Restart, CreateSessionWith,
                    SendMessageToDevice, vars
    <2>2. PICK env \in network : OnRawMessage(x, env)
        BY <2>1
    <2>3. handed \in [Device -> Seq(Messages)]
        BY <1>1 DEF RestartInv, RestartShapes
    <2>4. /\ env.sender \in DOMAIN sessions[d]
          /\ Opens(sessions[d][env.sender], env)
          /\ handed'[d] = Append(handed[d], env.body)
        BY <1>1, <2>2, <2>3 DEF OnRawMessage
    <2>5. handed'[d][Len(handed'[d])] = env.body
        <3>1. handed[d] \in Seq(Messages)
            BY <2>3
        <3>2. QED BY <2>4, <3>1
    <2>6. PICK e : e = env.sender
        OBVIOUS
    <2>7. PICK r : r = sessions[d][e]
        OBVIOUS
    <2>8. ForThisSession(r, env)
        BY <2>4, <2>6, <2>7 DEF Opens
    <2>9. /\ env.body.from = e /\ env.pub \in Pubs /\ env.num \in Nat
          /\ env.key = Key(d, e, env.num) \/ env.key.label = "SendChain"
        BY <1>1, <2>4, <2>6, <2>7, <2>8, ForThisLink
    <2>10. GoodRatchet(r, d, e) /\ r.pub \in Pubs
        BY <1>1, <2>4, <2>6, <2>7, LinkAt
    <2>11. HasKey(r, d, e, env.num)
        BY <2>4, <2>6, <2>7, <2>8, <2>9, <2>10, DecryptGood
    <2>12. SUFFICES ASSUME env.body \in opened[d] PROVE FALSE
        BY <2>5
    <2>13. PICK y \in network :
              y.body = env.body /\ ~ HasKey(sessions[d][env.body.from], d, env.body.from, y.num)
        BY <1>1, <2>12 DEF RestartInv, UsedInv
    <2>14. y = env
        BY <1>1, <2>13 DEF RestartInv, SealedInv
    <2>15. QED BY <2>7, <2>9, <2>11, <2>13, <2>14
<1>2. RestartInv /\ [RestartNext]_vars =>
        [\A d \in Device : handed'[d] # handed[d] =>
            handed'[d][Len(handed'[d])] \notin opened[d]]_vars
    BY <1>1
<1>3. QED BY <1>2, RestartInvariance, PTL DEF RestartSpec, NoReplayInSession
============================================================================
