---------------------------- MODULE PairProofs ----------------------------
(***************************************************************************)
(* What RatchetPair!Spec guarantees for any two parties, root key, session *)
(* id and bounds.  After n ratchet steps a ratchet is PairRatchet of n, of *)
(* its counters and of what it has put aside, whatever was sent, lost,     *)
(* reordered, repeated or recovered.                                       *)
(***************************************************************************)
EXTENDS RatchetPair, SequenceTheorems, TLAPS

\* The root key after n steps: both parties mix in the one secret they share.
RootAfter(n) == [secret |-> Shared, mixed |-> [i \in 1 .. n |-> Side]]

SendLabel(n) == IF n = 0 THEN "root" ELSE "SendChain"

RecvLabel(n) == IF n = 0 THEN "root" ELSE "RecvChain"

SendKey(n, pos) == ChainKey(RootAfter(n), SendLabel(n), pos)

RecvKey(n, pos) == ChainKey(RootAfter(n), RecvLabel(n), pos)

Fields(pub, root, sendChain, recvChain, sendN, recvN, last, sid, keys) ==
    [pub |-> pub, root |-> root, sendChain |-> sendChain, recvChain |-> recvChain,
     sendN |-> sendN, recvN |-> recvN, lastRemote |-> last, sid |-> sid,
     skipped |-> keys]

PairRatchet(s, n, out, in, last, sid, keys) ==
    Fields(s, RootAfter(n), SendKey(n, out), RecvKey(n, in), out, in, last, sid, keys)

\* Skipped keys come from receiving chains, and, before the first step, from
\* the positions passed.  A step keeps them.
AsideInv(keys, n, in) ==
    \A i \in DOMAIN keys : /\ i \in Nat /\ keys[i].label # "SendChain"
                           /\ n = 0 => i < in

IsRatchet(r, s, n) ==
    \E out, in, last, sid, keys :
        /\ out \in Nat /\ in \in Nat /\ last \in {NoKey, Peer(s)}
        /\ r = PairRatchet(s, n, out, in, last, sid, keys) /\ AsideInv(keys, n, in)

RatchetInv ==
    /\ DOMAIN ratchet = Side /\ steps \in [Side -> Nat]
    /\ \A s \in Side : IsRatchet(ratchet[s], s, steps[s])

\* What was exported was such a ratchet.
BackupInv ==
    /\ DOMAIN backup = Side
    /\ \A s \in Side : backup[s] # NoBackup =>
          /\ backup[s].steps \in Nat
          /\ \E r : backup[s].state = ExportState(r) /\ IsRatchet(r, s, backup[s].steps)

WireInv ==
    \A env \in wire :
        /\ env.sender \in Side /\ env.pub = env.sender /\ env.num \in Nat
        /\ \E n \in Nat : env.key = SendKey(n, env.num)

PairInv == RatchetInv /\ BackupInv /\ WireInv

\* The assignments that the methods make to the members of a ratchet.
WithChains(r, x, y, z) == [r EXCEPT !.root = x, !.sendChain = y, !.recvChain = z]

WithCounters(r, x, y, z) == [r EXCEPT !.sendN = x, !.recvN = y, !.lastRemote = z]

WithSent(r, x, y, z) == [r EXCEPT !.sid = x, !.sendChain = y, !.sendN = z]

WithAside(r, x, y, z) == [r EXCEPT !.skipped = x, !.recvChain = y, !.recvN = z]

WithReceived(r, x, y) == [r EXCEPT !.recvChain = x, !.recvN = y]

LEMMA UpdatesFields ==
    ASSUME NEW pub, NEW root, NEW sc, NEW rc, NEW sn, NEW rn, NEW last, NEW sid, NEW keys,
           NEW x, NEW y, NEW z
    PROVE  LET r == Fields(pub, root, sc, rc, sn, rn, last, sid, keys) IN
           /\ WithChains(r, x, y, z) = Fields(pub, x, y, z, sn, rn, last, sid, keys)
           /\ WithCounters(r, x, y, z) = Fields(pub, root, sc, rc, x, y, z, sid, keys)
           /\ WithSent(r, x, y, z) = Fields(pub, root, y, rc, z, rn, last, x, keys)
           /\ WithAside(r, x, y, z) = Fields(pub, root, sc, y, sn, z, last, sid, x)
<1> DEFINE r == Fields(pub, root, sc, rc, sn, rn, last, sid, keys)
<1>1. WithChains(r, x, y, z)
        = Fields(pub, x, y, z, sn, rn, last, sid, keys)
    <2> DEFINE a == Fields(pub, x, sc, rc, sn, rn, last, sid, keys)
               b == Fields(pub, x, y, rc, sn, rn, last, sid, keys)
               c == Fields(pub, x, y, z, sn, rn, last, sid, keys)
    <2>1. [r EXCEPT !.root = x] = a
        BY DEF Fields
    <2>2. [a EXCEPT !.sendChain = y] = b
        BY DEF Fields
    <2>3. [b EXCEPT !.recvChain = z] = c
        BY DEF Fields
    <2> HIDE DEF r, a, b, c
    <2>4. WithChains(r, x, y, z) = c
        BY <2>1, <2>2, <2>3 DEF WithChains
    <2>5. QED BY <2>4 DEF c
<1>2. WithCounters(r, x, y, z)
        = Fields(pub, root, sc, rc, x, y, z, sid, keys)
    <2> DEFINE a == Fields(pub, root, sc, rc, x, rn, last, sid, keys)
               b == Fields(pub, root, sc, rc, x, y, last, sid, keys)
               c == Fields(pub, root, sc, rc, x, y, z, sid, keys)
    <2>1. [r EXCEPT !.sendN = x] = a
        BY DEF Fields
    <2>2. [a EXCEPT !.recvN = y] = b
        BY DEF Fields
    <2>3. [b EXCEPT !.lastRemote = z] = c
        BY DEF Fields
    <2> HIDE DEF r, a, b, c
    <2>4. WithCounters(r, x, y, z) = c
        BY <2>1, <2>2, <2>3 DEF WithCounters
    <2>5. QED BY <2>4 DEF c
<1>3. WithSent(r, x, y, z)
        = Fields(pub, root, y, rc, z, rn, last, x, keys)
    <2> DEFINE a == Fields(pub, root, sc, rc, sn, rn, last, x, keys)
               b == Fields(pub, root, y, rc, sn, rn, last, x, keys)
               c == Fields(pub, root, y, rc, z, rn, last, x, keys)
    <2>1. [r EXCEPT !.sid = x] = a
        BY DEF Fields
    <2>2. [a EXCEPT !.sendChain = y] = b
        BY DEF Fields
    <2>3. [b EXCEPT !.sendN = z] = c
        BY DEF Fields
    <2> HIDE DEF r, a, b, c
    <2>4. WithSent(r, x, y, z) = c
        BY <2>1, <2>2, <2>3 DEF WithSent
    <2>5. QED BY <2>4 DEF c
<1>4. WithAside(r, x, y, z)
        = Fields(pub, root, sc, y, sn, z, last, sid, x)
    <2> DEFINE a == Fields(pub, root, sc, rc, sn, rn, last, sid, x)
               b == Fields(pub, root, sc, y, sn, rn, last, sid, x)
               c == Fields(pub, root, sc, y, sn, z, last, sid, x)
    <2>1. [r EXCEPT !.skipped = x] = a
        BY DEF Fields
    <2>2. [a EXCEPT !.recvChain = y] = b
        BY DEF Fields
    <2>3. [b EXCEPT !.recvN = z] = c
        BY DEF Fields
    <2> HIDE DEF r, a, b, c
    <2>4. WithAside(r, x, y, z) = c
        BY <2>1, <2>2, <2>3 DEF WithAside
    <2>5. QED BY <2>4 DEF c
<1>5. QED BY <1>1, <1>2, <1>3, <1>4

LEMMA ReceivedFields ==
    ASSUME NEW pub, NEW root, NEW sc, NEW rc, NEW sn, NEW rn, NEW last, NEW sid, NEW keys,
           NEW x, NEW y
    PROVE  WithReceived(Fields(pub, root, sc, rc, sn, rn, last, sid, keys), x, y)
             = Fields(pub, root, sc, x, sn, y, last, sid, keys)
<1> DEFINE r == Fields(pub, root, sc, rc, sn, rn, last, sid, keys)
<1>1. WithReceived(r, x, y)
        = Fields(pub, root, sc, x, sn, y, last, sid, keys)
    <2> DEFINE a == Fields(pub, root, sc, x, sn, rn, last, sid, keys)
               b == Fields(pub, root, sc, x, sn, y, last, sid, keys)
    <2>1. [r EXCEPT !.recvChain = x] = a
        BY DEF Fields
    <2>2. [a EXCEPT !.recvN = y] = b
        BY DEF Fields
    <2> HIDE DEF r, a, b
    <2>3. WithReceived(r, x, y) = b
        BY <2>1, <2>2 DEF WithReceived
    <2>4. QED BY <2>3 DEF b
<1>2. QED BY <1>1

LEMMA ImportFields ==
    ASSUME NEW pub, NEW root, NEW sc, NEW rc, NEW sn, NEW rn
    PROVE  ImportState(NewRatchet(NoKey),
                       [root |-> root, sendChain |-> sc, recvChain |-> rc, sendN |-> sn,
                        recvN |-> rn, pub |-> pub])
             = Fields(pub, root, sc, rc, sn, rn, NoKey, NoSession, NoSkipped)
<1> DEFINE r == NewRatchet(NoKey)
           st == [root |-> root, sendChain |-> sc, recvChain |-> rc, sendN |-> sn,
                  recvN |-> rn, pub |-> pub]
           a == Fields(NoKey, root, sc, rc, 0, 0, NoKey, NoSession, NoSkipped)
           b == Fields(NoKey, root, sc, rc, sn, 0, NoKey, NoSession, NoSkipped)
           c == Fields(NoKey, root, sc, rc, sn, rn, NoKey, NoSession, NoSkipped)
           d == Fields(pub, root, sc, rc, sn, rn, NoKey, NoSession, NoSkipped)
<1>1. r = Fields(NoKey, NoKey, NoKey, NoKey, 0, 0, NoKey, NoSession, NoSkipped)
    BY DEF NewRatchet, Fields
<1>2. WithChains(r, root, sc, rc) = a
    BY <1>1, UpdatesFields
<1>3. [a EXCEPT !.sendN = sn] = b /\ [b EXCEPT !.recvN = rn] = c
    BY DEF Fields
<1>4. [c EXCEPT !.pub = pub] = d /\ [d EXCEPT !.lastRemote = NoKey] = d
    BY DEF Fields
<1>5. /\ st.root = root /\ st.sendChain = sc /\ st.recvChain = rc
      /\ st.sendN = sn /\ st.recvN = rn /\ st.pub = pub
    OBVIOUS
<1> HIDE DEF r, st, a, b, c, d
<1>6. ImportState(r, st) = d
    BY <1>2, <1>3, <1>4, <1>5 DEF ImportState, WithChains
<1>7. QED BY <1>6 DEF r, st, d

LEMMA PeerIsOther ==
    ASSUME NEW s \in Side
    PROVE  /\ Peer(s) \in Side /\ Peer(s) # s /\ {s, Peer(s)} = Side
           /\ Peer(Peer(s)) = s
<1>1. \E t \in Side : t # s
    BY PairAssumption
<1>2. Peer(s) \in Side /\ Peer(s) # s
    BY <1>1 DEF Peer
<1>3. {s, Peer(s)} = Side
    BY <1>2, PairAssumption
<1>4. \E t \in Side : t # Peer(s)
    BY <1>2
<1>5. Peer(Peer(s)) \in Side /\ Peer(Peer(s)) # Peer(s)
    BY <1>4 DEF Peer
<1>6. QED BY <1>2, <1>3, <1>5

\* A step mixes the shared secret in once more and starts both chains.
LEMMA StepRatchet ==
    ASSUME NEW s \in Side, NEW n \in Nat, NEW next \in {n + 1}, NEW out, NEW in, NEW last,
           NEW sid, NEW keys
    PROVE  RatchetStep(PairRatchet(s, n, out, in, last, sid, keys), Peer(s))
             = PairRatchet(s, next, 0, 0, Peer(s), sid, keys)
<1> DEFINE r == PairRatchet(s, n, out, in, last, sid, keys)
<1>1. r.pub = s /\ r.root = RootAfter(n)
    BY DEF PairRatchet, Fields
<1>2. DhCompute(s, Peer(s)) = Side
    BY PeerIsOther DEF DhCompute
<1>3. MixIn(RootAfter(n), Side) = RootAfter(next)
    <2> DEFINE before == [i \in 1 .. n |-> Side]  after == [i \in 1 .. next |-> Side]
    <2>1. /\ before \in Seq({Side}) /\ after \in Seq({Side})
          /\ Len(before) = n /\ Len(after) = n + 1
        OBVIOUS
    <2>2. Append(before, Side) = after
        <3>1. /\ Append(before, Side) \in Seq({Side})
              /\ Len(Append(before, Side)) = n + 1
            BY <2>1, AppendProperties
        <3>2. \A i \in 1 .. n + 1 : Append(before, Side)[i] = Side /\ after[i] = Side
            BY <2>1, <3>1, ElementOfSeq
        <3> HIDE DEF before, after
        <3>3. QED BY <2>1, <3>1, <3>2, SeqEqual
    <2>3. RootAfter(n) = [secret |-> Shared, mixed |-> before]
        BY DEF RootAfter
    <2>4. RootAfter(next) = [secret |-> Shared, mixed |-> after]
        BY DEF RootAfter
    <2> HIDE DEF before, after
    <2>5. MixIn([secret |-> Shared, mixed |-> before], Side)
            = [secret |-> Shared, mixed |-> Append(before, Side)]
        <3> DEFINE root == [secret |-> Shared, mixed |-> before]
                   longer == Append(before, Side)
        <3>1. root.mixed = before
            OBVIOUS
        <3> HIDE DEF longer
        <3>2. [root EXCEPT !.mixed = longer] = [secret |-> Shared, mixed |-> longer]
            OBVIOUS
        <3> HIDE DEF root
        <3>3. MixIn(root, Side) = [root EXCEPT !.mixed = longer]
            BY <3>1 DEF MixIn, longer
        <3>4. QED BY <3>2, <3>3 DEF root, longer
    <2>6. QED BY <2>2, <2>3, <2>4, <2>5
<1>4. next \in Nat /\ next # 0
    OBVIOUS
<1>5. /\ ChainKey(RootAfter(next), "SendChain", 0) = SendKey(next, 0)
      /\ ChainKey(RootAfter(next), "RecvChain", 0) = RecvKey(next, 0)
    BY <1>4 DEF SendKey, RecvKey, SendLabel, RecvLabel
<1>6. HkdfRootChain(r, Side) =
        Fields(s, RootAfter(next), SendKey(next, 0), RecvKey(next, 0), out, in,
               last, sid, keys)
    <2>1. HkdfRootChain(r, Side) =
            WithChains(r, RootAfter(next), SendKey(next, 0), RecvKey(next, 0))
        <3> HIDE DEF r
        <3>1. QED BY <1>1, <1>3, <1>5 DEF HkdfRootChain, WithChains
    <2>2. QED BY <2>1, UpdatesFields DEF PairRatchet
<1>7. RatchetStep(r, Peer(s)) =
        WithCounters(HkdfRootChain(r, Side), 0, 0, Peer(s))
    BY <1>1, <1>2 DEF RatchetStep, WithCounters
<1> HIDE DEF r
<1>8. RatchetStep(r, Peer(s)) = PairRatchet(s, next, 0, 0, Peer(s), sid, keys)
    BY <1>6, <1>7, UpdatesFields DEF PairRatchet
<1>9. QED BY <1>8 DEF r

LEMMA EncryptRatchet ==
    ASSUME NEW s, NEW n, NEW out \in Nat, NEW next \in {out + 1}, NEW in, NEW last,
           NEW sid, NEW keys, NEW fresh
    PROVE  \E used : AfterEncrypt(PairRatchet(s, n, out, in, last, sid, keys), fresh)
                       = PairRatchet(s, n, next, in, last, used, keys)
<1> DEFINE r == PairRatchet(s, n, out, in, last, sid, keys)
           used == SessionToUse(r, fresh)
<1>1. r.sendN = out /\ AdvanceBy(r.sendChain, 1) = SendKey(n, next)
    BY DEF PairRatchet, Fields, AdvanceBy, SendKey, ChainKey
<1>2. AfterEncrypt(r, fresh) = WithSent(r, used, SendKey(n, next), next)
    <2> HIDE DEF r
    <2>1. QED BY <1>1 DEF AfterEncrypt, WithSent
<1> HIDE DEF used
<1>3. WithSent(r, used, SendKey(n, next), next)
        = PairRatchet(s, n, next, in, last, used, keys)
    BY UpdatesFields DEF PairRatchet
<1>4. QED BY <1>2, <1>3

\* decrypt_envelope before it authenticates: the position goes up to the number
\* in the header and what it passes is put aside.  The peer has one key pair, so
\* the DH ratchet does not turn.
LEMMA PrepareRatchet ==
    ASSUME NEW s \in Side, NEW n \in Nat, NEW r, IsRatchet(r, s, n),
           NEW env, env.pub = Peer(s), env.num \in Nat
    PROVE  \E out, at, keys2 :
             /\ out \in Nat /\ at \in Nat
             /\ Prepared(r, env) = PairRatchet(s, n, out, at, Peer(s), env.sid, keys2)
             /\ AsideInv(keys2, n, at)
             /\ env.num >= r.recvN => at = env.num /\ (env.num \notin DOMAIN keys2 \/ n # 0)
<1>1. PICK out, in, last, sid, keys :
          /\ out \in Nat /\ in \in Nat /\ last \in {NoKey, Peer(s)}
          /\ r = PairRatchet(s, n, out, in, last, sid, keys) /\ AsideInv(keys, n, in)
    BY DEF IsRatchet
<1>2. r.recvN = in
    BY <1>1 DEF PairRatchet, Fields
<1> DEFINE f == PairRatchet(s, n, out, in, Peer(s), env.sid, keys)
           num == env.num
<1>3. [r EXCEPT !.sid = env.sid] = PairRatchet(s, n, out, in, last, env.sid, keys)
    BY <1>1 DEF PairRatchet, Fields
<1>4. FollowRemote(PairRatchet(s, n, out, in, last, env.sid, keys), env.pub) = f
    BY <1>1 DEF FollowRemote, PairRatchet, Fields
<1>5. Prepared(r, env) = SkipTo(f, num)
    BY <1>3, <1>4 DEF Prepared
<1>6. CASE num <= in
    <2>1. SkipTo(f, num) = f
        BY <1>6 DEF SkipTo, PairRatchet, Fields
    <2>2. num >= in => num = in /\ (num \notin DOMAIN keys \/ n # 0)
        BY <1>1, <1>6 DEF AsideInv
    <2>3. QED BY <1>1, <1>5, <1>2, <2>1, <2>2
<1>7. CASE ~(num <= in)
    <2> DEFINE keys2 == [i \in DOMAIN keys \cup in .. num - 1 |->
                           IF i \in DOMAIN keys THEN keys[i]
                           ELSE AdvanceBy(RecvKey(n, in), i - in)]
    <2>1. in \in Nat /\ f.skipped = keys /\ f.recvN = in /\ f.recvChain = RecvKey(n, in)
        BY <1>1 DEF PairRatchet, Fields
    <2>2. AdvanceBy(RecvKey(n, in), num - in) = RecvKey(n, num)
        BY <2>1 DEF AdvanceBy, RecvKey, ChainKey
    <2>3. SkipTo(f, num) = WithAside(f, keys2, RecvKey(n, num), num)
        <3> HIDE DEF f
        <3>1. QED BY <1>7, <2>1, <2>2 DEF SkipTo, WithAside
    <2>4. \A i \in in .. num - 1 :
             AdvanceBy(RecvKey(n, in), i - in).label # "SendChain"
        BY DEF AdvanceBy, RecvKey, ChainKey, RecvLabel
    <2>5. AsideInv(keys2, n, num)
        BY <1>1, <1>7, <2>4 DEF AsideInv
    <2>6. num \notin DOMAIN keys2 \/ n # 0
        BY <1>1, <1>7 DEF AsideInv
    <2> HIDE DEF keys2
    <2>7. SkipTo(f, num) = PairRatchet(s, n, out, num, Peer(s), env.sid, keys2)
        BY <2>3, UpdatesFields DEF PairRatchet
    <2>8. QED BY <1>1, <1>5, <2>5, <2>6, <2>7
<1>8. QED BY <1>6, <1>7

\* decrypt_envelope as a whole keeps the form, whether it opens or fails.
LEMMA DecryptRatchet ==
    ASSUME NEW s \in Side, NEW n \in Nat, NEW r, IsRatchet(r, s, n),
           NEW env, env.pub = Peer(s), env.num \in Nat,
           \E k \in Nat : env.key = SendKey(k, env.num)
    PROVE  IsRatchet(AfterDecrypt(r, env), s, n)
<1> DEFINE num == env.num
           p == Prepared(r, env)
<1>1. PICK out, at, keys2 :
         /\ out \in Nat /\ at \in Nat
         /\ p = PairRatchet(s, n, out, at, Peer(s), env.sid, keys2)
         /\ AsideInv(keys2, n, at)
    BY PrepareRatchet
<1> HIDE DEF p
<1>2. IsRatchet(p, s, n)
    BY <1>1 DEF IsRatchet
<1>3. CASE ~ForThisSession(r, env)
    BY <1>3 DEF AfterDecrypt
<1>4. CASE ForThisSession(r, env) /\ ~Opens(r, env)
    BY <1>2, <1>4 DEF AfterDecrypt, p
<1>5. CASE ForThisSession(r, env) /\ Opens(r, env) /\ num \in DOMAIN p.skipped
    <2> DEFINE keys3 == [i \in DOMAIN keys2 \ {num} |-> keys2[i]]
    <2>1. AfterDecrypt(r, env) = [p EXCEPT !.skipped = keys3]
        <3>1. p.skipped = keys2
            BY <1>1 DEF PairRatchet, Fields
        <3>2. QED BY <1>5, <3>1 DEF AfterDecrypt, DropSkipped, p
    <2>2. AsideInv(keys3, n, at)
        BY <1>1 DEF AsideInv
    <2> HIDE DEF keys3
    <2>3. AfterDecrypt(r, env) = PairRatchet(s, n, out, at, Peer(s), env.sid, keys3)
        BY <1>1, <2>1 DEF PairRatchet, Fields
    <2>4. QED BY <1>1, <2>2, <2>3 DEF IsRatchet
<1>6. CASE ForThisSession(r, env) /\ Opens(r, env) /\ num \notin DOMAIN p.skipped
    <2>1. p.recvChain = RecvKey(n, at) /\ p.recvChain = env.key
        <3>1. p.recvChain = RecvKey(n, at)
            BY <1>1 DEF PairRatchet, Fields
        <3>2. QED BY <1>6, <3>1 DEF Opens, KeyTried, p
    <2>2. at = num
        BY <2>1 DEF RecvKey, SendKey, ChainKey
    <2> DEFINE next == num + 1
    <2>3. AdvanceBy(RecvKey(n, at), 1) = RecvKey(n, next)
        BY <2>2 DEF AdvanceBy, RecvKey, ChainKey
    <2>4. AfterDecrypt(r, env) = WithReceived(p, RecvKey(n, next), next)
        BY <1>6, <2>1, <2>3 DEF AfterDecrypt, WithReceived, p
    <2>5. AsideInv(keys2, n, next) /\ next \in Nat
        BY <1>1, <2>2 DEF AsideInv
    <2> HIDE DEF next
    <2>6. AfterDecrypt(r, env) = PairRatchet(s, n, out, next, Peer(s), env.sid, keys2)
        BY <1>1, <2>4, ReceivedFields DEF PairRatchet
    <2>7. QED BY <1>1, <2>5, <2>6 DEF IsRatchet
<1>7. QED BY <1>3, <1>4, <1>5, <1>6

\* The key decrypt_envelope tries is none of the peer's sending chain after a
\* step; before the first, it is the one a message ahead was sealed with.
LEMMA TriedKey ==
    ASSUME NEW s \in Side, NEW n \in Nat, NEW r, IsRatchet(r, s, n),
           NEW env, env.pub = Peer(s), env.num \in Nat
    PROVE  LET key == KeyTried(Prepared(r, env), env.num) IN
           /\ key.label # "SendChain"
           /\ n = 0 /\ env.num >= r.recvN => key = RecvKey(0, env.num)
<1> DEFINE p == Prepared(r, env)
<1>1. PICK out, at, keys2 :
         /\ p = PairRatchet(s, n, out, at, Peer(s), env.sid, keys2)
         /\ AsideInv(keys2, n, at)
         /\ env.num >= r.recvN => at = env.num /\ (env.num \notin DOMAIN keys2 \/ n # 0)
    BY PrepareRatchet
<1> HIDE DEF p
<1>2. p.skipped = keys2 /\ p.recvChain = RecvKey(n, at)
    BY <1>1 DEF PairRatchet, Fields
<1>3. RecvKey(n, at).label # "SendChain"
    BY DEF RecvKey, ChainKey, RecvLabel
<1>4. KeyTried(p, env.num).label # "SendChain"
    BY <1>1, <1>2, <1>3 DEF KeyTried, AsideInv
<1>5. ASSUME n = 0, env.num >= r.recvN PROVE KeyTried(p, env.num) = RecvKey(0, env.num)
    BY <1>1, <1>2, <1>5 DEF KeyTried
<1>6. QED BY <1>4, <1>5 DEF p

\* A recovered ratchet has lost what it had put aside, and its session id.
LEMMA RecoverRatchet ==
    ASSUME NEW s \in Side, NEW n \in Nat, NEW r, IsRatchet(r, s, n)
    PROVE  IsRatchet(ImportState(NewRatchet(NoKey), ExportState(r)), s, n)
<1>1. PICK out, in, last, sid, keys :
          /\ out \in Nat /\ in \in Nat
          /\ r = PairRatchet(s, n, out, in, last, sid, keys)
    BY DEF IsRatchet
<1>2. ExportState(r) = [root |-> RootAfter(n), sendChain |-> SendKey(n, out),
                        recvChain |-> RecvKey(n, in), sendN |-> out, recvN |-> in,
                        pub |-> s]
    BY <1>1 DEF ExportState, PairRatchet, Fields
<1>3. ImportState(NewRatchet(NoKey), ExportState(r))
        = PairRatchet(s, n, out, in, NoKey, NoSession, NoSkipped)
    BY <1>2, ImportFields DEF PairRatchet
<1>4. AsideInv(NoSkipped, n, in)
    BY DEF AsideInv, NoSkipped
<1>5. QED BY <1>1, <1>3, <1>4 DEF IsRatchet
----------------------------------------------------------------------------
LEMMA InitPair == Init => PairInv
<1> SUFFICES ASSUME Init PROVE PairInv
    OBVIOUS
<1>1. ASSUME NEW s \in Side
      PROVE  Initialize(NewRatchet(s), Shared, StartSid)
               = PairRatchet(s, 0, 0, 0, NoKey, StartSid, NoSkipped)
    <2>1. FreshRoot(Shared) = RootAfter(0)
        BY DEF FreshRoot, RootAfter
    <2>2. QED BY <2>1 DEF Initialize, NewRatchet, PairRatchet, Fields, SendKey, RecvKey, SendLabel, RecvLabel
<1>2. AsideInv(NoSkipped, 0, 0)
    BY DEF AsideInv, NoSkipped
<1>3. \A s \in Side : IsRatchet(PairRatchet(s, 0, 0, 0, NoKey, StartSid, NoSkipped), s, 0)
    BY <1>2 DEF IsRatchet
<1>4. RatchetInv
    BY <1>1, <1>3 DEF Init, RatchetInv
<1>5. QED BY <1>4 DEF Init, PairInv, BackupInv, WireInv

\* One ratchet and its number of steps change.
LEMMA OneRatchet ==
    ASSUME RatchetInv, NEW s \in Side, NEW r, NEW n \in Nat, IsRatchet(r, s, n),
           ratchet' = [ratchet EXCEPT ![s] = r], steps' = [steps EXCEPT ![s] = n]
    PROVE  RatchetInv'
BY DEF RatchetInv

LEMMA StepPair ==
    ASSUME PairInv, NEW s \in Side, Step(s)
    PROVE  PairInv'
<1> DEFINE next == steps[s] + 1
<1>1. IsRatchet(ratchet[s], s, steps[s]) /\ steps[s] \in Nat /\ next \in Nat
    BY DEF PairInv, RatchetInv
<1>2. ratchet[Peer(s)].pub = Peer(s)
    BY PeerIsOther DEF PairInv, RatchetInv, IsRatchet, PairRatchet, Fields
<1>3. PICK out, in, last, sid, keys :
          /\ ratchet[s] = PairRatchet(s, steps[s], out, in, last, sid, keys)
          /\ AsideInv(keys, steps[s], in)
    BY <1>1 DEF IsRatchet
<1>4. RatchetStep(ratchet[s], Peer(s)) = PairRatchet(s, next, 0, 0, Peer(s), sid, keys)
    BY <1>1, <1>3, StepRatchet
<1>5. AsideInv(keys, next, 0)
    BY <1>1, <1>3 DEF AsideInv
<1>6. IsRatchet(RatchetStep(ratchet[s], Peer(s)), s, next)
    BY <1>4, <1>5 DEF IsRatchet
<1>7. /\ ratchet' = [ratchet EXCEPT ![s] = RatchetStep(ratchet[s], Peer(s))]
      /\ steps' = [steps EXCEPT ![s] = next]
      /\ UNCHANGED <<wire, backup>>
    BY <1>2 DEF Step
<1> HIDE DEF next
<1>8. RatchetInv'
    BY <1>1, <1>6, <1>7, OneRatchet DEF PairInv
<1>9. QED BY <1>7, <1>8 DEF PairInv, BackupInv, WireInv

LEMMA EncryptPair ==
    ASSUME PairInv, NEW s \in Side, Encrypt(s)
    PROVE  PairInv'
<1> DEFINE env == Sealed(ratchet[s], DrawnSid(s), s, Text(s, sent[s]))
           r == AfterEncrypt(ratchet[s], DrawnSid(s))
<1>1. /\ wire' = wire \cup {env} /\ ratchet' = [ratchet EXCEPT ![s] = r]
      /\ UNCHANGED <<steps, backup>>
    BY DEF Encrypt
<1>2. IsRatchet(ratchet[s], s, steps[s]) /\ steps[s] \in Nat
    BY DEF PairInv, RatchetInv
<1>4. PICK out, in, last, sid, keys :
          /\ out \in Nat /\ in \in Nat /\ last \in {NoKey, Peer(s)}
          /\ ratchet[s] = PairRatchet(s, steps[s], out, in, last, sid, keys)
          /\ AsideInv(keys, steps[s], in)
    BY <1>2 DEF IsRatchet
<1>5. /\ env.sender = s /\ env.pub = s /\ env.num = out
      /\ env.key = SendKey(steps[s], out)
    BY <1>4 DEF Sealed, PairRatchet, Fields
<1> DEFINE next == out + 1
<1>6. PICK used : r = PairRatchet(s, steps[s], next, in, last, used, keys)
    <2>1. next \in {out + 1}
        OBVIOUS
    <2> HIDE DEF next
    <2>2. \E used : AfterEncrypt(PairRatchet(s, steps[s], out, in, last, sid, keys), DrawnSid(s))
                       = PairRatchet(s, steps[s], next, in, last, used, keys)
        BY <1>4, <2>1, EncryptRatchet
    <2>3. QED BY <1>4, <2>2
<1>7. IsRatchet(r, s, steps[s])
    BY <1>4, <1>6 DEF IsRatchet
<1> HIDE DEF env, r
<1>8. RatchetInv'
    <2>1. steps' = [steps EXCEPT ![s] = steps[s]]
        BY <1>1 DEF PairInv, RatchetInv
    <2>2. QED BY <1>1, <1>2, <1>7, <2>1, OneRatchet DEF PairInv
<1>9. WireInv'
    BY <1>1, <1>2, <1>4, <1>5 DEF PairInv, WireInv
<1>10. QED BY <1>1, <1>8, <1>9 DEF PairInv, BackupInv

LEMMA DecryptPair ==
    ASSUME PairInv, NEW s \in Side, NEW env \in wire, Decrypt(s, env)
    PROVE  PairInv'
<1> DEFINE r == AfterDecrypt(ratchet[s], env)
<1>1. /\ env.pub = Peer(s) /\ env.num \in Nat
      /\ \E k \in Nat : env.key = SendKey(k, env.num)
    BY DEF Decrypt, PairInv, WireInv
<1>2. IsRatchet(ratchet[s], s, steps[s]) /\ steps[s] \in Nat
    BY DEF PairInv, RatchetInv
<1>3. IsRatchet(r, s, steps[s])
    BY <1>1, <1>2, DecryptRatchet
<1>4. /\ ratchet' = [ratchet EXCEPT ![s] = r] /\ UNCHANGED <<wire, steps, backup>>
    BY DEF Decrypt
<1> HIDE DEF r
<1>5. steps' = [steps EXCEPT ![s] = steps[s]]
    BY <1>4 DEF PairInv, RatchetInv
<1>6. RatchetInv'
    BY <1>2, <1>3, <1>4, <1>5, OneRatchet DEF PairInv
<1>7. QED BY <1>4, <1>6 DEF PairInv, BackupInv, WireInv

LEMMA ExportPair ==
    ASSUME PairInv, NEW s \in Side, Export(s)
    PROVE  PairInv'
<1> DEFINE b == [state |-> ExportState(ratchet[s]), steps |-> steps[s]]
<1>1. backup' = [backup EXCEPT ![s] = b] /\ UNCHANGED <<ratchet, wire, steps>>
    BY DEF Export
<1>2. /\ b.steps \in Nat
      /\ \E r : b.state = ExportState(r) /\ IsRatchet(r, s, b.steps)
    BY DEF PairInv, RatchetInv
<1> HIDE DEF b
<1>3. BackupInv'
    BY <1>1, <1>2 DEF PairInv, BackupInv
<1>4. QED BY <1>1, <1>3 DEF PairInv, RatchetInv, WireInv

LEMMA RecoverPair ==
    ASSUME PairInv, NEW s \in Side, Recover(s)
    PROVE  PairInv'
<1> DEFINE r == ImportState(NewRatchet(NoKey), backup[s].state)
           n == backup[s].steps
<1>1. /\ backup[s] # NoBackup
      /\ ratchet' = [ratchet EXCEPT ![s] = r] /\ steps' = [steps EXCEPT ![s] = n]
      /\ UNCHANGED <<wire, backup>>
    BY DEF Recover
<1>2. n \in Nat /\ IsRatchet(r, s, n)
    BY <1>1, RecoverRatchet DEF PairInv, BackupInv
<1> HIDE DEF r, n
<1>3. RatchetInv'
    BY <1>1, <1>2, OneRatchet DEF PairInv
<1>4. QED BY <1>1, <1>3 DEF PairInv, BackupInv, WireInv

LEMMA NextPair == PairInv /\ [Next]_pvars => PairInv'
<1> SUFFICES ASSUME PairInv, [Next]_pvars PROVE PairInv'
    OBVIOUS
<1>1. CASE UNCHANGED pvars
    BY <1>1 DEF pvars, PairInv, RatchetInv, BackupInv, WireInv
<1>2. QED
    BY <1>1, StepPair, EncryptPair, DecryptPair, ExportPair, RecoverPair DEF Next

\* What ratchet_step, encryption, decryption, export and import make of two
\* ratchets: each is determined by its steps, its counters and its skipped keys.
THEOREM PairInvariance == Spec => []PairInv
BY InitPair, NextPair, PTL DEF Spec

\* Parties that have called ratchet_step equally often agree on the root key.
THEOREM SameStepsSameRootHolds == Spec => []SameStepsSameRoot
<1>1. PairInv => SameStepsSameRoot
    <2>1. PairInv => \A s \in Side : ratchet[s].root = RootAfter(steps[s])
        BY DEF PairInv, RatchetInv, IsRatchet, PairRatchet, Fields
    <2>2. QED BY <2>1 DEF SameStepsSameRoot
<1>2. QED BY <1>1, PairInvariance, PTL

\* After a ratchet_step nothing its caller encrypts can be decrypted by the peer.
THEOREM SteppedIsMuteHolds == Spec => []SteppedIsMute
<1>1. ASSUME PairInv, NEW s \in Side, NEW env \in wire, env.sender = Peer(s),
             Opens(ratchet[s], env)
      PROVE  env.key.root.mixed = <<>>
    <2>1. /\ env.pub = Peer(s) /\ env.num \in Nat
          /\ IsRatchet(ratchet[s], s, steps[s]) /\ steps[s] \in Nat
        BY <1>1 DEF PairInv, WireInv, RatchetInv
    <2>2. PICK k \in Nat : env.key = SendKey(k, env.num)
        BY <1>1 DEF PairInv, WireInv
    <2>5. KeyTried(Prepared(ratchet[s], env), env.num).label # "SendChain"
        BY <2>1, TriedKey
    <2>6. env.key.label # "SendChain"
        BY <1>1, <2>5 DEF Opens
    <2>7. k = 0
        BY <2>2, <2>6 DEF SendKey, ChainKey, SendLabel
    <2>8. QED BY <2>2, <2>7 DEF SendKey, ChainKey, RootAfter
<1>2. PairInv => SteppedIsMute
    BY <1>1 DEF SteppedIsMute
<1>3. QED BY <1>2, PairInvariance, PTL

\* What is ahead on a party's receiving chain it decrypts, recovered or not.
THEOREM AheadOpensHolds == Spec => []AheadOpens
<1>1. ASSUME PairInv, NEW s \in Side, NEW env \in wire, env.sender = Peer(s),
             ForThisSession(ratchet[s], env),
             env.key.root = ratchet[s].recvChain.root,
             env.key.label = ratchet[s].recvChain.label,
             env.num >= ratchet[s].recvN
      PROVE  Opens(ratchet[s], env)
    <2>1. /\ env.pub = Peer(s) /\ env.num \in Nat
          /\ IsRatchet(ratchet[s], s, steps[s]) /\ steps[s] \in Nat
        BY <1>1 DEF PairInv, WireInv, RatchetInv
    <2>2. PICK k \in Nat : env.key = SendKey(k, env.num)
        BY <1>1 DEF PairInv, WireInv
    <2>3. ratchet[s].recvChain.label = RecvLabel(steps[s])
        BY <2>1 DEF IsRatchet, PairRatchet, Fields, RecvKey, ChainKey
    <2>4. k = 0 /\ steps[s] = 0
        BY <1>1, <2>2, <2>3 DEF SendKey, ChainKey, SendLabel, RecvLabel
    <2>5. KeyTried(Prepared(ratchet[s], env), env.num) = RecvKey(0, env.num)
        BY <1>1, <2>1, <2>4, TriedKey
    <2>6. RecvKey(0, env.num) = env.key
        BY <2>2, <2>4 DEF RecvKey, SendKey, SendLabel, RecvLabel
    <2>7. QED BY <1>1, <2>5, <2>6 DEF Opens
<1>2. PairInv => AheadOpens
    BY <1>1 DEF AheadOpens
<1>3. QED BY <1>2, PairInvariance, PTL
============================================================================
