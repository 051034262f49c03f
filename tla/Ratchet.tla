------------------------------ MODULE Ratchet ------------------------------
(***************************************************************************)
(* The securecomm::Ratchet object of libsecurecomm (ratchet.cpp): one      *)
(* party's half of a one-to-one session, as a record, and its methods, as  *)
(* operators on that record.  The module has no variables; Dispatcher and  *)
(* RatchetPair hold the records and say when the methods are called.       *)
(*                                                                         *)
(* Cryptography is symbolic.  A key is the term that derives it, so two    *)
(* keys are equal exactly when they were derived alike, and the AEAD       *)
(* opens a ciphertext exactly with the key it was sealed with.             *)
(*   - a Diffie-Hellman secret is the set of the two public keys;          *)
(*   - a root key is the pre-shared root with the sequence of the secrets  *)
(*     the KDF has mixed into it;                                          *)
(*   - a chain key is a root key, the label the chain was derived with,    *)
(*     and how often the chain has been advanced since;                    *)
(*   - the message key of a chain key is derived from that chain key       *)
(*     alone, so the chain key stands for it.                              *)
(*                                                                         *)
(* An operator whose name starts with Faulty is no part of the model: it   *)
(* is a plausible mistake in the operator after it, put in its place to    *)
(* see which property notices.                                             *)
(***************************************************************************)
EXTENDS Naturals, Sequences

CONSTANTS NoKey,     \* an empty key vector
          NoSession  \* an empty session_id_

\* The root key a pre-shared secret starts a session with.
FreshRoot(secret) == [secret |-> secret, mixed |-> <<>>]

FaultyDhCompute(ownPub, remotePub) == <<ownPub, remotePub>>  \* one secret a side

\* X25519: both sides of a key exchange compute the same secret.
DhCompute(ownPub, remotePub) == {ownPub, remotePub}

\* HKDF-extract: the new root key mixes the secret into the old one.
MixIn(root, secret) == [root EXCEPT !.mixed = Append(@, secret)]

ChainKey(root, label, pos) == [root |-> root, label |-> label, pos |-> pos]

AdvanceBy(chain, n) == [chain EXCEPT !.pos = @ + n]

NoSkipped == [i \in {} |-> {}]
----------------------------------------------------------------------------
(***************************************************************************)
(* Construction and (re-)initialization.  The constructor makes the DH key *)
(* pair, which no method but import_state replaces; initialize starts both *)
(* chains from the root key itself, forgets the remote's key, and keeps    *)
(* the key pair and the skipped keys it finds.                             *)
(***************************************************************************)
NewRatchet(pub) ==
    [pub |-> pub, root |-> NoKey, sendChain |-> NoKey, recvChain |-> NoKey,
     sendN |-> 0, recvN |-> 0, lastRemote |-> NoKey, sid |-> NoSession,
     skipped |-> NoSkipped]

Initialize(r, secret, sid) ==
    LET root == FreshRoot(secret) IN
    [pub |-> r.pub, root |-> root,
     sendChain |-> ChainKey(root, "root", 0),
     recvChain |-> ChainKey(root, "root", 0),
     sendN |-> 0, recvN |-> 0, lastRemote |-> NoKey, sid |-> sid,
     skipped |-> r.skipped]

\* hkdf_root_chain: whichever side runs it, the chain labelled SendChain
\* becomes the sending chain and the one labelled RecvChain the receiving one.
HkdfRootChain(r, secret) ==
    LET root == MixIn(r.root, secret) IN
    [r EXCEPT !.root = root,
              !.sendChain = ChainKey(root, "SendChain", 0),
              !.recvChain = ChainKey(root, "RecvChain", 0)]

RatchetStep(r, remotePub) ==
    [HkdfRootChain(r, DhCompute(r.pub, remotePub))
        EXCEPT !.sendN = 0, !.recvN = 0, !.lastRemote = remotePub]
----------------------------------------------------------------------------
(***************************************************************************)
(* encrypt_envelope.  The header holds the message number and the sender's *)
(* public key and is authenticated with the ciphertext; "key" and "body"   *)
(* are the ciphertext: the key it was sealed with, the plaintext inside.   *)
(* An empty session id is replaced by a random one (freshSid); "sender" is *)
(* the device id the dispatcher writes into the envelope.                  *)
(***************************************************************************)
SessionToUse(r, freshSid) == IF r.sid = NoSession THEN freshSid ELSE r.sid

FaultySealed(r, freshSid, sender, body) ==  \* numbered from -1
    [sid |-> SessionToUse(r, freshSid), sender |-> sender, num |-> r.sendN - 1,
     pub |-> r.pub, key |-> r.sendChain, body |-> body]

Sealed(r, freshSid, sender, body) ==
    [sid |-> SessionToUse(r, freshSid), sender |-> sender, num |-> r.sendN,
     pub |-> r.pub, key |-> r.sendChain, body |-> body]

FaultyAfterEncrypt(r, freshSid) ==  \* the chain is not advanced
    [r EXCEPT !.sid = SessionToUse(r, freshSid), !.sendN = @ + 1]

AfterEncrypt(r, freshSid) ==
    [r EXCEPT !.sid = SessionToUse(r, freshSid),
              !.sendChain = AdvanceBy(@, 1),
              !.sendN = @ + 1]
----------------------------------------------------------------------------
(***************************************************************************)
(* decrypt_envelope, in the order of the code: the session id is checked   *)
(* or adopted, a new public key in the header turns the DH ratchet, the    *)
(* keys up to the message's number are put aside, and only then is the     *)
(* ciphertext authenticated; a failure keeps what was changed before it.   *)
(***************************************************************************)
\* The DH ratchet of a receiver resets recvN, but neither sendN nor skipped.
FollowRemote(r, pub) ==
    IF r.lastRemote \notin {NoKey, pub}
    THEN [HkdfRootChain(r, DhCompute(r.pub, pub))
             EXCEPT !.recvN = 0, !.lastRemote = pub]
    ELSE [r EXCEPT !.lastRemote = pub]

FaultySkipTo(r, num) ==  \* the keys passed over are not kept
    IF num <= r.recvN THEN r
    ELSE [r EXCEPT !.recvChain = AdvanceBy(@, num - r.recvN), !.recvN = num]

\* The loop that puts aside the keys of recvN .. num - 1.  map::emplace keeps
\* the entry it finds under a number that is already there.
SkipTo(r, num) ==
    IF num <= r.recvN THEN r
    ELSE [r EXCEPT
            !.skipped = [i \in DOMAIN r.skipped \cup r.recvN .. num - 1 |->
                            IF i \in DOMAIN r.skipped THEN r.skipped[i]
                            ELSE AdvanceBy(r.recvChain, i - r.recvN)],
            !.recvChain = AdvanceBy(@, num - r.recvN),
            !.recvN = num]

FaultyDropSkipped(r, num) == r  \* a used key is not erased

DropSkipped(r, num) ==
    [r EXCEPT !.skipped = [i \in DOMAIN r.skipped \ {num} |-> r.skipped[i]]]

\* What the ratchet is when the ciphertext is about to be authenticated.
Prepared(r, env) ==
    SkipTo(FollowRemote([r EXCEPT !.sid = env.sid], env.pub), env.num)

FaultyForThisSession(r, env) == TRUE  \* envelopes of other sessions are tried

\* The session id check, the only one that leaves the ratchet untouched.
ForThisSession(r, env) == r.sid \in {NoSession, env.sid}

\* A skipped key is tried alone; without one the current chain key is tried,
\* whatever the message's number.
KeyTried(r, num) ==
    IF num \in DOMAIN r.skipped THEN r.skipped[num] ELSE r.recvChain

Opens(r, env) ==
    /\ ForThisSession(r, env)
    /\ KeyTried(Prepared(r, env), env.num) = env.key

FaultyAfterDecrypt(r, env) ==  \* the position moves before authentication
    LET p == Prepared(r, env) IN
    IF ~ForThisSession(r, env) THEN r
    ELSE IF env.num \in DOMAIN p.skipped THEN DropSkipped(p, env.num)
    ELSE [p EXCEPT !.recvChain = AdvanceBy(@, 1), !.recvN = env.num + 1]

AfterDecrypt(r, env) ==
    LET p == Prepared(r, env) IN
    IF ~ForThisSession(r, env) THEN r
    ELSE IF ~Opens(r, env) THEN p
    ELSE IF env.num \in DOMAIN p.skipped THEN DropSkipped(p, env.num)
    ELSE [p EXCEPT !.recvChain = AdvanceBy(@, 1), !.recvN = env.num + 1]
----------------------------------------------------------------------------
(***************************************************************************)
(* export_state and import_state.  The skipped keys, the session id and    *)
(* the remote's key are not part of the exported bytes; the object that    *)
(* imports them keeps its own session id and skipped keys.                 *)
(***************************************************************************)
ExportState(r) ==
    [root |-> r.root, sendChain |-> r.sendChain, recvChain |-> r.recvChain,
     sendN |-> r.sendN, recvN |-> r.recvN, pub |-> r.pub]

FaultyImportState(r, s) ==  \* the receive counter is not restored
    [r EXCEPT !.root = s.root, !.sendChain = s.sendChain,
              !.recvChain = s.recvChain, !.sendN = s.sendN,
              !.pub = s.pub, !.lastRemote = NoKey]

ImportState(r, s) ==
    [r EXCEPT !.root = s.root, !.sendChain = s.sendChain,
              !.recvChain = s.recvChain, !.sendN = s.sendN,
              !.recvN = s.recvN, !.pub = s.pub, !.lastRemote = NoKey]
============================================================================
