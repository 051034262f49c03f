------------------------------ MODULE Accounts ------------------------------
(***************************************************************************)
(* The accounts and the key store of server/main.go: /v1/register,         *)
(* /v1/keys, the codes sent to a phone or an email and their verification, *)
(* and contact discovery, over the tables of server.db.                    *)
(*                                                                         *)
(* A step is one statement of one request.  The requests share nothing but *)
(* the database, so its locks decide what may come between two statements. *)
(* The driver opens it with a rollback journal, deferred transactions and  *)
(* a busy timeout: a read takes a SHARED lock, kept to the end of its      *)
(* transaction; the first write takes the one RESERVED lock; a commit bars *)
(* new readers (PENDING), waits for those there are, and only then is what *)
(* the transaction wrote in the tables.  A statement waits for a lock,     *)
(* and fails when the wait takes too long; one that would have to wait     *)
(* holding SHARED fails at once.                                           *)
(*                                                                         *)
(* A request stands for the id, the token or the code it makes, which are  *)
(* taken to be unique.  Display names, creation times and the online       *)
(* column are left out, and so are the hashes contacts are compared by.    *)
(*                                                                         *)
(* An operator whose name starts with Faulty is no part of the model: it   *)
(* is a plausible mistake in the operator after it, put in its place to    *)
(* see which property notices.                                             *)
(***************************************************************************)
EXTENDS Naturals, Sequences

CONSTANTS User,        \* the user ids given to /v1/register
          Phone, Email,
          Registers, Fetches, CodeRequests, Verifies, Discovers,  \* requests
          UserOf,      \* the user registered, or whose keys are fetched
          AddressOf,   \* the address registered, sent a code, or verified
          Presents,    \* the request whose code or token one presents
          LooksFor,    \* the contacts of a discovery
          Offered,     \* the one-time prekeys of a registration, in order
          Padded,      \* those whose base64 text ends in padding
          None

Request == Registers \cup Fetches \cup CodeRequests \cup Verifies \cup Discovers
Address == Phone \cup Email
Prekey  == UNION {{Offered[r][i] : i \in DOMAIN Offered[r]} : r \in Registers}
UserId  == User \cup Verifies  \* a verification names its user after the time

ASSUME AccountsAssumption ==
    /\ Registers \cap Fetches = {}
    /\ (Registers \cup Fetches) \cap (CodeRequests \cup Verifies \cup Discovers) = {}
    /\ CodeRequests \cap (Verifies \cup Discovers) = {} /\ Verifies \cap Discovers = {}
    /\ UserOf \in [Registers \cup Fetches -> User]
    /\ AddressOf \in [Registers \cup CodeRequests \cup Verifies -> Address]
    /\ Presents \in [Verifies \cup Discovers -> Request]
    /\ LooksFor \in [Discovers -> SUBSET Address]
    /\ \A r \in Registers : AddressOf[r] \in Phone
    /\ \A r \in Registers : Offered[r] \in Seq(Prekey)
    /\ \A r, s \in Registers : \A i \in DOMAIN Offered[r], j \in DOMAIN Offered[s] :
          Offered[r][i] = Offered[s][j] => r = s /\ i = j
    /\ None \notin Request \cup [id : Nat, user : User, key : Prekey]

VARIABLES
    users,     \* for each id, the request that wrote its row last
    prekeys,   \* the rows of one_time_prekeys
    lastId,    \* the last id given to one of them
    codes,     \* the row of each address in otp_requests or email_verifications
    stage,     \* how far each request is; "ok" and "failed" are its answers
    taken,     \* the row of one_time_prekeys each fetch has selected
    found,     \* what each discovery has found
    shared,    \* the requests that hold a SHARED lock
    reserved   \* the request that holds the RESERVED lock

avars == <<users, prekeys, lastId, codes, stage, taken, found, shared, reserved>>

Init ==
    /\ users = [i \in UserId |-> None]
    /\ prekeys = {} /\ lastId = 0
    /\ codes = [a \in Address |-> [by |-> None, fresh |-> FALSE, verified |-> FALSE]]
    /\ stage = [r \in Request |-> "idle"]
    /\ taken = [r \in Fetches |-> None]
    /\ found = [r \in Discovers |-> {}]
    /\ shared = {}
    /\ reserved = None

Becomes(r, s) == stage' = [stage EXCEPT ![r] = s]
----------------------------------------------------------------------------
(* The locks.                                                              *)

\* A writer that commits has barred new readers.
Pending == reserved # None /\ stage[reserved] \in {"committing", "marking"}

FaultyReleased(r) == UNCHANGED <<shared, reserved>>  \* without defer tx.Rollback()

Released(r) ==
    /\ shared' = shared \ {r}
    /\ reserved' = IF reserved = r THEN None ELSE reserved

Fails(r) == Becomes(r, "failed") /\ Released(r)

\* The first write of a transaction that has read nothing waits for its turn.
Reserve(r, s) ==
    /\ reserved = None
    /\ reserved' = r
    /\ Becomes(r, s)
    /\ UNCHANGED <<users, prekeys, lastId, codes, taken, found, shared>>

CanCommit(r) == reserved = r /\ shared \subseteq {r}

ToRead(r) == \/ stage[r] = "begin" /\ r \in Fetches \cup Verifies \cup Discovers
             \/ stage[r] = "row"

ToReserve(r) == \/ stage[r] = "begin" /\ r \in Registers \cup CodeRequests
                \/ stage[r] \in {"checked", "made"}

\* An error of the statement that marks a code as verified is ignored.
TimesOut(r) ==
    /\ \/ ToRead(r) /\ Pending
       \/ ToReserve(r) /\ reserved # None
       \/ stage[r] \in {"committing", "marking"} /\ ~CanCommit(r)
    /\ Becomes(r, IF stage[r] \in {"made", "marking"} THEN "ok" ELSE "failed")
    /\ Released(r)
    /\ UNCHANGED <<users, prekeys, lastId, codes, taken, found>>

\* A request comes in; one can present only what an answer has told.
Arrive(r) ==
    /\ stage[r] = "idle"
    /\ r \in DOMAIN Presents => stage[Presents[r]] = "ok"
    /\ Becomes(r, "begin")
    /\ UNCHANGED <<users, prekeys, lastId, codes, taken, found, shared, reserved>>

\* The transactions of several statements come to their commit.
AskCommit(r) ==
    /\ stage[r] = "writing"
    /\ Becomes(r, "committing")
    /\ UNCHANGED <<users, prekeys, lastId, codes, taken, found, shared, reserved>>
----------------------------------------------------------------------------
(* /v1/register.                                                           *)

\* Prekeys are decoded as base64 without padding; those that fail are skipped.
Decoded(r) == {i \in DOMAIN Offered[r] : Offered[r][i] \notin Padded}

BeginRegister(r) == stage[r] = "begin" /\ Reserve(r, "writing")

\* The ids grow with every row ever inserted; only their order matters.
Row(r, i) == [id |-> lastId + i, user |-> UserOf[r], key |-> Offered[r][i]]

\* INSERT OR REPLACE of the user, and the prekeys beside those still there.
CommitRegister(r) ==
    /\ stage[r] = "committing" /\ CanCommit(r)
    /\ users' = [users EXCEPT ![UserOf[r]] = r]
    /\ prekeys' = prekeys \cup {Row(r, i) : i \in Decoded(r)}
    /\ lastId' = lastId + Len(Offered[r])
    /\ Becomes(r, "ok") /\ Released(r)
    /\ UNCHANGED <<codes, taken, found>>
----------------------------------------------------------------------------
(* /v1/keys.                                                               *)

ReadUser(r) ==
    /\ stage[r] = "begin" /\ ~Pending
    /\ Becomes(r, IF users[UserOf[r]] = None THEN "failed" ELSE "row")
    /\ UNCHANGED <<users, prekeys, lastId, codes, taken, found, shared, reserved>>

KeysOf(u) == {row \in prekeys : row.user = u}

Oldest(u) == {row \in KeysOf(u) : \A other \in KeysOf(u) : row.id <= other.id}

FaultyHeld(r) == shared  \* no transaction around the two statements

Held(r) == shared \cup {r}

\* fetchOneTimePrekey selects the oldest; without one there is nothing to commit.
SelectPrekey(r) ==
    /\ stage[r] = "row" /\ ~Pending
    /\ \/ /\ KeysOf(UserOf[r]) = {}
          /\ Becomes(r, "ok")
          /\ UNCHANGED <<taken, shared>>
       \/ /\ \E row \in Oldest(UserOf[r]) : taken' = [taken EXCEPT ![r] = row]
          /\ shared' = Held(r)
          /\ Becomes(r, "selected")
    /\ UNCHANGED <<users, prekeys, lastId, codes, found, reserved>>

\* DELETE fails at once when another has reserved the database.
DeletePrekey(r) ==
    /\ stage[r] = "selected"
    /\ IF reserved = None
       THEN Becomes(r, "writing") /\ reserved' = r /\ UNCHANGED shared
       ELSE Fails(r)
    /\ UNCHANGED <<users, prekeys, lastId, codes, taken, found>>

FaultyRemaining(r) ==  \* DELETE WHERE user_id = ?
    prekeys \ KeysOf(UserOf[r])

Remaining(r) == {row \in prekeys : row.id # taken[r].id}

CommitFetch(r) ==
    /\ stage[r] = "committing" /\ CanCommit(r)
    /\ prekeys' = Remaining(r)
    /\ Becomes(r, "ok") /\ Released(r)
    /\ UNCHANGED <<users, lastId, codes, taken, found>>
----------------------------------------------------------------------------
(* /api/auth: codes and their verification.                                *)

BeginCode(r) == stage[r] = "begin" /\ Reserve(r, "committing")

\* INSERT OR REPLACE: an earlier code of the address is gone.
CommitCode(r) ==
    /\ stage[r] = "committing" /\ CanCommit(r)
    /\ codes' = [codes EXCEPT ![AddressOf[r]] = [by |-> r, fresh |-> TRUE, verified |-> FALSE]]
    /\ Becomes(r, "ok") /\ Released(r)
    /\ UNCHANGED <<users, prekeys, lastId, taken, found>>

\* 300 seconds, or a day, have gone by.
Expire(a) ==
    /\ codes[a].fresh
    /\ codes' = [codes EXCEPT ![a].fresh = FALSE]
    /\ UNCHANGED <<users, prekeys, lastId, stage, taken, found, shared, reserved>>

\* What is verified is the code of the moment; whether it has been used before
\* is not asked.
CheckCode(r) ==
    /\ stage[r] = "begin" /\ ~Pending
    /\ LET code == codes[AddressOf[r]] IN
       Becomes(r, IF code.by = Presents[r] /\ code.fresh THEN "checked" ELSE "failed")
    /\ UNCHANGED <<users, prekeys, lastId, codes, taken, found, shared, reserved>>

BeginUser(r) == stage[r] = "checked" /\ Reserve(r, "committing")

\* A user of a new id, whoever else has the address.
CommitUser(r) ==
    /\ stage[r] = "committing" /\ CanCommit(r)
    /\ users' = [users EXCEPT ![r] = r]
    /\ Becomes(r, "made") /\ Released(r)
    /\ UNCHANGED <<prekeys, lastId, codes, taken, found>>

BeginMark(r) == stage[r] = "made" /\ Reserve(r, "marking")

\* UPDATE ... SET verified = 1, which nothing reads.
CommitMark(r) ==
    /\ stage[r] = "marking" /\ CanCommit(r)
    /\ codes' = [codes EXCEPT ![AddressOf[r]].verified = TRUE]
    /\ Becomes(r, "ok") /\ Released(r)
    /\ UNCHANGED <<users, prekeys, lastId, taken, found>>
----------------------------------------------------------------------------
(* /api/contacts/discover.                                                 *)

\* getUserByToken: a registration of the same id has replaced the token.
Authorize(r) ==
    /\ stage[r] = "begin" /\ ~Pending
    /\ Becomes(r, IF \E i \in UserId : users[i] = Presents[r] THEN "row" ELSE "failed")
    /\ UNCHANGED <<users, prekeys, lastId, codes, taken, found, shared, reserved>>

\* The columns the INSERT of a request does not name.
NullColumns(r) ==
    IF r \in Registers THEN {"email", "last_seen"}
    ELSE IF AddressOf[r] \in Phone THEN {"email"} ELSE {"phone"}

HasAddressIn(i, addresses) == users[i] # None /\ AddressOf[users[i]] \in addresses

\* A row with a NULL cannot be scanned into the variables, and is skipped.
Query(r) ==
    /\ stage[r] = "row" /\ ~Pending
    /\ found' = [found EXCEPT ![r] =
          {i \in UserId : HasAddressIn(i, LooksFor[r]) /\ NullColumns(users[i]) = {}}]
    /\ Becomes(r, "ok")
    /\ UNCHANGED <<users, prekeys, lastId, codes, taken, shared, reserved>>
----------------------------------------------------------------------------
\* What a request does by itself, once it has come in.
Step(r) ==
    \/ r \in Registers /\ (BeginRegister(r) \/ CommitRegister(r))
    \/ r \in Fetches /\ (ReadUser(r) \/ SelectPrekey(r) \/ DeletePrekey(r) \/ CommitFetch(r))
    \/ r \in CodeRequests /\ (BeginCode(r) \/ CommitCode(r))
    \/ r \in Verifies /\ (CheckCode(r) \/ BeginUser(r) \/ CommitUser(r)
                          \/ BeginMark(r) \/ CommitMark(r))
    \/ r \in Discovers /\ (Authorize(r) \/ Query(r))
    \/ AskCommit(r)

Next ==
    \/ \E r \in Request : Arrive(r) \/ Step(r) \/ TimesOut(r)
    \/ \E a \in Address : Expire(a)

\* Each request has a goroutine, which goes on when the database lets it.
Spec == Init /\ [][Next]_avars /\ \A r \in Request : WF_avars(Step(r))
----------------------------------------------------------------------------
\* Shapes; a request that has been answered holds no lock, and the writer holds
\* the lock it writes under.
TypeOK ==
    /\ users \in [UserId -> Registers \cup Verifies \cup {None}]
    /\ lastId \in Nat
    /\ prekeys \subseteq [id : 1 .. lastId, user : User, key : Prekey \ Padded]
    /\ \A a \in Address : codes[a].by \in CodeRequests \cup {None}
    /\ \A r \in Fetches : taken[r] # None => taken[r].key \in Prekey
    /\ \A r \in Request : stage[r] \in {"idle", "ok", "failed"}
                          => r \notin shared /\ r # reserved
    /\ \A r \in Request : stage[r] \in {"writing", "committing", "marking"} => r = reserved

\* The two answers of /v1/keys never hold the same one-time prekey, and one that
\* was given out is no longer in the table.
PrekeyOnce ==
    \A r \in Fetches : stage[r] = "ok" /\ taken[r] # None =>
        /\ \A s \in Fetches \ {r} :
              stage[s] = "ok" /\ taken[s] # None => taken[s].key # taken[r].key
        /\ \A row \in prekeys : row.key # taken[r].key

\* Which of the one-time prekeys offered to /v1/register are kept, in the table or
\* by the one answer that gave them out: those sent without padding, of the
\* registrations answered.  Neither a request that fails half-way nor a later
\* registration loses any of them.  The padded ones, and with them every 32-byte key
\* that client.go encodes, are never kept, although their registration is answered.
NoPrekeyLost ==
    LET answers == {r \in Fetches : stage[r] = "ok" /\ taken[r] # None}
        kept == {row.key : row \in prekeys} \cup {taken[r].key : r \in answers}
    IN \A r \in Registers : \A i \in DOMAIN Offered[r] :
          Offered[r][i] \in kept <=> (stage[r] = "ok" /\ Offered[r][i] \notin Padded)

\* Every request is answered, even if no wait for a lock ever times out: the
\* locks its transactions take are given back on every path.
Answered ==
    \A r \in Request : stage[r] = "begin" ~> stage[r] \in {"ok", "failed"}
============================================================================
