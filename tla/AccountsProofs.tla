-------------------------- MODULE AccountsProofs --------------------------
(***************************************************************************)
(* What Accounts!Spec guarantees of one-time prekeys, for any requests,    *)
(* users and addresses.                                                    *)
(***************************************************************************)
EXTENDS Accounts, SequenceTheorems, TLAPS

\* The fetches answered with a prekey, and the prekeys not lost.
Answers == {r \in Fetches : stage[r] = "ok" /\ taken[r] # None}
Kept == {row.key : row \in prekeys} \cup {taken[r].key : r \in Answers}

PrekeyRow == [id : Nat, user : User, key : Prekey]

Stages == {"idle", "begin", "row", "selected", "checked", "writing", "committing",
           "made", "marking", "ok", "failed"}

Shapes ==
    /\ stage \in [Request -> Stages]
    /\ prekeys \subseteq PrekeyRow
    /\ lastId \in Nat
    /\ taken \in [Fetches -> PrekeyRow \cup {None}]

\* Neither registrations nor fetches have the stages of a verification.
StagesInv ==
    \A r \in Registers \cup Fetches : stage[r] \notin {"made", "marking"}

\* Neither an id nor a key is in two rows.
RowsInv ==
    /\ \A row \in prekeys : row.id <= lastId
    /\ \A x, y \in prekeys : x.id = y.id \/ x.key = y.key => x = y

\* A fetch between its SELECT and its COMMIT holds the lock that keeps the row it
\* has selected in the table.
FetchFits(r) ==
    /\ stage[r] \in {"idle", "begin", "row"} => taken[r] = None
    /\ stage[r] \in {"selected", "writing", "committing"} =>
          r \in shared /\ taken[r] \in prekeys

FetchInv == \A r \in Fetches : FetchFits(r)

PrekeyInv == Shapes /\ StagesInv /\ RowsInv /\ FetchInv /\ PrekeyOnce /\ NoPrekeyLost

LEMMA NoPrekeyLostIs ==
    NoPrekeyLost <=> \A r \in Registers : \A i \in DOMAIN Offered[r] :
                        Offered[r][i] \in Kept <=> stage[r] = "ok" /\ i \in Decoded(r)
BY DEF NoPrekeyLost, Kept, Answers, Decoded

LEMMA PrekeyOnceIs ==
    PrekeyOnce <=> \A r \in Answers :
                      /\ \A s \in Answers \ {r} : taken[s].key # taken[r].key
                      /\ \A row \in prekeys : row.key # taken[r].key
BY DEF PrekeyOnce, Answers

\* Who offers a prekey.
LEMMA PrekeyOffered ==
    /\ \A k \in Prekey : \E r \in Registers : \E i \in DOMAIN Offered[r] : Offered[r][i] = k
    /\ \A r \in Registers : \A i \in DOMAIN Offered[r] :
          /\ Offered[r][i] \in Prekey
          /\ i \in Nat /\ Len(Offered[r]) \in Nat /\ 1 <= i /\ i <= Len(Offered[r])
BY AccountsAssumption, LenProperties DEF Prekey

LEMMA InitPrekey == Init => PrekeyInv
<1> SUFFICES ASSUME Init PROVE PrekeyInv
    OBVIOUS
<1>1. Shapes /\ StagesInv /\ RowsInv /\ FetchInv
    BY DEF Init, Shapes, StagesInv, RowsInv, FetchInv, FetchFits, Stages, Request
<1>2. Answers = {} /\ Kept = {}
    BY DEF Init, Answers, Kept, Request
<1>3. PrekeyOnce /\ NoPrekeyLost
    BY <1>2, NoPrekeyLostIs, PrekeyOnceIs DEF Init, Request
<1>4. QED BY <1>1, <1>3 DEF PrekeyInv

\* A request goes on and the table stays as it is.
LEMMA MovePrekey ==
    ASSUME PrekeyInv, NEW r \in Request, NEW s \in Stages, Becomes(r, s),
           UNCHANGED <<prekeys, lastId>>, taken' \in [Fetches -> PrekeyRow \cup {None}],
           \A f \in Fetches \ {r} : taken'[f] = taken[f] /\ (f \in shared => f \in shared'),
           r \in Registers \cup Fetches => s \notin {"made", "marking"},
           r \in Registers => stage[r] # "ok" /\ s # "ok",
           r \in Fetches => /\ stage[r] # "ok" /\ FetchFits(r)'
                            /\ s = "ok" => taken'[r] = None
    PROVE  PrekeyInv'
<1>1. Shapes' /\ stage'[r] = s /\ \A q \in Request \ {r} : stage'[q] = stage[q]
    BY DEF PrekeyInv, Shapes, Becomes
<1>2. StagesInv' /\ RowsInv'
    BY <1>1 DEF PrekeyInv, StagesInv, RowsInv, Request
<1>3. ASSUME NEW f \in Fetches PROVE FetchFits(f)'
    <2>1. CASE f = r
        BY <2>1
    <2>2. CASE f # r
        BY <1>1, <2>2 DEF PrekeyInv, FetchInv, FetchFits, Request
    <2>3. QED BY <2>1, <2>2
<1>4. Answers' = Answers /\ \A f \in Answers : taken'[f] = taken[f]
    BY <1>1 DEF Answers, Request
<1>5. Kept' = Kept
    BY <1>4 DEF Kept
<1>6. PrekeyOnce'
    BY <1>4, PrekeyOnceIs DEF PrekeyInv, PrekeyOnce, Answers
<1>7. NoPrekeyLost'
    <2>1. ASSUME NEW q \in Registers PROVE stage'[q] = "ok" <=> stage[q] = "ok"
        BY <1>1 DEF Request
    <2>2. \A q \in Registers : Decoded(q)' = Decoded(q)
        BY DEF Decoded
    <2>3. QED BY <1>5, <2>1, <2>2, NoPrekeyLostIs DEF PrekeyInv, NoPrekeyLost, Kept, Answers
<1>8. QED BY <1>1, <1>2, <1>3, <1>6, <1>7 DEF PrekeyInv, FetchInv

\* New rows have new ids, and keys nobody has been given.
LEMMA CommitRegisterPrekey ==
    ASSUME PrekeyInv, NEW r \in Registers, CommitRegister(r)
    PROVE  PrekeyInv'
<1> DEFINE New == {Row(r, i) : i \in Decoded(r)}
<1>1. /\ stage[r] = "committing" /\ prekeys' = prekeys \cup New
      /\ lastId' = lastId + Len(Offered[r])
      /\ stage' = [stage EXCEPT ![r] = "ok"] /\ taken' = taken
      /\ shared' = shared \ {r}
    BY DEF CommitRegister, Becomes, Released
<1>2. r \notin Fetches /\ UserOf[r] \in User /\ Decoded(r) \subseteq DOMAIN Offered[r]
    BY AccountsAssumption DEF Decoded
<1>3. /\ stage' \in [Request -> Stages] /\ stage'[r] = "ok"
      /\ \A q \in Request \ {r} : stage'[q] = stage[q]
    BY <1>1 DEF PrekeyInv, Shapes, Stages, Request
<1>4. \A i \in Decoded(r) : /\ Row(r, i) \in PrekeyRow /\ Row(r, i).key = Offered[r][i]
                            /\ Row(r, i).id > lastId
                            /\ Row(r, i).id <= lastId + Len(Offered[r])
    BY <1>2, PrekeyOffered DEF PrekeyInv, Shapes, Row, PrekeyRow
<1>5. Shapes'
    BY <1>1, <1>3, <1>4, PrekeyOffered DEF PrekeyInv, Shapes
<1>6. \A i \in DOMAIN Offered[r] : Offered[r][i] \notin Kept
    BY <1>1, NoPrekeyLostIs DEF PrekeyInv
<1>7. \A i \in Decoded(r) : \A row \in prekeys : row.key # Row(r, i).key
    BY <1>2, <1>4, <1>6 DEF Kept
<1>8. \A i, j \in Decoded(r) : Row(r, i).id = Row(r, j).id \/ Row(r, i).key = Row(r, j).key
                               => i = j
    <2>1. \A i, j \in Decoded(r) : Row(r, i).id = Row(r, j).id => i = j
        BY <1>2, PrekeyOffered DEF PrekeyInv, Shapes, Row
    <2>2. \A i, j \in Decoded(r) : Offered[r][i] = Offered[r][j] => i = j
        BY <1>2, AccountsAssumption
    <2>3. QED BY <1>4, <2>1, <2>2
<1>9. RowsInv'
    <2>1. \A row \in prekeys : row.id \in Nat /\ row.id <= lastId
        BY DEF PrekeyInv, Shapes, RowsInv, PrekeyRow
    <2>2. \A row \in prekeys' : row.id <= lastId'
        BY <1>1, <1>4, <2>1, PrekeyOffered DEF PrekeyInv, Shapes
    <2>3. ASSUME NEW x \in prekeys', NEW y \in prekeys', x.id = y.id \/ x.key = y.key
          PROVE  x = y
        <3>1. CASE x \in prekeys /\ y \in prekeys
            BY <2>3, <3>1 DEF PrekeyInv, RowsInv
        <3>2. CASE x \in New /\ y \in New
            BY <2>3, <3>2, <1>8
        <3>3. \A a \in prekeys : \A i \in Decoded(r) :
                 a.id # Row(r, i).id /\ a.key # Row(r, i).key
            <4> SUFFICES ASSUME NEW a \in prekeys, NEW i \in Decoded(r)
                         PROVE  a.id # Row(r, i).id
                BY <1>7
            <4>1. Row(r, i).id \in Nat
                BY <1>4 DEF PrekeyRow
            <4>2. QED BY <1>4, <2>1, <4>1 DEF PrekeyInv, Shapes
        <3>4. QED BY <1>1, <2>3, <3>1, <3>2, <3>3
    <2>4. QED BY <2>2, <2>3 DEF RowsInv
<1>10. StagesInv' /\ FetchInv'
    BY <1>1, <1>2, <1>3 DEF PrekeyInv, StagesInv, FetchInv, FetchFits, Request
<1>11. Answers' = Answers
    BY <1>1, <1>2, <1>3 DEF Answers, Request
<1>12. Kept' = Kept \cup {Offered[r][i] : i \in Decoded(r)}
    BY <1>1, <1>4, <1>11 DEF Kept
<1>13. PrekeyOnce'
    <2>1. \A f \in Answers : \A i \in Decoded(r) : Row(r, i).key # taken[f].key
        BY <1>2, <1>4, <1>6 DEF Kept
    <2>2. \A f \in Answers : /\ \A g \in Answers \ {f} : taken[g].key # taken[f].key
                             /\ \A row \in prekeys' : row.key # taken[f].key
        BY <1>1, <2>1, PrekeyOnceIs DEF PrekeyInv
    <2>3. QED BY <1>1, <1>11, <2>2 DEF PrekeyOnce, Answers
<1>14. NoPrekeyLost'
    <2> SUFFICES ASSUME NEW q \in Registers, NEW i \in DOMAIN Offered[q]
                 PROVE  Offered[q][i] \in Kept' <=> stage'[q] = "ok" /\ i \in Decoded(q)
        BY DEF NoPrekeyLost, Kept, Answers, Decoded
    <2>1. CASE q = r
        <3>1. Offered[r][i] \in {Offered[r][j] : j \in Decoded(r)} <=> i \in Decoded(r)
            BY <1>2, <2>1, AccountsAssumption
        <3>2. QED BY <1>3, <1>6, <1>12, <2>1, <3>1
    <2>2. CASE q # r
        <3>1. \A j \in Decoded(r) : Offered[r][j] # Offered[q][i]
            BY <1>2, <2>2, AccountsAssumption
        <3>2. stage'[q] = stage[q]
            BY <1>3, <2>2 DEF Request
        <3>3. QED BY <1>12, <3>1, <3>2, NoPrekeyLostIs DEF PrekeyInv
    <2>3. QED BY <2>1, <2>2
<1>15. QED BY <1>5, <1>9, <1>10, <1>13, <1>14 DEF PrekeyInv

\* Of all fetches only the one that commits is between SELECT and COMMIT: the
\* others would hold SHARED.  What it has selected goes from the table to its
\* answer.
LEMMA CommitFetchPrekey ==
    ASSUME PrekeyInv, NEW r \in Fetches, CommitFetch(r)
    PROVE  PrekeyInv'
<1> DEFINE row == taken[r]
<1>1. /\ stage[r] = "committing" /\ shared \subseteq {r}
      /\ prekeys' = {x \in prekeys : x.id # row.id}
      /\ lastId' = lastId /\ taken' = taken
      /\ stage' = [stage EXCEPT ![r] = "ok"]
    BY DEF CommitFetch, CanCommit, Remaining, Becomes
<1>2. row \in prekeys /\ row # None
    BY <1>1, AccountsAssumption
    DEF PrekeyInv, Shapes, FetchInv, FetchFits, PrekeyRow
<1>3. prekeys' = prekeys \ {row}
    BY <1>1, <1>2 DEF PrekeyInv, RowsInv
<1>4. /\ stage' \in [Request -> Stages] /\ stage'[r] = "ok"
      /\ \A q \in Request \ {r} : stage'[q] = stage[q]
    BY <1>1 DEF PrekeyInv, Shapes, Stages, Request
<1>5. Shapes' /\ StagesInv' /\ RowsInv'
    BY <1>1, <1>3, <1>4 DEF PrekeyInv, Shapes, StagesInv, RowsInv, Request
<1>6. FetchInv'
    BY <1>1, <1>4 DEF PrekeyInv, FetchInv, FetchFits, Request
<1>7. Answers' = Answers \cup {r} /\ r \notin Answers
    BY <1>1, <1>2, <1>4 DEF Answers, Request
<1>8. Kept' = Kept
    BY <1>1, <1>2, <1>3, <1>7 DEF Kept
<1>9. PrekeyOnce'
    <2>1. \A f \in Answers : row.key # taken[f].key
        BY <1>2, PrekeyOnceIs DEF PrekeyInv
    <2>2. \A x \in prekeys' : x.key # row.key
        BY <1>2, <1>3 DEF PrekeyInv, RowsInv
    <2>3. \A f \in Answers \cup {r} :
             /\ \A g \in (Answers \cup {r}) \ {f} : taken[g].key # taken[f].key
             /\ \A x \in prekeys' : x.key # taken[f].key
        BY <1>3, <1>7, <2>1, <2>2, PrekeyOnceIs DEF PrekeyInv
    <2>4. QED BY <1>1, <1>7, <2>3 DEF PrekeyOnce, Answers
<1>10. NoPrekeyLost'
    <2>1. \A q \in Registers : Decoded(q)' = Decoded(q) /\ stage'[q] = stage[q]
        BY <1>4, AccountsAssumption DEF Decoded, Request
    <2>2. QED BY <1>8, <2>1, NoPrekeyLostIs DEF PrekeyInv, NoPrekeyLost, Kept, Answers
<1>11. QED BY <1>5, <1>6, <1>9, <1>10 DEF PrekeyInv

LEMMA RegisterPrekey ==
    ASSUME PrekeyInv, NEW r \in Registers, BeginRegister(r)
    PROVE  PrekeyInv'
<1>1. r \in Request /\ r \notin Fetches
    BY AccountsAssumption DEF Request
<1>2. QED BY <1>1, MovePrekey DEF BeginRegister, Reserve, PrekeyInv, Shapes, Stages

LEMMA FetchPrekey ==
    ASSUME PrekeyInv, NEW r \in Fetches, ReadUser(r) \/ SelectPrekey(r) \/ DeletePrekey(r)
    PROVE  PrekeyInv'
<1>1. r \in Request /\ r \notin Registers
    BY AccountsAssumption DEF Request
<1>2. Shapes /\ FetchFits(r)
    BY DEF PrekeyInv, FetchInv
<1>3. CASE ReadUser(r)
    <2> DEFINE s == IF users[UserOf[r]] = None THEN "failed" ELSE "row"
    <2>1. /\ stage[r] = "begin" /\ Becomes(r, s) /\ s \in {"failed", "row"}
          /\ UNCHANGED <<prekeys, lastId, taken, shared>>
        BY <1>3 DEF ReadUser
    <2>2. stage'[r] = s
        BY <1>1, <1>2, <2>1 DEF Shapes, Becomes
    <2>3. FetchFits(r)' /\ s \in Stages
        BY <1>2, <2>1, <2>2 DEF FetchFits, Stages
    <2> HIDE DEF s
    <2>4. QED BY <1>1, <1>2, <2>1, <2>3, MovePrekey DEF Shapes
<1>4. CASE SelectPrekey(r)
    <2>1. CASE Becomes(r, "ok") /\ UNCHANGED <<prekeys, lastId, taken, shared>>
        <3>1. stage'[r] = "ok" /\ taken[r] = None
            BY <1>1, <1>2, <1>4, <2>1 DEF Shapes, Becomes, SelectPrekey, FetchFits
        <3>2. FetchFits(r)' /\ stage[r] = "row"
            BY <1>4, <2>1, <3>1 DEF FetchFits, SelectPrekey
        <3>3. QED BY <1>1, <1>2, <2>1, <3>1, <3>2, MovePrekey DEF Shapes, Stages
    <2>2. CASE /\ \E row \in Oldest(UserOf[r]) : taken' = [taken EXCEPT ![r] = row]
               /\ shared' = Held(r) /\ Becomes(r, "selected")
               /\ UNCHANGED <<prekeys, lastId>>
        <3>1. PICK row \in prekeys : taken' = [taken EXCEPT ![r] = row]
            BY <2>2 DEF Oldest, KeysOf
        <3>2. /\ taken' \in [Fetches -> PrekeyRow \cup {None}] /\ taken'[r] = row
              /\ \A f \in Fetches \ {r} : taken'[f] = taken[f]
            BY <1>2, <3>1 DEF Shapes
        <3>3. stage'[r] = "selected" /\ stage[r] = "row" /\ shared' = shared \cup {r}
            BY <1>1, <1>2, <1>4, <2>2 DEF Shapes, Becomes, SelectPrekey, Held
        <3>4. FetchFits(r)'
            BY <2>2, <3>1, <3>2, <3>3 DEF FetchFits
        <3>5. QED BY <1>1, <2>2, <3>2, <3>3, <3>4, MovePrekey DEF Stages
    <2>3. QED BY <1>4, <2>1, <2>2 DEF SelectPrekey
<1>5. CASE DeletePrekey(r)
    <2>1. PICK s \in {"writing", "failed"} :
             /\ stage[r] = "selected" /\ Becomes(r, s)
             /\ UNCHANGED <<prekeys, lastId, taken>>
             /\ shared' \in {shared, shared \ {r}} /\ (s = "writing" => shared' = shared)
        BY <1>5 DEF DeletePrekey, Fails, Released
    <2>2. stage'[r] = s
        BY <1>1, <1>2, <2>1 DEF Shapes, Becomes
    <2>3. FetchFits(r)' /\ s \in Stages
        BY <1>2, <2>1, <2>2 DEF FetchFits, Stages
    <2>4. QED BY <1>1, <1>2, <2>1, <2>3, MovePrekey DEF Shapes
<1>6. QED BY <1>3, <1>4, <1>5

\* Codes, verifications and discoveries touch no prekey.
LEMMA OtherPrekey ==
    ASSUME PrekeyInv, NEW r \in CodeRequests \cup Verifies \cup Discovers,
           \/ BeginCode(r) \/ CommitCode(r)
           \/ CheckCode(r) \/ BeginUser(r) \/ CommitUser(r) \/ BeginMark(r) \/ CommitMark(r)
           \/ Authorize(r) \/ Query(r)
    PROVE  PrekeyInv'
<1>1. r \in Request /\ r \notin Registers \cup Fetches
    BY AccountsAssumption DEF Request
<1>2. PICK s \in Stages : /\ Becomes(r, s)
                          /\ UNCHANGED <<prekeys, lastId, taken>>
                          /\ shared' \in {shared, shared \ {r}}
    BY DEF BeginCode, CommitCode, CheckCode, BeginUser, CommitUser, BeginMark, CommitMark,
           Authorize, Query, Reserve, Released, Stages
<1>3. QED BY <1>1, <1>2, MovePrekey DEF PrekeyInv, Shapes

LEMMA AnyPrekey ==
    ASSUME PrekeyInv, NEW r \in Request, Arrive(r) \/ AskCommit(r) \/ TimesOut(r)
    PROVE  PrekeyInv'
<1>1. Shapes /\ StagesInv /\ FetchInv
    BY DEF PrekeyInv
<1>2. PICK s \in Stages :
         /\ Becomes(r, s) /\ UNCHANGED <<prekeys, lastId, taken>>
         /\ \/ stage[r] = "idle" /\ s = "begin" /\ shared' = shared
            \/ stage[r] = "writing" /\ s = "committing" /\ shared' = shared
            \/ stage[r] \notin {"ok", "made", "marking"} /\ s = "failed" /\ shared' = shared \ {r}
            \/ stage[r] \in {"made", "marking"} /\ s = "ok" /\ shared' = shared \ {r}
    BY DEF Arrive, AskCommit, TimesOut, ToRead, ToReserve, Released, Stages
<1>3. stage'[r] = s
    BY <1>1, <1>2 DEF Shapes, Becomes
<1>4. r \in Registers \cup Fetches => stage[r] # "ok" /\ s \notin {"ok", "made", "marking"}
    BY <1>1, <1>2 DEF StagesInv
<1>5. r \in Fetches => FetchFits(r)'
    BY <1>1, <1>2, <1>3, <1>4 DEF FetchInv, FetchFits
<1>6. QED BY <1>1, <1>2, <1>4, <1>5, MovePrekey DEF Shapes

LEMMA StepPrekey == PrekeyInv /\ [Next]_avars => PrekeyInv'
<1> SUFFICES ASSUME PrekeyInv, [Next]_avars PROVE PrekeyInv'
    OBVIOUS
<1>1. CASE UNCHANGED <<stage, prekeys, lastId, taken, shared>>
    BY <1>1 DEF PrekeyInv, Shapes, StagesInv, RowsInv, FetchInv, FetchFits, PrekeyOnce,
                NoPrekeyLost, Decoded
<1>2. CASE UNCHANGED avars
    BY <1>1, <1>2 DEF avars
<1>3. ASSUME NEW a \in Address, Expire(a) PROVE PrekeyInv'
    BY <1>1, <1>3 DEF Expire
<1>4. ASSUME NEW r \in Request, Step(r) PROVE PrekeyInv'
    BY <1>4, RegisterPrekey, CommitRegisterPrekey, FetchPrekey, CommitFetchPrekey,
       OtherPrekey, AnyPrekey DEF Step
<1>5. QED BY <1>2, <1>3, <1>4, AnyPrekey DEF Next

\* The inductive invariant of /v1/register and /v1/keys: a fetch that has selected
\* a prekey and not committed holds the lock that keeps it in the table.
THEOREM PrekeyInvariance == Spec => []PrekeyInv
BY InitPrekey, StepPrekey, PTL DEF Spec

\* No schedule of the statements of /v1/keys gives a one-time prekey out twice.
THEOREM PrekeyOnceHolds == Spec => []PrekeyOnce
<1>1. PrekeyInv => PrekeyOnce
    BY DEF PrekeyInv
<1>2. QED BY <1>1, PrekeyInvariance, PTL

\* The one-time prekeys kept are exactly the unpadded ones of the registrations
\* answered: no failure of a request, and no later /v1/register, loses one of them,
\* and of the padded ones, which client.go sends, none is ever kept.
THEOREM NoPrekeyLostHolds == Spec => []NoPrekeyLost
<1>1. PrekeyInv => NoPrekeyLost
    BY DEF PrekeyInv
<1>2. QED BY <1>1, PrekeyInvariance, PTL
----------------------------------------------------------------------------
\* The stages in which a request writes, and those in which a fetch has read.
Writing == {"writing", "committing", "marking"}
HasRead == {"selected", "writing", "committing"}

\* The request that writes is the one that holds RESERVED, and nobody holds a
\* SHARED lock but a fetch in the middle of its transaction.
LockInv ==
    /\ \A r \in Request : stage[r] \in Writing <=> reserved = r
    /\ shared \subseteq Fetches
    /\ \A r \in shared : stage[r] \in HasRead

CodeRow == [by : CodeRequests \cup {None}, fresh : BOOLEAN, verified : BOOLEAN]

TableInv ==
    /\ users \in [UserId -> Registers \cup Verifies \cup {None}]
    /\ prekeys \subseteq [id : 1 .. lastId, user : User, key : Prekey \ Padded]
    /\ codes \in [Address -> CodeRow]

LEMMA InitAccounts == Init => LockInv /\ TableInv
<1> SUFFICES ASSUME Init PROVE LockInv /\ TableInv
    OBVIOUS
<1>1. LockInv
    BY AccountsAssumption DEF Init, LockInv, Writing
<1>2. TableInv
    BY DEF Init, TableInv, CodeRow
<1>3. QED BY <1>1, <1>2

\* A request moves on: it keeps its locks, gives them all back, takes RESERVED
\* when nobody has it, or takes SHARED.
LEMMA MoveLock ==
    ASSUME Shapes, LockInv, NEW r \in Request, NEW s \in Stages, Becomes(r, s),
           \/ /\ UNCHANGED <<shared, reserved>>
              /\ stage[r] \in Writing <=> s \in Writing
              /\ r \in shared => s \in HasRead
           \/ Released(r) /\ s \notin Writing
           \/ /\ reserved = None /\ reserved' = r /\ s \in Writing
              /\ shared' = shared /\ (r \in shared => s \in HasRead)
           \/ /\ r \in Fetches /\ shared' = shared \cup {r} /\ reserved' = reserved
              /\ stage[r] \notin Writing /\ s = "selected"
    PROVE  LockInv'
<1>1. stage'[r] = s /\ \A q \in Request \ {r} : stage'[q] = stage[q]
    BY DEF Shapes, Becomes
<1>2. r # None /\ Fetches \subseteq Request
    BY AccountsAssumption DEF Request
<1>3. \A q \in Request : stage'[q] \in Writing <=> reserved' = q
    <2>1. stage'[r] \in Writing <=> reserved' = r
        BY <1>1, <1>2 DEF LockInv, Released, Writing
    <2>2. ASSUME NEW q \in Request \ {r}, reserved' = q PROVE stage'[q] \in Writing
        BY <1>1, <2>2, AccountsAssumption DEF LockInv, Released, Writing
    <2>3. ASSUME NEW q \in Request \ {r}, stage'[q] \in Writing PROVE reserved' = q
        BY <1>1, <2>3, AccountsAssumption DEF LockInv, Released, Writing
    <2>4. QED BY <2>1, <2>2, <2>3
<1>4. shared' \subseteq Fetches /\ \A q \in shared' : stage'[q] \in HasRead
    BY <1>1, <1>2 DEF LockInv, Released, HasRead
<1>5. QED BY <1>3, <1>4 DEF LockInv

LEMMA StepLock ==
    ASSUME Shapes, LockInv, NEW r \in Request, Arrive(r) \/ Step(r) \/ TimesOut(r)
    PROVE  LockInv'
<1>1. r \in shared => stage[r] \in HasRead
    BY DEF LockInv
<1>2. CASE Arrive(r)
    BY <1>1, <1>2, MoveLock DEF Arrive, Stages, Writing, HasRead
<1>3. CASE TimesOut(r)
    BY <1>3, MoveLock DEF TimesOut, Stages, Writing
<1>4. CASE AskCommit(r)
    BY <1>4, MoveLock DEF AskCommit, Stages, Writing, HasRead
<1>5. CASE ReadUser(r) \/ CheckCode(r) \/ Authorize(r) \/ Query(r)
    <2>1. PICK s \in {"row", "checked", "ok", "failed"} : Becomes(r, s)
        BY <1>5 DEF ReadUser, CheckCode, Authorize, Query
    <2>2. stage[r] \in {"begin", "row"} /\ UNCHANGED <<shared, reserved>>
        BY <1>5 DEF ReadUser, CheckCode, Authorize, Query
    <2>3. QED BY <1>1, <2>1, <2>2, MoveLock DEF Stages, Writing, HasRead
<1>6. CASE BeginRegister(r) \/ BeginCode(r) \/ BeginUser(r) \/ BeginMark(r)
    <2>1. PICK s \in Writing : Becomes(r, s)
        BY <1>6 DEF BeginRegister, BeginCode, BeginUser, BeginMark, Reserve, Writing
    <2>2. /\ stage[r] \in {"begin", "checked", "made"}
          /\ reserved = None /\ reserved' = r /\ shared' = shared
        BY <1>6 DEF BeginRegister, BeginCode, BeginUser, BeginMark, Reserve
    <2>3. QED BY <1>1, <2>1, <2>2, MoveLock DEF Stages, Writing, HasRead
<1>7. CASE CommitRegister(r) \/ CommitFetch(r) \/ CommitCode(r) \/ CommitUser(r)
           \/ CommitMark(r)
    <2>1. PICK s \in {"ok", "made"} : Becomes(r, s)
        BY <1>7 DEF CommitRegister, CommitFetch, CommitCode, CommitUser, CommitMark
    <2>2. Released(r)
        BY <1>7 DEF CommitRegister, CommitFetch, CommitCode, CommitUser, CommitMark
    <2>3. QED BY <2>1, <2>2, MoveLock DEF Stages, Writing
<1>8. CASE r \in Fetches /\ SelectPrekey(r)
    BY <1>1, <1>8, MoveLock DEF SelectPrekey, Held, Stages, Writing, HasRead
<1>9. CASE DeletePrekey(r)
    BY <1>9, MoveLock DEF DeletePrekey, Fails, Stages, Writing, HasRead
<1>10. QED BY <1>2, <1>3, <1>4, <1>5, <1>6, <1>7, <1>8, <1>9 DEF Step

\* The statements that write a table.
LEMMA CommitTable ==
    ASSUME Shapes, TableInv, NEW r \in Request,
           \/ r \in Registers /\ CommitRegister(r)
           \/ CommitFetch(r)
           \/ r \in CodeRequests /\ CommitCode(r)
           \/ r \in Verifies /\ (CommitUser(r) \/ CommitMark(r))
    PROVE  TableInv'
<1>1. CASE r \in Registers /\ CommitRegister(r)
    <2>1. /\ users' = [users EXCEPT ![UserOf[r]] = r]
          /\ prekeys' = prekeys \cup {Row(r, i) : i \in Decoded(r)}
          /\ lastId' = lastId + Len(Offered[r]) /\ codes' = codes
        BY <1>1 DEF CommitRegister
    <2>2. UserOf[r] \in User
        BY <1>1, AccountsAssumption
    <2>3. users' \in [UserId -> Registers \cup Verifies \cup {None}]
        BY <1>1, <2>1, <2>2 DEF TableInv, UserId
    <2>4. lastId \in Nat /\ Len(Offered[r]) \in Nat
        BY <1>1, PrekeyOffered DEF Shapes
    <2>5. ASSUME NEW i \in Decoded(r)
          PROVE  Row(r, i) \in [id : 1 .. lastId', user : User, key : Prekey \ Padded]
        <3>1. /\ Offered[r][i] \in Prekey \ Padded
              /\ i \in Nat /\ 1 <= i /\ i <= Len(Offered[r])
            BY <1>1, PrekeyOffered DEF Decoded
        <3>2. lastId + i \in 1 .. lastId'
            BY <2>1, <2>4, <3>1
        <3>3. QED BY <2>2, <3>1, <3>2 DEF Row
    <2>6. 1 .. lastId \subseteq 1 .. lastId'
        BY <2>1, <2>4
    <2>7. prekeys \subseteq [id : 1 .. lastId', user : User, key : Prekey \ Padded]
        BY <2>6 DEF TableInv
    <2>8. QED BY <2>1, <2>3, <2>5, <2>7 DEF TableInv
<1>2. CASE CommitFetch(r)
    BY <1>2 DEF CommitFetch, Remaining, TableInv
<1>3. CASE r \in CodeRequests /\ CommitCode(r)
    BY <1>3, AccountsAssumption DEF CommitCode, TableInv, CodeRow
<1>4. CASE r \in Verifies /\ CommitUser(r)
    BY <1>4 DEF CommitUser, TableInv, UserId
<1>5. CASE r \in Verifies /\ CommitMark(r)
    <2>1. PICK a \in Address : codes' = [codes EXCEPT ![a].verified = TRUE]
        BY <1>5, AccountsAssumption DEF CommitMark
    <2>2. codes[a] \in CodeRow
        BY DEF TableInv
    <2>3. [codes[a] EXCEPT !.verified = TRUE] \in CodeRow
        BY <2>2 DEF CodeRow
    <2>4. codes' \in [Address -> CodeRow]
        BY <2>1, <2>3 DEF TableInv
    <2>5. QED BY <1>5, <2>4 DEF CommitMark, TableInv
<1>6. QED BY <1>1, <1>2, <1>3, <1>4, <1>5

LEMMA StepTable ==
    ASSUME Shapes, TableInv, NEW r \in Request, Arrive(r) \/ Step(r) \/ TimesOut(r)
    PROVE  TableInv'
<1>1. CASE UNCHANGED <<users, prekeys, lastId, codes>>
    BY <1>1 DEF TableInv
<1>2. CASE Arrive(r) \/ TimesOut(r) \/ AskCommit(r)
    BY <1>1, <1>2 DEF Arrive, TimesOut, AskCommit
<1>3. CASE BeginRegister(r) \/ BeginCode(r) \/ BeginUser(r) \/ BeginMark(r)
    BY <1>1, <1>3 DEF BeginRegister, BeginCode, BeginUser, BeginMark, Reserve
<1>4. CASE ReadUser(r) \/ SelectPrekey(r) \/ DeletePrekey(r)
    BY <1>1, <1>4 DEF ReadUser, SelectPrekey, DeletePrekey
<1>5. CASE CheckCode(r) \/ Authorize(r) \/ Query(r)
    BY <1>1, <1>5 DEF CheckCode, Authorize, Query
<1>6. QED BY <1>2, <1>3, <1>4, <1>5, CommitTable DEF Step

LEMMA StepAccounts ==
    PrekeyInv /\ LockInv /\ TableInv /\ [Next]_avars => LockInv' /\ TableInv'
<1> SUFFICES ASSUME PrekeyInv, LockInv, TableInv, [Next]_avars PROVE LockInv' /\ TableInv'
    OBVIOUS
<1>1. CASE UNCHANGED avars
    BY <1>1 DEF avars, LockInv, TableInv
<1>2. ASSUME NEW a \in Address, Expire(a) PROVE LockInv' /\ TableInv'
    BY <1>2 DEF Expire, LockInv, TableInv, CodeRow
<1>3. ASSUME NEW r \in Request, Arrive(r) \/ Step(r) \/ TimesOut(r)
      PROVE  LockInv' /\ TableInv'
    BY <1>3, StepLock, StepTable DEF PrekeyInv
<1>4. QED BY <1>1, <1>2, <1>3 DEF Next

\* The types of the server's tables and, on every path of every handler, that a
\* request that has been answered holds no lock and one that writes holds RESERVED.
THEOREM AccountsTypeCorrect == Spec => []TypeOK
<1>1. Spec => [](LockInv /\ TableInv)
    BY InitAccounts, StepAccounts, PrekeyInvariance, PTL DEF Spec
<1>2. PrekeyInv /\ LockInv /\ TableInv => TypeOK
    <2> SUFFICES ASSUME PrekeyInv, LockInv, TableInv PROVE TypeOK
        OBVIOUS
    <2>1. lastId \in Nat /\ \A r \in Fetches : taken[r] # None => taken[r].key \in Prekey
        BY DEF PrekeyInv, Shapes, PrekeyRow
    <2>2. \A a \in Address : codes[a].by \in CodeRequests \cup {None}
        BY DEF TableInv, CodeRow
    <2>3. \A r \in Request : /\ stage[r] \in {"idle", "ok", "failed"}
                                => r \notin shared /\ r # reserved
                             /\ stage[r] \in Writing => r = reserved
        BY DEF LockInv, Writing, HasRead
    <2>4. QED BY <2>1, <2>2, <2>3 DEF TableInv, TypeOK, Writing
<1>3. QED BY <1>1, <1>2, PrekeyInvariance, PTL

\* What a discovery has found so far.
NobodyFound == found = [r \in Discovers |-> {}]

\* Every INSERT into users leaves out a column that the query of a discovery scans
\* into a string: of all users it finds nobody, whatever has happened before.
THEOREM NobodyIsFound == Spec => []NobodyFound
<1>1. Init => NobodyFound
    BY DEF Init, NobodyFound
<1>2. ASSUME NobodyFound, [Next]_avars PROVE NobodyFound'
    <2>1. \A r : NullColumns(r) # {}
        BY DEF NullColumns
    <2>2. ASSUME NEW r \in Discovers, Query(r) PROVE NobodyFound'
        <3>1. found' = [found EXCEPT ![r] = {}]
            BY <2>1, <2>2 DEF Query
        <3>2. QED BY <1>2, <3>1 DEF NobodyFound
    <2>3. CASE UNCHANGED avars
        BY <1>2, <2>3 DEF avars, NobodyFound
    <2>4. ASSUME NEW a \in Address, Expire(a) PROVE NobodyFound'
        BY <1>2, <2>4 DEF Expire, NobodyFound
    <2>5. ASSUME NEW r \in Request, Arrive(r) \/ TimesOut(r) \/ AskCommit(r) PROVE NobodyFound'
        BY <1>2, <2>5 DEF Arrive, TimesOut, AskCommit, NobodyFound
    <2>6. ASSUME NEW r \in Request,
                 BeginRegister(r) \/ BeginCode(r) \/ BeginUser(r) \/ BeginMark(r)
          PROVE  found' = found
        BY <2>6 DEF BeginRegister, BeginCode, BeginUser, BeginMark, Reserve
    <2>7. ASSUME NEW r \in Request, \/ CommitRegister(r) \/ CommitFetch(r) \/ CommitCode(r)
                                    \/ CommitUser(r) \/ CommitMark(r)
          PROVE  found' = found
        BY <2>7 DEF CommitRegister, CommitFetch, CommitCode, CommitUser, CommitMark
    <2>8. ASSUME NEW r \in Request, \/ ReadUser(r) \/ SelectPrekey(r) \/ DeletePrekey(r)
                                    \/ CheckCode(r) \/ Authorize(r)
          PROVE  found' = found
        BY <2>8 DEF ReadUser, SelectPrekey, DeletePrekey, CheckCode, Authorize
    <2>9. QED
        BY <1>2, <2>2, <2>3, <2>4, <2>5, <2>6, <2>7, <2>8 DEF Next, Step, NobodyFound
<1>3. QED BY <1>1, <1>2, PTL DEF Spec
============================================================================
