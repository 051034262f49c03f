--------------------------- MODULE OfflineProofs ---------------------------
(***************************************************************************)
(* What OfflineSender!Spec guarantees for any messages, times and bounds:  *)
(* what becomes of a message that was accepted, and when it is sent again. *)
(***************************************************************************)
EXTENDS OfflineSender, TLAPS

Calls == {"new", "queueing", "returned", "cut"}

RowType == [msg : Msg, status : {"pending", "delivered", "failed"}, retries : Nat]

Shapes ==
    /\ call \in [Msg -> Calls]
    /\ sent \in [Msg -> Nat] /\ unmarked \in [Msg -> Nat]

\* A row lies under the id of its message, whose call has returned.
RowsInv ==
    /\ rows \in [DOMAIN rows -> RowType]
    /\ \A id \in DOMAIN rows : id = Id(rows[id].msg) /\ call[rows[id].msg] = "returned"

\* So does every row in the copy of the retry thread, which has one per id, and
\* what it is about to mark.
BatchInv ==
    /\ \A x \in batch : /\ x.row.msg \in Msg
                        /\ x.id = Id(x.row.msg) /\ call[x.row.msg] = "returned"
    /\ \A x, y \in batch : x.id = y.id => x = y

Marking(m) == verdict.status = "delivered" /\ verdict.msg = m

VerdictInv ==
    /\ verdict.status \in {"none", "delivered", "failed"}
    /\ verdict.status = "none" <=> verdict = NoVerdict
    /\ verdict # NoVerdict => /\ verdict.msg \in Msg /\ verdict.id = Id(verdict.msg)
                              /\ call[verdict.msg] = "returned"
    /\ verdict.status = "delivered" => sent[verdict.msg] > 0

TypeInv == Shapes /\ RowsInv /\ BatchInv /\ VerdictInv

\* A message whose call has not returned has not been sent; one that is pending,
\* or that the retry thread has still to send, has been sent only as often as
\* its marks were lost.
SentInv ==
    \A m \in Msg :
        /\ call[m] \in {"new", "queueing"} => sent[m] = 0
        /\ sent[m] <= 1 + unmarked[m]
        /\ (\E x \in batch : x.row.msg = m) => sent[m] <= unmarked[m] /\ ~Marking(m)
        /\ (\E id \in DOMAIN rows : rows[id].msg = m /\ rows[id].status = "pending")
              => sent[m] <= unmarked[m] \/ Marking(m)

OfflineInv == TypeInv /\ SentInv /\ DeliveredWasSent /\ Accounted

proofvars == <<call, rows, batch, verdict, sent, unmarked, gone>>

LEMMA InitOffline == Init => OfflineInv
BY DEF Init, OfflineInv, TypeInv, Shapes, Calls, RowsInv, BatchInv, VerdictInv, SentInv,
       DeliveredWasSent, Accounted, NoVerdict, Marking

LEMMA SameOffline ==
    ASSUME OfflineInv, UNCHANGED proofvars
    PROVE  OfflineInv'
BY DEF OfflineInv, TypeInv, Shapes, RowsInv, BatchInv, VerdictInv, SentInv,
       DeliveredWasSent, Accounted, Marking, proofvars

LEMMA AloneId ==
    ASSUME NEW m \in Msg, NEW k \in Msg, Id(m) = Id(k), Alone(m)
    PROVE  k = m
BY DEF Id, Alone

LEMMA SendOffline ==
    ASSUME OfflineInv, NEW m \in Msg, Send(m)
    PROVE  OfflineInv'
<1>1. /\ call[m] = "new" /\ UNCHANGED <<rows, batch, verdict, unmarked, gone>>
      /\ \/ /\ call' = [call EXCEPT ![m] = "returned"]
            /\ sent' = [sent EXCEPT ![m] = @ + 1]
         \/ call' = [call EXCEPT ![m] = "queueing"] /\ sent' = sent
    BY DEF Send
<1>2. /\ sent[m] = 0 /\ unmarked[m] \in Nat
      /\ \A k \in Msg \ {m} : call'[k] = call[k] /\ sent'[k] = sent[k]
      /\ \/ call'[m] = "returned" /\ sent'[m] = 1
         \/ call'[m] = "queueing" /\ sent'[m] = 0
      /\ Shapes'
    <2>1. call \in [Msg -> Calls] /\ sent \in [Msg -> Nat] /\ unmarked \in [Msg -> Nat]
        BY DEF OfflineInv, TypeInv, Shapes
    <2>2. sent[m] = 0
        BY <1>1 DEF OfflineInv, SentInv
    <2>3. QED BY <1>1, <2>1, <2>2 DEF Shapes, Calls
<1>3. /\ \A id \in DOMAIN rows : rows[id].msg # m /\ rows[id].msg \in Msg
      /\ \A x \in batch : x.row.msg # m
      /\ verdict # NoVerdict => verdict.msg # m
    BY <1>1 DEF OfflineInv, TypeInv, RowsInv, BatchInv, VerdictInv, RowType
<1>4. TypeInv'
    BY <1>1, <1>2, <1>3 DEF OfflineInv, TypeInv, RowsInv, BatchInv, VerdictInv
<1>5. SentInv'
    BY <1>1, <1>2, <1>3 DEF OfflineInv, SentInv, Marking
<1>6. DeliveredWasSent' /\ Accounted'
    BY <1>1, <1>2, <1>3 DEF OfflineInv, DeliveredWasSent, Accounted, Alone
<1>7. QED BY <1>4, <1>5, <1>6 DEF OfflineInv

LEMMA QueueOffline ==
    ASSUME OfflineInv, NEW m \in Msg, QueueMessage(m)
    PROVE  OfflineInv'
<1>1. /\ call[m] = "queueing" /\ call' = [call EXCEPT ![m] = "returned"]
      /\ UNCHANGED <<batch, verdict, sent, unmarked>>
    BY DEF QueueMessage
<1>2. /\ \A k \in Msg \ {m} : call'[k] = call[k]
      /\ call'[m] = "returned" /\ sent[m] = 0 /\ unmarked[m] \in Nat
      /\ Shapes' /\ BatchInv' /\ VerdictInv'
    BY <1>1 DEF OfflineInv, TypeInv, Shapes, SentInv, Calls, BatchInv, VerdictInv
<1>3. CASE rows' = Inserted(m) /\ gone' = gone
    <2>1. /\ DOMAIN rows' = DOMAIN rows \cup {Id(m)}
          /\ rows'[Id(m)] = Row(m) /\ Row(m).msg = m /\ Row(m).status = "pending"
          /\ Row(m) \in RowType
          /\ \A id \in DOMAIN rows \ {Id(m)} : rows'[id] = rows[id]
        BY <1>3 DEF Inserted, Row, RowType
    <2>2. RowsInv'
        <3>1. rows' = [id \in DOMAIN rows' |-> rows'[id]]
            BY <1>3 DEF Inserted
        <3>2. \A id \in DOMAIN rows' : rows'[id] \in RowType
            BY <2>1 DEF OfflineInv, TypeInv, RowsInv
        <3>3. \A id \in DOMAIN rows' :
                 id = Id(rows'[id].msg) /\ call'[rows'[id].msg] = "returned"
            BY <1>2, <2>1 DEF OfflineInv, TypeInv, RowsInv, RowType
        <3>4. QED BY <3>1, <3>2, <3>3 DEF RowsInv
    <2>3. SentInv'
        BY <1>1, <1>2, <2>1 DEF OfflineInv, SentInv, Marking
    <2>4. DeliveredWasSent'
        BY <1>1, <2>1 DEF OfflineInv, DeliveredWasSent
    <2>5. Accounted'
        <3> SUFFICES ASSUME NEW k \in Msg, call'[k] = "returned", Alone(k), ~(sent[k] > 0),
                            k \notin gone
                     PROVE  /\ Id(k) \in DOMAIN rows'
                            /\ rows'[Id(k)].msg = k /\ rows'[Id(k)].status # "delivered"
            BY <1>1, <1>3 DEF Accounted, Alone
        <3>1. CASE k = m
            BY <2>1, <3>1
        <3>2. CASE k # m
            BY <1>2, <2>1, <3>2, AloneId DEF OfflineInv, Accounted
        <3>3. QED BY <3>1, <3>2
    <2>6. QED BY <1>2, <2>2, <2>3, <2>4, <2>5 DEF OfflineInv, TypeInv
<1>4. CASE rows' = rows /\ gone' = gone \cup {m}
    <2>1. RowsInv'
        BY <1>2, <1>4 DEF OfflineInv, TypeInv, RowsInv, RowType
    <2>2. SentInv'
        BY <1>1, <1>2, <1>4 DEF OfflineInv, SentInv, Marking
    <2>3. DeliveredWasSent' /\ Accounted'
        BY <1>1, <1>2, <1>4 DEF OfflineInv, DeliveredWasSent, Accounted, Alone
    <2>4. QED BY <1>2, <2>1, <2>2, <2>3 DEF OfflineInv, TypeInv
<1>5. QED BY <1>3, <1>4 DEF QueueMessage

LEMMA SelectOffline ==
    ASSUME OfflineInv, SelectPending
    PROVE  OfflineInv'
<1>1. /\ verdict = NoVerdict /\ batch' = Pending
      /\ UNCHANGED <<call, rows, verdict, sent, unmarked, gone>>
    BY DEF SelectPending, Resting, history
<1>2. \A x \in batch' : /\ x.id \in DOMAIN rows /\ x.row = rows[x.id]
                        /\ rows[x.id].status = "pending" /\ x = [id |-> x.id, row |-> x.row]
    BY <1>1 DEF Pending
<1>3. BatchInv'
    BY <1>1, <1>2 DEF OfflineInv, TypeInv, RowsInv, RowType, BatchInv
<1>4. TypeInv'
    BY <1>1, <1>3 DEF OfflineInv, TypeInv, Shapes, RowsInv, VerdictInv
<1>5. \A m \in Msg : ~Marking(m)
    BY <1>1 DEF Marking, NoVerdict
<1>6. SentInv'
    BY <1>1, <1>2, <1>5 DEF OfflineInv, SentInv, Marking
<1>7. DeliveredWasSent' /\ Accounted'
    BY <1>1 DEF OfflineInv, DeliveredWasSent, Accounted
<1>8. QED BY <1>4, <1>6, <1>7 DEF OfflineInv

\* The message sent again was in the copy, so it may be; it leaves the copy.
LEMMA RetryOffline ==
    ASSUME OfflineInv, NEW x \in batch, RetrySend(x)
    PROVE  OfflineInv'
<1> DEFINE m == x.row.msg
<1>1. /\ verdict = NoVerdict /\ batch' = batch \ {x}
      /\ verdict' = RetryVerdict(x)
      /\ sent' = IF MayRetry(x.row) /\ To[m] \in sessions
                 THEN [sent EXCEPT ![m] = @ + 1] ELSE sent
      /\ UNCHANGED <<call, rows, unmarked, gone>>
    BY DEF RetrySend, app
<1>2. /\ m \in Msg /\ x.id = Id(m) /\ call[m] = "returned"
      /\ sent[m] <= unmarked[m] /\ sent[m] \in Nat /\ unmarked[m] \in Nat
    BY DEF OfflineInv, TypeInv, Shapes, BatchInv, SentInv
<1>3. /\ verdict'.id = Id(m) /\ verdict'.msg = m /\ verdict' # NoVerdict
      /\ verdict'.status \in {"delivered", "failed"}
      /\ verdict'.status = "delivered" <=> (MayRetry(x.row) /\ To[m] \in sessions)
    BY <1>1, <1>2 DEF RetryVerdict, NoVerdict
<1> HIDE DEF m
<1>4. /\ \A k \in Msg \ {m} : sent'[k] = sent[k]
      /\ \/ sent'[m] = sent[m] + 1 /\ verdict'.status = "delivered"
         \/ sent'[m] = sent[m] /\ verdict'.status = "failed"
      /\ Shapes'
    <2>1. sent \in [Msg -> Nat]
        BY DEF OfflineInv, TypeInv, Shapes
    <2>2. CASE MayRetry(x.row) /\ To[m] \in sessions
        BY <1>1, <1>2, <1>3, <2>1, <2>2 DEF OfflineInv, TypeInv, Shapes
    <2>3. CASE ~(MayRetry(x.row) /\ To[m] \in sessions)
        BY <1>1, <1>2, <1>3, <2>1, <2>3 DEF OfflineInv, TypeInv, Shapes
    <2>4. QED BY <2>2, <2>3
<1>5. RowsInv' /\ BatchInv'
    BY <1>1 DEF OfflineInv, TypeInv, RowsInv, BatchInv
<1>6. VerdictInv'
    BY <1>1, <1>2, <1>3, <1>4 DEF VerdictInv, NoVerdict
<1>7. \A y \in batch' : y.row.msg # m
    BY <1>1, <1>2 DEF OfflineInv, TypeInv, BatchInv, m
<1>8. \A k \in Msg : ~Marking(k)
    BY <1>1 DEF Marking, NoVerdict
<1>9. SentInv'
    BY <1>1, <1>2, <1>3, <1>4, <1>7, <1>8 DEF OfflineInv, SentInv, Marking
<1>10. \A k \in Msg : sent[k] > 0 => sent'[k] > 0
    BY <1>2, <1>4
<1>11. DeliveredWasSent'
    BY <1>1, <1>10 DEF OfflineInv, TypeInv, RowsInv, RowType, DeliveredWasSent, Alone
<1>12. Accounted'
    BY <1>1, <1>10 DEF OfflineInv, Accounted, Alone
<1>13. QED BY <1>4, <1>5, <1>6, <1>9, <1>11, <1>12 DEF OfflineInv, TypeInv

\* mark_delivered and mark_failed change the status under one id.
LEMMA MarkedRows ==
    ASSUME TypeInv, verdict # NoVerdict
    PROVE  /\ DOMAIN Marked = DOMAIN rows
           /\ Marked \in [DOMAIN rows -> RowType]
           /\ \A id \in DOMAIN rows :
                 /\ Marked[id].msg = rows[id].msg
                 /\ id = verdict.id => Marked[id].status = verdict.status
                 /\ id # verdict.id => Marked[id].status = rows[id].status
<1>1. verdict.status \in {"delivered", "failed"} /\ rows \in [DOMAIN rows -> RowType]
    BY DEF TypeInv, VerdictInv, RowsInv
<1>2. CASE verdict.id \notin DOMAIN rows
    BY <1>1, <1>2 DEF Marked
<1>3. CASE verdict.id \in DOMAIN rows
    <2> DEFINE r == rows[verdict.id]
    <2>1. /\ MarkedRow(r) \in RowType
          /\ MarkedRow(r).msg = r.msg /\ MarkedRow(r).status = verdict.status
        BY <1>1, <1>3 DEF MarkedRow, RowType
    <2>2. Marked = [rows EXCEPT ![verdict.id] = MarkedRow(r)]
        BY <1>3 DEF Marked
    <2>3. QED BY <1>1, <1>3, <2>1, <2>2
<1>4. QED BY <1>2, <1>3

LEMMA MarkOffline ==
    ASSUME OfflineInv, RetryMark
    PROVE  OfflineInv'
<1> DEFINE m == verdict.msg
<1>1. /\ verdict # NoVerdict /\ verdict' = NoVerdict
      /\ UNCHANGED <<call, batch, sent, gone>>
    BY DEF RetryMark
<1>2. /\ m \in Msg /\ verdict.id = Id(m) /\ verdict.status \in {"delivered", "failed"}
      /\ verdict.status = "delivered" => sent[m] > 0
    BY <1>1 DEF OfflineInv, TypeInv, VerdictInv
<1>3. VerdictInv' /\ \A k \in Msg : ~Marking(k)'
    BY <1>1 DEF VerdictInv, NoVerdict, Marking
<1>4. CASE rows' = Marked /\ unmarked' = unmarked
    <2>1. /\ DOMAIN rows' = DOMAIN rows /\ rows' \in [DOMAIN rows -> RowType]
          /\ \A id \in DOMAIN rows :
                /\ rows'[id].msg = rows[id].msg
                /\ id = Id(m) => rows'[id].status = verdict.status
                /\ id # Id(m) => rows'[id].status = rows[id].status
        BY <1>1, <1>2, <1>4, MarkedRows DEF OfflineInv
    <2>2. TypeInv'
        BY <1>1, <1>3, <1>4, <2>1 DEF OfflineInv, TypeInv, Shapes, RowsInv, BatchInv
    <2>3. SentInv'
        BY <1>1, <1>2, <1>3, <1>4, <2>1 DEF OfflineInv, TypeInv, RowsInv, SentInv, Marking
    <2>4. \A id \in DOMAIN rows : rows[id].msg \in Msg /\ id = Id(rows[id].msg)
        BY DEF OfflineInv, TypeInv, RowsInv, RowType
    <2>5. DeliveredWasSent'
        <3> SUFFICES ASSUME NEW id \in DOMAIN rows, rows'[id].status = "delivered"
                     PROVE  \E k \in Msg : Id(k) = id /\ sent[k] > 0
            BY <1>1, <2>1 DEF DeliveredWasSent
        <3>1. CASE id = Id(m)
            BY <1>2, <2>1, <3>1
        <3>2. CASE id # Id(m)
            BY <2>1, <3>2 DEF OfflineInv, DeliveredWasSent
        <3>3. QED BY <3>1, <3>2
    <2>6. Accounted'
        <3> SUFFICES ASSUME NEW k \in Msg, call[k] = "returned", Alone(k), ~(sent[k] > 0),
                            k \notin gone
                     PROVE  /\ Id(k) \in DOMAIN rows
                            /\ rows'[Id(k)].msg = k /\ rows'[Id(k)].status # "delivered"
            BY <1>1, <2>1 DEF Accounted, Alone
        <3>1. /\ Id(k) \in DOMAIN rows /\ rows[Id(k)].msg = k
              /\ rows[Id(k)].status # "delivered"
            BY DEF OfflineInv, Accounted
        <3>2. Id(k) = Id(m) => k = m
            BY <1>2, AloneId
        <3>3. QED BY <1>2, <2>1, <3>1, <3>2
    <2>7. QED BY <2>2, <2>3, <2>5, <2>6 DEF OfflineInv
<1>5. CASE rows' = rows /\ unmarked' = MarkLost
    <2>1. /\ Shapes'
          /\ \A k \in Msg : /\ unmarked'[k] >= unmarked[k]
                            /\ Marking(k) => unmarked'[k] = unmarked[k] + 1
        BY <1>1, <1>2, <1>5 DEF OfflineInv, TypeInv, Shapes, MarkLost, Marking
    <2>2. TypeInv'
        BY <1>1, <1>3, <1>5, <2>1 DEF OfflineInv, TypeInv, RowsInv, BatchInv
    <2>3. \A k \in Msg : sent[k] \in Nat /\ unmarked[k] \in Nat /\ unmarked'[k] \in Nat
        BY <2>1 DEF OfflineInv, TypeInv, Shapes
    <2>4. SentInv'
        BY <1>1, <1>3, <1>5, <2>1, <2>3 DEF OfflineInv, SentInv
    <2>5. DeliveredWasSent' /\ Accounted'
        BY <1>1, <1>5 DEF OfflineInv, DeliveredWasSent, Accounted, Alone
    <2>6. QED BY <2>2, <2>4, <2>5 DEF OfflineInv
<1>6. QED BY <1>4, <1>5 DEF RetryMark

LEMMA CleanUpOffline ==
    ASSUME OfflineInv, NEW cutoff, CleanUp(cutoff)
    PROVE  OfflineInv'
<1>1. /\ rows' = [id \in DOMAIN rows \ Old(cutoff) |-> rows[id]]
      /\ gone' = gone \cup
            {rows[id].msg : id \in {i \in Old(cutoff) : rows[i].status = "failed"}}
      /\ UNCHANGED <<call, batch, verdict, sent, unmarked>>
    BY DEF CleanUp
<1>2. DOMAIN rows' \subseteq DOMAIN rows /\ \A id \in DOMAIN rows' : rows'[id] = rows[id]
    BY <1>1
<1>3. RowsInv'
    BY <1>1, <1>2 DEF OfflineInv, TypeInv, RowsInv
<1>4. TypeInv'
    BY <1>1, <1>3 DEF OfflineInv, TypeInv, Shapes, BatchInv, VerdictInv
<1>5. SentInv' /\ DeliveredWasSent'
    BY <1>1, <1>2 DEF OfflineInv, SentInv, Marking, DeliveredWasSent, Alone
<1>6. Accounted'
    <2> SUFFICES ASSUME NEW k \in Msg, call[k] = "returned", Alone(k), ~(sent[k] > 0),
                        k \notin gone'
                 PROVE  /\ Id(k) \in DOMAIN rows'
                        /\ rows'[Id(k)].msg = k /\ rows'[Id(k)].status # "delivered"
        BY <1>1 DEF Accounted, Alone
    <2>1. /\ Id(k) \in DOMAIN rows /\ rows[Id(k)].msg = k
          /\ rows[Id(k)].status \in {"pending", "failed"}
        BY <1>1 DEF OfflineInv, TypeInv, RowsInv, RowType, Accounted
    <2>2. Id(k) \notin Old(cutoff)
        BY <1>1, <2>1 DEF Old
    <2>3. QED BY <1>1, <1>2, <2>1, <2>2
<1>7. QED BY <1>4, <1>5, <1>6 DEF OfflineInv

\* A crash between sending and marking is what a lost mark is.
LEMMA CrashOffline ==
    ASSUME OfflineInv, Crash
    PROVE  OfflineInv'
<1>1. /\ call' = [k \in Msg |-> IF call[k] = "queueing" THEN "cut" ELSE call[k]]
      /\ batch' = {} /\ verdict' = NoVerdict
      /\ unmarked' = IF verdict = NoVerdict THEN unmarked ELSE MarkLost
      /\ UNCHANGED <<rows, sent, gone>>
    BY DEF Crash
<1>2. /\ Shapes'
      /\ \A k \in Msg : /\ unmarked'[k] >= unmarked[k]
                        /\ Marking(k) => unmarked'[k] = unmarked[k] + 1
                        /\ call'[k] = "returned" <=> call[k] = "returned"
                        /\ call'[k] \in {"new", "queueing"} => call[k] = "new"
    BY <1>1 DEF OfflineInv, TypeInv, VerdictInv, Shapes, Calls, MarkLost, Marking, NoVerdict
<1>3. VerdictInv' /\ BatchInv' /\ \A k \in Msg : ~Marking(k)'
    BY <1>1 DEF VerdictInv, BatchInv, NoVerdict, Marking
<1>4. TypeInv'
    BY <1>1, <1>2, <1>3 DEF OfflineInv, TypeInv, RowsInv, RowType
<1>5. \A k \in Msg : sent[k] \in Nat /\ unmarked[k] \in Nat /\ unmarked'[k] \in Nat
    BY <1>2 DEF OfflineInv, TypeInv, Shapes
<1>6. SentInv'
    BY <1>1, <1>2, <1>3, <1>5 DEF OfflineInv, SentInv
<1>7. DeliveredWasSent' /\ Accounted'
    BY <1>1, <1>2 DEF OfflineInv, DeliveredWasSent, Accounted, Alone
<1>8. QED BY <1>4, <1>6, <1>7 DEF OfflineInv

LEMMA StepOffline == OfflineInv /\ [Next]_ovars => OfflineInv'
<1> SUFFICES ASSUME OfflineInv, [Next]_ovars PROVE OfflineInv'
    OBVIOUS
<1>1. CASE Start \/ Stop \/ CheckConnectivity
    BY <1>1, SameOffline DEF Start, Stop, CheckConnectivity, proofvars, history
<1>2. ASSUME NEW offline \in BOOLEAN, SetOfflineMode(offline) PROVE OfflineInv'
    BY <1>2, SameOffline DEF SetOfflineMode, proofvars, history
<1>3. ASSUME NEW p \in Peer, CreateSessionWith(p) PROVE OfflineInv'
    BY <1>3, SameOffline DEF CreateSessionWith, proofvars, history
<1>4. CASE UNCHANGED ovars
    BY <1>4, SameOffline DEF ovars, proofvars
<1>5. QED
    BY <1>1, <1>2, <1>3, <1>4, SendOffline, QueueOffline, SelectOffline, RetryOffline,
       MarkOffline, CleanUpOffline, CrashOffline DEF Next

\* The invariant of the queue's table and the retry thread's copy of it.
THEOREM OfflineInvariance == Spec => []OfflineInv
BY InitOffline, StepOffline, PTL DEF Spec

\* Across crashes, failing statements and clean-ups, a message of
\* send_message_to_device is sent, in the table, or given up for a known reason.
THEOREM AccountedHolds == Spec => []Accounted
<1>1. OfflineInv => Accounted
    BY DEF OfflineInv
<1>2. QED BY <1>1, OfflineInvariance, PTL

\* mark_delivered never writes under an id of which no message was sent, through
\* crashes, lost marks and rows replaced since the retry thread selected them.
THEOREM DeliveredWasSentHolds == Spec => []DeliveredWasSent
<1>1. OfflineInv => DeliveredWasSent
    BY DEF OfflineInv
<1>2. QED BY <1>1, OfflineInvariance, PTL

\* The retry thread sends a message again only when a mark was lost.
THEOREM ResentOnlyIfUnmarkedHolds == Spec => []ResentOnlyIfUnmarked
<1>1. OfflineInv => ResentOnlyIfUnmarked
    BY DEF OfflineInv, SentInv, ResentOnlyIfUnmarked
<1>2. QED BY <1>1, OfflineInvariance, PTL
----------------------------------------------------------------------------
\* What the retry thread still has to go through, and what it is about to mark, is
\* in the table and pending, whatever is queued or cleaned up meanwhile.
CopyInv ==
    /\ \A x \in batch : /\ IsPending(x.id) /\ x.row.status = "pending"
                        /\ verdict # NoVerdict => verdict.id # x.id
    /\ verdict # NoVerdict => IsPending(verdict.id)

AppInv ==
    /\ connection \in {"offline", "mesh", "online"}
    /\ sessions \subseteq Peer
    /\ gone \subseteq Msg
    /\ faults \in 0 .. MaxFaults

StaysInv == CopyInv /\ AppInv

LEMMA InitStays == Init => StaysInv
BY OfflineAssumption DEF Init, StaysInv, CopyInv, AppInv, IsPending

LEMMA FaultBound ==
    ASSUME AppInv, Fault \/ UNCHANGED faults
    PROVE  faults' \in 0 .. MaxFaults
BY OfflineAssumption DEF AppInv, Fault

\* The steps of the application and of the connectivity thread touch no row.
LEMMA SameCopy ==
    ASSUME CopyInv, UNCHANGED <<rows, batch, verdict>>
    PROVE  CopyInv'
BY DEF CopyInv, IsPending

LEMMA CopyStep ==
    ASSUME OfflineInv, CopyInv, Next
    PROVE  CopyInv'
<1>1. CASE Start \/ Stop \/ CheckConnectivity
    BY <1>1, SameCopy DEF Start, Stop, CheckConnectivity
<1>2. CASE Crash
    BY <1>2 DEF Crash, CopyInv, IsPending
<1>3. ASSUME NEW offline \in BOOLEAN, SetOfflineMode(offline) PROVE CopyInv'
    BY <1>3, SameCopy DEF SetOfflineMode
<1>4. ASSUME NEW p \in Peer, CreateSessionWith(p) PROVE CopyInv'
    BY <1>4, SameCopy DEF CreateSessionWith
<1>5. ASSUME NEW m \in Msg, Send(m) PROVE CopyInv'
    BY <1>5, SameCopy DEF Send
<1>6. ASSUME NEW m \in Msg, QueueMessage(m) PROVE CopyInv'
    <2>1. batch' = batch /\ verdict' = verdict
        BY <1>6 DEF QueueMessage
    <2>2. CASE rows' = Inserted(m)
        <3>1. /\ DOMAIN rows' = DOMAIN rows \cup {Id(m)}
              /\ \A id \in DOMAIN rows' : rows'[id] = Row(m) \/ rows'[id] = rows[id]
            BY <2>2 DEF Inserted
        <3>2. Row(m).status = "pending"
            BY DEF Row
        <3>3. QED BY <2>1, <3>1, <3>2 DEF CopyInv, IsPending
    <2>3. CASE rows' = rows
        BY <2>1, <2>3, SameCopy
    <2>4. QED BY <1>6, <2>2, <2>3 DEF QueueMessage
<1>7. CASE SelectPending
    BY <1>7 DEF SelectPending, Resting, Pending, CopyInv, IsPending
<1>8. CASE RetryMark
    <2>1. verdict # NoVerdict /\ verdict' = NoVerdict /\ batch' = batch
        BY <1>8 DEF RetryMark
    <2>2. CASE rows' = Marked
        <3>1. /\ DOMAIN rows' = DOMAIN rows
              /\ \A id \in DOMAIN rows : id # verdict.id => rows'[id].status = rows[id].status
            BY <2>1, <2>2, MarkedRows DEF OfflineInv
        <3>2. QED BY <2>1, <3>1 DEF CopyInv, IsPending
    <2>3. CASE rows' = rows
        BY <2>1, <2>3 DEF CopyInv, IsPending
    <2>4. QED BY <1>8, <2>2, <2>3 DEF RetryMark
<1>9. ASSUME NEW x \in batch, RetrySend(x) PROVE CopyInv'
    <2>1. batch' = batch \ {x} /\ verdict' = RetryVerdict(x) /\ rows' = rows
        BY <1>9 DEF RetrySend
    <2>2. verdict'.id = x.id
        BY <2>1 DEF RetryVerdict
    <2>3. \A y \in batch' : y.id # x.id
        BY <2>1 DEF OfflineInv, TypeInv, BatchInv
    <2>4. QED BY <2>1, <2>2, <2>3 DEF CopyInv, IsPending
<1>10. ASSUME NEW m \in Msg, CleanUp(SentAt[m] + 1) PROVE CopyInv'
    <2> DEFINE c == SentAt[m] + 1
    <2>1. /\ rows' = [id \in DOMAIN rows \ Old(c) |-> rows[id]]
          /\ batch' = batch /\ verdict' = verdict
        BY <1>10 DEF CleanUp
    <2>2. \A id \in DOMAIN rows : rows[id].status = "pending" => id \notin Old(c)
        BY DEF Old
    <2> HIDE DEF c
    <2>3. QED BY <2>1, <2>2 DEF CopyInv, IsPending
<1>11. QED
    BY <1>1, <1>2, <1>3, <1>4, <1>5, <1>6, <1>7, <1>8, <1>9, <1>10 DEF Next

LEMMA AppStep ==
    ASSUME OfflineInv, AppInv, Next
    PROVE  AppInv'
<1>1. CASE Start \/ Stop
    BY <1>1, FaultBound DEF Start, Stop, AppInv, history
<1>2. CASE CheckConnectivity
    BY <1>2, FaultBound DEF CheckConnectivity, Connections, AppInv, history
<1>3. CASE Crash
    BY <1>3, FaultBound DEF Crash, AppInv
<1>4. ASSUME NEW offline \in BOOLEAN, SetOfflineMode(offline) PROVE AppInv'
    BY <1>4, FaultBound DEF SetOfflineMode, AppInv, history
<1>5. ASSUME NEW p \in Peer, CreateSessionWith(p) PROVE AppInv'
    BY <1>5, FaultBound DEF CreateSessionWith, AppInv, history
<1>6. ASSUME NEW m \in Msg, Send(m) PROVE AppInv'
    BY <1>6 DEF Send, AppInv, app
<1>7. ASSUME NEW m \in Msg, QueueMessage(m) PROVE AppInv'
    BY <1>7, FaultBound DEF QueueMessage, AppInv, app
<1>8. CASE SelectPending
    BY <1>8 DEF SelectPending, AppInv, app, history
<1>9. CASE RetryMark
    BY <1>9, FaultBound DEF RetryMark, AppInv, app
<1>10. ASSUME NEW x \in batch, RetrySend(x) PROVE AppInv'
    BY <1>10 DEF RetrySend, AppInv, app
<1>11. ASSUME NEW m \in Msg, CleanUp(SentAt[m] + 1) PROVE AppInv'
    <2> DEFINE c == SentAt[m] + 1
    <2>1. /\ gone' = gone \cup
                {rows[id].msg : id \in {i \in Old(c) : rows[i].status = "failed"}}
          /\ UNCHANGED <<connection, sessions, faults>>
        BY <1>11 DEF CleanUp, app
    <2>2. \A id \in Old(c) : rows[id].msg \in Msg
        BY DEF Old, OfflineInv, TypeInv, RowsInv, RowType
    <2> HIDE DEF c
    <2>3. QED BY <2>1, <2>2 DEF AppInv
<1>12. QED
    BY <1>1, <1>2, <1>3, <1>4, <1>5, <1>6, <1>7, <1>8, <1>9, <1>10, <1>11 DEF Next

LEMMA StaysStep == OfflineInv /\ StaysInv /\ [Next]_ovars => StaysInv'
<1>1. ASSUME StaysInv, UNCHANGED ovars PROVE StaysInv'
    BY <1>1 DEF StaysInv, CopyInv, AppInv, IsPending, ovars
<1>2. QED BY <1>1, CopyStep, AppStep DEF StaysInv

\* The types of the sender's variables; in particular the retry thread never works
\* on a row that has left the table (cleanup_old_messages spares pending rows).
THEOREM OfflineTypeCorrect == Spec => []TypeOK
<1>1. Spec => []StaysInv
    BY OfflineInvariance, InitStays, StaysStep, PTL DEF Spec
<1>2. OfflineInv /\ StaysInv => TypeOK
    <2> SUFFICES ASSUME OfflineInv, StaysInv PROVE TypeOK
        OBVIOUS
    <2>1. call \in [Msg -> {"new", "queueing", "returned", "cut"}]
        BY DEF OfflineInv, TypeInv, Shapes, Calls
    <2>2. \A id \in DOMAIN rows : /\ rows[id].msg \in Msg /\ rows[id].retries \in Nat
                                  /\ rows[id].status \in {"pending", "delivered", "failed"}
                                  /\ id = Id(rows[id].msg)
        BY DEF OfflineInv, TypeInv, RowsInv, RowType
    <2>3. verdict = NoVerdict \/ verdict.status \in {"delivered", "failed"}
        BY DEF OfflineInv, TypeInv, VerdictInv
    <2>4. QED BY <2>1, <2>2, <2>3 DEF StaysInv, CopyInv, AppInv, IsPending, TypeOK
<1>3. QED BY <1>1, <1>2, OfflineInvariance, PTL

\* get_pending_messages selects rows never tried and no other, and mark_failed
\* takes a row out of them: what README.md calls retrying never happens.
THEOREM FailedIsFinalHolds == Spec => FailedIsFinal
<1>1. ASSUME OfflineInv, StaysInv, Next, NEW m \in Msg, Failed(m)
      PROVE  /\ sent'[m] = sent[m]
             /\ Id(m) \in DOMAIN rows' /\ rows'[Id(m)].msg = m => Failed(m)'
    <2>1. call[m] = "returned"
        BY <1>1 DEF Failed, OfflineInv, TypeInv, RowsInv
    <2>2. /\ \A x \in batch : x.id # Id(m) /\ x.row.msg # m
          /\ verdict # NoVerdict => verdict.id # Id(m)
        BY <1>1 DEF Failed, StaysInv, CopyInv, IsPending, OfflineInv, TypeInv, BatchInv
    <2>3. CASE UNCHANGED <<rows, sent>>
        BY <1>1, <2>3 DEF Failed
    <2>4. CASE Start \/ Stop \/ CheckConnectivity \/ Crash \/ SelectPending
        BY <2>3, <2>4 DEF Start, Stop, CheckConnectivity, Crash, SelectPending, history
    <2>5. ASSUME NEW offline \in BOOLEAN, SetOfflineMode(offline) PROVE UNCHANGED <<rows, sent>>
        BY <2>5 DEF SetOfflineMode, history
    <2>6. ASSUME NEW p \in Peer, CreateSessionWith(p) PROVE UNCHANGED <<rows, sent>>
        BY <2>6 DEF CreateSessionWith, history
    <2>7. ASSUME NEW k \in Msg, Send(k) PROVE rows' = rows /\ sent'[m] = sent[m]
        <3>1. k # m
            BY <2>1, <2>7 DEF Send
        <3>2. QED BY <1>1, <2>7, <3>1 DEF Send, OfflineInv, TypeInv, Shapes
    <2>8. ASSUME NEW k \in Msg, QueueMessage(k)
          PROVE  /\ sent' = sent
                 /\ Id(m) \in DOMAIN rows' /\ rows'[Id(m)].msg = m => Failed(m)'
        <3>1. k # m
            BY <2>1, <2>8 DEF QueueMessage
        <3>2. CASE rows' = Inserted(k)
            <4>1. Row(k).msg = k
                BY DEF Row
            <4>2. QED BY <1>1, <2>8, <3>1, <3>2, <4>1 DEF Inserted, Failed, QueueMessage
        <3>3. CASE rows' = rows
            BY <1>1, <2>8, <3>3 DEF Failed, QueueMessage
        <3>4. QED BY <2>8, <3>2, <3>3 DEF QueueMessage
    <2>9. CASE RetryMark
        <3>1. verdict # NoVerdict /\ sent' = sent
            BY <2>9 DEF RetryMark
        <3>2. CASE rows' = Marked
            <4>1. rows'[Id(m)].status = rows[Id(m)].status
                BY <1>1, <2>2, <3>1, <3>2, MarkedRows DEF OfflineInv, Failed
            <4>2. QED BY <1>1, <3>1, <4>1 DEF Failed
        <3>3. CASE rows' = rows
            BY <1>1, <3>1, <3>3 DEF Failed
        <3>4. QED BY <2>9, <3>2, <3>3 DEF RetryMark
    <2>10. ASSUME NEW x \in batch, RetrySend(x) PROVE rows' = rows /\ sent'[m] = sent[m]
        <3>1. x.row.msg # m
            BY <2>2
        <3>2. QED BY <1>1, <2>10, <3>1 DEF RetrySend, OfflineInv, TypeInv, Shapes
    <2>11. ASSUME NEW k \in Msg, CleanUp(SentAt[k] + 1)
           PROVE  /\ sent' = sent
                  /\ Id(m) \in DOMAIN rows' => rows'[Id(m)] = rows[Id(m)]
        BY <2>11 DEF CleanUp
    <2>12. QED
        BY <1>1, <2>3, <2>4, <2>5, <2>6, <2>7, <2>8, <2>9, <2>10, <2>11 DEF Next, Failed
<1>2. ASSUME UNCHANGED ovars, NEW m \in Msg, Failed(m)
      PROVE  /\ sent'[m] = sent[m]
             /\ Id(m) \in DOMAIN rows' /\ rows'[Id(m)].msg = m => Failed(m)'
    BY <1>2 DEF ovars, Failed
<1>3. OfflineInv /\ StaysInv /\ [Next]_ovars =>
         [\A m \in Msg : Failed(m) =>
            /\ sent'[m] = sent[m]
            /\ Id(m) \in DOMAIN rows' /\ rows'[Id(m)].msg = m => Failed(m)']_ovars
    BY <1>1, <1>2
<1>4. Spec => []StaysInv
    BY OfflineInvariance, InitStays, StaysStep, PTL DEF Spec
<1>5. QED BY <1>3, <1>4, OfflineInvariance, PTL DEF Spec, FailedIsFinal
============================================================================
