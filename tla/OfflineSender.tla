--------------------------- MODULE OfflineSender ---------------------------
(***************************************************************************)
(* One device's EnhancedDispatcher (enhanced_dispatcher.cpp) with its      *)
(* OfflineQueue (modules/offline/queue_manager.cpp): the application       *)
(* threads that send, the connectivity thread, the retry thread, and the   *)
(* table of queued messages, which is all that outlives the process.       *)
(*                                                                         *)
(* A step is one SQL statement, one call into the Dispatcher (which holds  *)
(* its own mutex), or one access to an atomic.  The retry thread selects   *)
(* the pending rows once and then works on its copy of them, while other   *)
(* threads insert.  Results of SQL statements are ignored by the callers:  *)
(* an insert or an update that fails is a step that changes no row.        *)
(*                                                                         *)
(* An operator whose name starts with Faulty is no part of the model: it   *)
(* is a plausible mistake in the operator after it, put in its place to    *)
(* see which property notices.                                             *)
(***************************************************************************)
EXTENDS Naturals, FiniteSets

CONSTANTS Msg,         \* the messages the application sends
          To,          \* the device each is for
          SentAt,      \* the millisecond at which each is sent
          MaxRetries,  \* 10 in the code
          MaxFaults    \* bound: crashes, failed SQL writes and mode changes

ASSUME OfflineAssumption == MaxRetries \in Nat /\ MaxFaults \in Nat

Peer == {To[m] : m \in Msg}

\* The message id: the own device id, the remote one, and the time in ms.
Id(m) == [peer |-> To[m], at |-> SentAt[m]]

VARIABLES
    running,      \* running_
    offlineMode,  \* offline_mode_
    connection,   \* connection_state_
    sessions,     \* the devices the Dispatcher has a session with
    call,         \* the call of send_message_to_device for each message
    rows,         \* the table: a row per message id
    batch,        \* the rows retry_queued_messages has still to go through
    verdict,      \* the update it is about to make, if any
    sent,         \* history: how often the Dispatcher has sent each message
    unmarked,     \* history: how often the mark of a message sent was lost
    gone,         \* history: messages given up by a failed insert, or failed
                  \* and cleaned up
    faults        \* how many faults have happened

ovars == <<running, offlineMode, connection, sessions, call, rows, batch,
           verdict, sent, unmarked, gone, faults>>
app == <<running, offlineMode, connection, sessions>>
history == <<sent, unmarked, gone>>

NoVerdict == [status |-> "none"]

Row(m) == [msg |-> m, status |-> "pending", retries |-> 0]

Init ==
    /\ running = FALSE
    /\ offlineMode = FALSE
    /\ connection = "offline"
    /\ sessions = {}
    /\ call = [m \in Msg |-> "new"]
    /\ rows = [id \in {} |-> Row(id)]
    /\ batch = {}
    /\ verdict = NoVerdict
    /\ sent = [m \in Msg |-> 0]
    /\ unmarked = [m \in Msg |-> 0]
    /\ gone = {}
    /\ faults = 0

Fault == faults < MaxFaults /\ faults' = faults + 1
----------------------------------------------------------------------------
\* Between two rounds the retry thread sleeps, unless it has been stopped.
Resting == batch = {} /\ verdict = NoVerdict

Start ==
    /\ ~running
    /\ running' = TRUE
    /\ UNCHANGED <<offlineMode, connection, sessions, call, rows, batch,
                   verdict, history, faults>>

\* stop returns once the threads have been joined: a round is finished first.
Stop ==
    /\ running /\ Resting /\ Fault
    /\ running' = FALSE
    /\ UNCHANGED <<offlineMode, connection, sessions, call, rows, batch,
                   verdict, history>>

SetOfflineMode(offline) ==
    /\ offlineMode # offline /\ (offline => Fault) /\ (~offline => UNCHANGED faults)
    /\ offlineMode' = offline
    /\ UNCHANGED <<running, connection, sessions, call, rows, batch, verdict, history>>

FaultyConnections == {"offline"}  \* never back online

\* The transport is taken to be up; a mesh peer with internet may be there.
Connections == IF offlineMode THEN {"mesh", "offline"} ELSE {"online"}

CheckConnectivity ==
    /\ running
    /\ connection' \in Connections
    /\ UNCHANGED <<running, offlineMode, sessions, call, rows, batch, verdict,
                   history, faults>>

CreateSessionWith(p) ==
    /\ sessions' = sessions \cup {p}
    /\ UNCHANGED <<running, offlineMode, connection, call, rows, batch,
                   verdict, history, faults>>
----------------------------------------------------------------------------
\* send_message_to_device: with a session the Dispatcher sends at once;
\* without one it throws, and the handler goes on to queue the message.
Send(m) ==
    /\ call[m] = "new"
    /\ IF To[m] \in sessions
       THEN /\ call' = [call EXCEPT ![m] = "returned"]
            /\ sent' = [sent EXCEPT ![m] = @ + 1]
       ELSE /\ call' = [call EXCEPT ![m] = "queueing"]
            /\ UNCHANGED sent
    /\ UNCHANGED <<app, rows, batch, verdict, unmarked, gone, faults>>

\* INSERT OR REPLACE: a row under the same id is replaced, whatever it holds.
Inserted(m) ==
    [id \in DOMAIN rows \cup {Id(m)} |-> IF id = Id(m) THEN Row(m) ELSE rows[id]]

\* queue_message; the caller does not look at its result.
QueueMessage(m) ==
    /\ call[m] = "queueing"
    /\ call' = [call EXCEPT ![m] = "returned"]
    /\ \/ rows' = Inserted(m) /\ UNCHANGED <<gone, faults>>
       \/ Fault /\ gone' = gone \cup {m} /\ UNCHANGED rows
    /\ UNCHANGED <<app, batch, verdict, sent, unmarked>>
----------------------------------------------------------------------------
FaultyPending ==  \* what has failed is selected again
    {[id |-> id, row |-> rows[id]] :
        id \in {i \in DOMAIN rows : rows[i].status # "delivered"}}

\* get_pending_messages: a copy of the rows never tried.  Its order (whole
\* seconds of created_at) does not tell messages of one second apart, and the
\* rounds below take them in any order.
Pending ==
    {[id |-> id, row |-> rows[id]] :
        id \in {i \in DOMAIN rows : rows[i].status = "pending"}}

SelectPending ==
    /\ running /\ Resting
    /\ connection # "offline"
    /\ batch' = Pending
    /\ UNCHANGED <<app, call, rows, verdict, history, faults>>

\* A row that has been tried more often is marked failed without being sent.
MayRetry(row) == row.retries <= MaxRetries

FaultyRetryVerdict(x) ==  \* a message the Dispatcher refused counts as sent
    [status |-> "delivered", id |-> x.id, msg |-> x.row.msg]

RetryVerdict(x) ==
    [status |-> IF MayRetry(x.row) /\ To[x.row.msg] \in sessions
                THEN "delivered" ELSE "failed",
     id |-> x.id, msg |-> x.row.msg]

\* The Dispatcher sends the message again or throws.
RetrySend(x) ==
    /\ verdict = NoVerdict
    /\ batch' = batch \ {x}
    /\ verdict' = RetryVerdict(x)
    /\ sent' = IF MayRetry(x.row) /\ To[x.row.msg] \in sessions
               THEN [sent EXCEPT ![x.row.msg] = @ + 1] ELSE sent
    /\ UNCHANGED <<app, call, rows, unmarked, gone, faults>>

FaultyMarked ==  \* the retry is counted, the status is not written
    IF verdict.id \notin DOMAIN rows THEN rows
    ELSE [rows EXCEPT ![verdict.id].retries = @ + 1]

\* Only a failure counts as a retry.
MarkedRow(row) ==
    [msg |-> row.msg, status |-> verdict.status,
     retries |-> IF verdict.status = "failed" THEN row.retries + 1 ELSE row.retries]

\* mark_delivered and mark_failed update the row under the id, if there is one:
\* it may have been replaced since it was selected.
Marked ==
    IF verdict.id \notin DOMAIN rows THEN rows
    ELSE [rows EXCEPT ![verdict.id] = MarkedRow(@)]

MarkLost == IF verdict.status = "delivered"
            THEN [unmarked EXCEPT ![verdict.msg] = @ + 1] ELSE unmarked

RetryMark ==
    /\ verdict # NoVerdict
    /\ verdict' = NoVerdict
    /\ \/ rows' = Marked /\ UNCHANGED <<unmarked, faults>>
       \/ Fault /\ unmarked' = MarkLost /\ UNCHANGED rows
    /\ UNCHANGED <<app, call, batch, sent, gone>>
----------------------------------------------------------------------------
FaultyOld(cutoff) == {id \in DOMAIN rows : id.at < cutoff}  \* pending ones too

Old(cutoff) == {id \in DOMAIN rows : id.at < cutoff /\ rows[id].status # "pending"}

\* cleanup_old_messages deletes what is older than the cutoff and not pending.
CleanUp(cutoff) ==
    /\ rows' = [id \in DOMAIN rows \ Old(cutoff) |-> rows[id]]
    /\ gone' = gone \cup
          {rows[id].msg : id \in {i \in Old(cutoff) : rows[i].status = "failed"}}
    /\ UNCHANGED <<app, call, batch, verdict, sent, unmarked, faults>>

\* The process ends anywhere; calls under way never return.
Crash ==
    /\ Fault
    /\ running' = FALSE /\ offlineMode' = FALSE
    /\ connection' = "offline" /\ sessions' = {}
    /\ call' = [m \in Msg |-> IF call[m] = "queueing" THEN "cut" ELSE call[m]]
    /\ batch' = {} /\ verdict' = NoVerdict
    /\ unmarked' = IF verdict = NoVerdict THEN unmarked ELSE MarkLost
    /\ UNCHANGED <<rows, sent, gone>>
----------------------------------------------------------------------------
Next ==
    \/ Start \/ Stop \/ CheckConnectivity \/ Crash
    \/ \E offline \in BOOLEAN : SetOfflineMode(offline)
    \/ \E p \in Peer : CreateSessionWith(p)
    \/ \E m \in Msg : Send(m) \/ QueueMessage(m)
    \/ SelectPending \/ RetryMark
    \/ \E x \in batch : RetrySend(x)
    \/ \E m \in Msg : CleanUp(SentAt[m] + 1)

Spec == Init /\ [][Next]_ovars

\* Threads that run are scheduled, and SQL statements come back.
Fairness ==
    /\ WF_ovars(CheckConnectivity)
    /\ WF_ovars(SelectPending)
    /\ WF_ovars(\E x \in batch : RetrySend(x))
    /\ WF_ovars(RetryMark)
    /\ \A m \in Msg : WF_ovars(QueueMessage(m))

FairSpec == Spec /\ Fairness
----------------------------------------------------------------------------
\* Shapes of the variables.
TypeOK ==
    /\ connection \in {"offline", "mesh", "online"}
    /\ sessions \subseteq Peer
    /\ call \in [Msg -> {"new", "queueing", "returned", "cut"}]
    /\ \A id \in DOMAIN rows : /\ rows[id].msg \in Msg /\ rows[id].retries \in Nat
                               /\ rows[id].status \in {"pending", "delivered", "failed"}
                               /\ id = Id(rows[id].msg)
    /\ \A x \in batch : x.id \in DOMAIN rows /\ x.row.status = "pending"
    /\ verdict = NoVerdict \/ verdict.status \in {"delivered", "failed"}
    /\ gone \subseteq Msg
    /\ faults \in 0 .. MaxFaults

\* No other message to the same device is sent in the same millisecond.
Alone(m) == \A k \in Msg : (To[k] = To[m] /\ SentAt[k] = SentAt[m]) => k = m

\* A message whose call has returned has been sent or is in the table, waiting
\* or failed; only a failed insert or a clean-up gives it up.
Accounted ==
    \A m \in Msg : (call[m] = "returned" /\ Alone(m)) =>
        \/ sent[m] > 0
        \/ m \in gone
        \/ /\ Id(m) \in DOMAIN rows
           /\ rows[Id(m)].msg = m /\ rows[Id(m)].status # "delivered"

\* A row says delivered only if a message with its id has been sent, across
\* crashes and lost marks.  It need not be the message the row holds: while the
\* retry thread sends one, a message of the same millisecond may replace its row,
\* and is then marked delivered unsent.
DeliveredWasSent ==
    \A id \in DOMAIN rows : rows[id].status = "delivered" =>
        \E k \in Msg : Id(k) = id /\ sent[k] > 0

\* A message is sent again only if the mark of an earlier time was lost, by a
\* crash between sending and marking or by a failed update.
ResentOnlyIfUnmarked == \A m \in Msg : sent[m] <= 1 + unmarked[m]

IsPending(id) == id \in DOMAIN rows /\ rows[id].status = "pending"

\* The retry thread has just tried to send m.
Tried(m) == verdict # NoVerdict /\ verdict.msg = m

\* In a process that stays up and online, a queued message is tried: it, or the
\* message of the same device and millisecond whose row it replaced or that
\* replaced its row.  A message that is alone in its millisecond is tried itself.
QueuedIsTried ==
    <>[](running /\ ~offlineMode) =>
        \A m \in Msg :
            [](IsPending(Id(m)) => <>\E k \in Msg : Id(k) = Id(m) /\ Tried(k))

\* A message whose row is marked failed.
Failed(m) == Id(m) \in DOMAIN rows /\ rows[Id(m)].msg = m /\ rows[Id(m)].status = "failed"

\* One failed retry is the last, whatever the limit: from then on the message is
\* not sent, and its row stays failed until it is replaced or cleaned up.
FailedIsFinal ==
    [][\A m \in Msg : Failed(m) =>
          /\ sent'[m] = sent[m]
          /\ Id(m) \in DOMAIN rows' /\ rows'[Id(m)].msg = m => Failed(m)']_ovars
============================================================================
