------------------------- MODULE InMemoryTransport -------------------------
(***************************************************************************)
(* The threads of the in-memory transport (in_memory_transport.cpp) under  *)
(* their dispatchers (dispatcher.cpp): per transport the worker thread and *)
(* the thread that starts and stops it, and a thread per message sent.     *)
(*                                                                         *)
(* The locks are the dispatcher's mutex_, held over a whole send and over  *)
(* the handling of an inbound message, and the transport's mutex_, held by *)
(* the worker except while it sleeps or runs the callback.  That second    *)
(* lock shows between two steps only while the worker has found nothing to *)
(* do and has yet to fall asleep ("about"): wait releases the mutex and    *)
(* falls asleep in one step.  stop sets running_ and notifies without it.  *)
(*                                                                         *)
(* An operator whose name starts with Faulty is no part of the model: it   *)
(* is a plausible mistake in the operator after it, put in its place to    *)
(* see which property notices.                                             *)
(***************************************************************************)
EXTENDS Naturals, Sequences, FiniteSets, SequencesExt

CONSTANTS Transport,  \* the transports
          Bridge,     \* the peer each is connected to, or NoPeer
          NoPeer,
          Msg,        \* the messages sent
          From,       \* the transport each is sent on
          MaxStarts,  \* bound: starts of each transport
          Worker      \* the worker thread, as holder of a dispatcher's mutex

ASSUME BridgeAssumption ==
    /\ Bridge \in [Transport -> Transport \cup {NoPeer}] /\ NoPeer \notin Transport
    /\ From \in [Msg -> Transport]
    /\ MaxStarts \in [Transport -> Nat]
    /\ Worker \notin Msg

VARIABLES
    running,   \* running_
    queue,     \* queue_
    worker,    \* where the worker thread is
    current,   \* the message, if any, the worker has popped
    control,   \* where the thread that starts and stops the transport is
    sender,    \* where the thread that sends each message is
    holder,    \* who holds the dispatcher's mutex_: nobody, Worker or a sender
    pushed,    \* history: what was pushed into queue_, in order
    handled,   \* history: what the dispatcher has handled, in order
    missed,    \* history: transports whose stop notified a worker about to sleep
    starts     \* how often each was started

tvars == <<running, queue, worker, current, control, sender, holder, pushed,
           handled, missed, starts>>

\* A transport without a peer delivers to itself.
Target(t) == IF Bridge[t] = NoPeer THEN t ELSE Bridge[t]

Init ==
    /\ running = [t \in Transport |-> FALSE]
    /\ queue = [t \in Transport |-> <<>>]
    /\ worker = [t \in Transport |-> "none"]
    /\ current = [t \in Transport |-> <<>>]
    /\ control = [t \in Transport |-> "stopped"]
    /\ sender = [m \in Msg |-> "new"]
    /\ holder = [t \in Transport |-> {}]
    /\ pushed = [t \in Transport |-> <<>>]
    /\ handled = [t \in Transport |-> <<>>]
    /\ missed = {}
    /\ starts = [t \in Transport |-> 0]
----------------------------------------------------------------------------
\* start; of a transport that runs it does nothing.
Start(t) ==
    /\ control[t] = "stopped" /\ starts[t] < MaxStarts[t]
    /\ running' = [running EXCEPT ![t] = TRUE]
    /\ worker' = [worker EXCEPT ![t] = "head"]
    /\ control' = [control EXCEPT ![t] = "started"]
    /\ starts' = [starts EXCEPT ![t] = @ + 1]
    /\ UNCHANGED <<queue, current, sender, holder, pushed, handled, missed>>

\* stop: the flag, then notify_all, then join.
StopFlag(t) ==
    /\ control[t] = "started"
    /\ running' = [running EXCEPT ![t] = FALSE]
    /\ control' = [control EXCEPT ![t] = "notify"]
    /\ UNCHANGED <<queue, worker, current, sender, holder, pushed, handled, missed, starts>>

\* A notification reaches a worker that is asleep, and no other.
Woken(t) == [worker EXCEPT ![t] = IF @ = "asleep" THEN "test" ELSE @]

StopNotify(t) ==
    /\ control[t] = "notify"
    /\ worker' = Woken(t)
    /\ missed' = IF worker[t] = "about" THEN missed \cup {t} ELSE missed
    /\ control' = [control EXCEPT ![t] = "join"]
    /\ UNCHANGED <<running, queue, current, sender, holder, pushed, handled, starts>>

StopJoin(t) ==
    /\ control[t] = "join" /\ worker[t] = "exited"
    /\ worker' = [worker EXCEPT ![t] = "none"]
    /\ control' = [control EXCEPT ![t] = "stopped"]
    /\ UNCHANGED <<running, queue, current, sender, holder, pushed, handled, missed, starts>>
----------------------------------------------------------------------------
FaultyFree(t) == TRUE  \* the dispatcher does not lock

\* The dispatcher's mutex_ can be taken.
Free(t) == holder[t] = {}

\* Dispatcher::send_message_to_device locks its mutex_ ...
SendLock(m) ==
    /\ sender[m] = "new" /\ Free(From[m])
    /\ holder' = [holder EXCEPT ![From[m]] = @ \cup {m}]
    /\ sender' = [sender EXCEPT ![m] = "push"]
    /\ UNCHANGED <<running, queue, worker, current, control, pushed, handled, missed, starts>>

MutexFree(t) == worker[t] # "about"

\* ... and hands the bytes to the transport, whose peer's deliver pushes them
\* under that peer's mutex_ ...
Deliver(m) ==
    LET t == Target(From[m]) IN
    /\ sender[m] = "push" /\ MutexFree(t)
    /\ queue' = [queue EXCEPT ![t] = Append(@, m)]
    /\ pushed' = [pushed EXCEPT ![t] = Append(@, m)]
    /\ sender' = [sender EXCEPT ![m] = "notify"]
    /\ UNCHANGED <<running, worker, current, control, holder, handled, missed, starts>>

FaultyNotified(t) == worker  \* notify_one is missing

Notified(t) == Woken(t)

\* ... and notifies after it has released it.  The call returns.
DeliverNotify(m) ==
    /\ sender[m] = "notify"
    /\ worker' = Notified(Target(From[m]))
    /\ holder' = [holder EXCEPT ![From[m]] = @ \ {m}]
    /\ sender' = [sender EXCEPT ![m] = "done"]
    /\ UNCHANGED <<running, queue, current, control, pushed, handled, missed, starts>>
----------------------------------------------------------------------------
\* The worker's outer loop.
WorkerHead(t) ==
    /\ worker[t] = "head"
    /\ worker' = [worker EXCEPT ![t] = IF running[t] THEN "test" ELSE "exited"]
    /\ UNCHANGED <<running, queue, current, control, sender, holder, pushed,
                   handled, missed, starts>>

FaultyMayGoOn(t) == queue[t] # <<>>  \* the predicate leaves running_ out

MayGoOn(t) == queue[t] # <<>> \/ ~running[t]

\* The predicate of wait, on entry and after every wake-up.
WorkerTest(t) ==
    /\ worker[t] = "test"
    /\ worker' = [worker EXCEPT ![t] = IF MayGoOn(t) THEN "drain" ELSE "about"]
    /\ UNCHANGED <<running, queue, current, control, sender, holder, pushed,
                   handled, missed, starts>>

WorkerSleeps(t) ==
    /\ worker[t] = "about"
    /\ worker' = [worker EXCEPT ![t] = "asleep"]
    /\ UNCHANGED <<running, queue, current, control, sender, holder, pushed,
                   handled, missed, starts>>

FaultyPopped(t) == Last(queue[t])  \* a stack

Popped(t) == Head(queue[t])

\* The inner loop pops a message and releases the mutex_, or is done.
WorkerPops(t) ==
    /\ worker[t] = "drain"
    /\ IF queue[t] = <<>>
       THEN /\ worker' = [worker EXCEPT ![t] = "head"]
            /\ UNCHANGED <<queue, current>>
       ELSE /\ worker' = [worker EXCEPT ![t] = "callback"]
            /\ current' = [current EXCEPT ![t] = <<Popped(t)>>]
            /\ queue' = [queue EXCEPT ![t] = Tail(@)]
    /\ UNCHANGED <<running, control, sender, holder, pushed, handled, missed, starts>>

\* on_message_ is Dispatcher::on_raw_message, which locks the dispatcher's mutex_
\* and unlocks it when it has called the application back.
CallbackLock(t) ==
    /\ worker[t] = "callback" /\ Free(t)
    /\ holder' = [holder EXCEPT ![t] = @ \cup {Worker}]
    /\ worker' = [worker EXCEPT ![t] = "handling"]
    /\ UNCHANGED <<running, queue, current, control, sender, pushed, handled, missed, starts>>

CallbackReturns(t) ==
    /\ worker[t] = "handling"
    /\ handled' = [handled EXCEPT ![t] = @ \o current[t]]
    /\ current' = [current EXCEPT ![t] = <<>>]
    /\ holder' = [holder EXCEPT ![t] = @ \ {Worker}]
    /\ worker' = [worker EXCEPT ![t] = "drain"]
    /\ UNCHANGED <<running, queue, control, sender, pushed, missed, starts>>

WorkerStep(t) ==
    \/ WorkerHead(t) \/ WorkerTest(t) \/ WorkerSleeps(t)
    \/ WorkerPops(t) \/ CallbackLock(t) \/ CallbackReturns(t)

SenderStep(m) == SendLock(m) \/ Deliver(m) \/ DeliverNotify(m)

Next ==
    \/ \E t \in Transport : \/ Start(t) \/ StopFlag(t) \/ StopNotify(t) \/ StopJoin(t)
                            \/ WorkerStep(t)
    \/ \E m \in Msg : SenderStep(m)

Spec == Init /\ [][Next]_tvars

\* Threads that can run are scheduled.
Fairness ==
    /\ \A t \in Transport : /\ WF_tvars(StopNotify(t)) /\ WF_tvars(StopJoin(t))
                            /\ WF_tvars(WorkerStep(t))
    /\ \A m \in Msg : WF_tvars(SenderStep(m))

FairSpec == Spec /\ Fairness
----------------------------------------------------------------------------
WorkerStates == {"none", "head", "test", "about", "asleep", "drain", "callback",
                 "handling", "exited"}

\* Shapes of the variables; a dispatcher's mutex has at most one holder.
TypeOK ==
    /\ running \in [Transport -> BOOLEAN]
    /\ worker \in [Transport -> WorkerStates]
    /\ control \in [Transport -> {"stopped", "started", "notify", "join"}]
    /\ sender \in [Msg -> {"new", "push", "notify", "done"}]
    /\ \A t \in Transport : /\ holder[t] \subseteq Msg \cup {Worker}
                            /\ Cardinality(holder[t]) <= 1
    /\ missed \subseteq Transport

\* Whatever the threads do, and over stops and starts, the dispatcher handles
\* what was delivered to its transport in order, and each message once.
Fifo ==
    \A t \in Transport : pushed[t] = handled[t] \o current[t] \o queue[t]

\* A worker that sleeps although it has something to do is about to be woken;
\* the one exception is the stop that notified it while it was falling asleep.
NoLostWakeup ==
    \A t \in Transport : (worker[t] = "asleep" /\ MayGoOn(t)) =>
        \/ control[t] = "notify"
        \/ \E m \in Msg : sender[m] = "notify" /\ Target(From[m]) = t
        \/ t \in missed

\* A message delivered to a transport is handled, unless the transport stops.
DeliveredIsHandled ==
    \A m \in Msg : LET t == Target(From[m]) IN
        (m \in ToSet(pushed[t])) ~> (m \in ToSet(handled[t]) \/ ~running[t])

\* stop returns, also while messages are delivered and handled, unless its
\* notification came while the worker was falling asleep.
StopReturns ==
    \A t \in Transport :
        (control[t] = "notify") ~> (control[t] = "stopped" \/ t \in missed)
============================================================================
