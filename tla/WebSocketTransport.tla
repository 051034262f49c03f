------------------------- MODULE WebSocketTransport -------------------------
(***************************************************************************)
(* WebSocketClientTransport (websocket_transport.cpp): the thread that     *)
(* sends, the one that receives, the one that polls the server, the thread *)
(* that starts and stops the transport, and those that call send.          *)
(*                                                                         *)
(* Messages are numbered in the order in which send has accepted them.     *)
(* mutex_ is held within a step, and between two steps only by a thread    *)
(* that has found nothing to do and has yet to fall asleep ("about").      *)
(* Both worker threads sleep on cond_, and notify_one picks either.        *)
(*                                                                         *)
(* Two threads use the one curl handle without a lock.  A request is two   *)
(* steps, setting the options and performing whatever the options then     *)
(* say: what a request does to the server when another has set the options *)
(* in between is taken to be what they say.  Time (the intervals between   *)
(* two polls, their back-off and the timeouts) is left out: a poll may     *)
(* come at any time.                                                       *)
(*                                                                         *)
(* An operator whose name starts with Faulty is no part of the model: it   *)
(* is a plausible mistake in the operator after it, put in its place to    *)
(* see which property notices.                                             *)
(***************************************************************************)
EXTENDS Naturals, Sequences, FiniteSets, SequencesExt

CONSTANTS MaxMsgs,    \* bound: calls of send
          MaxStarts   \* bound: calls of start

ASSUME TransportAssumption == MaxMsgs \in Nat /\ MaxStarts \in Nat

VARIABLES
    running,    \* running_
    connected,  \* connected_
    queue,      \* send_queue_
    sending,    \* where the sending thread is
    hand,       \* the message it has popped, or 0
    receiving,  \* where the receiving thread is
    polling,    \* where the polling thread is
    handle,     \* the request set in curl_handle_: a message, or Health
    control,    \* where the thread that starts and stops the transport is
    accepted,   \* how many messages send has accepted
    server,     \* history: the messages the server has got, in order
    claimed,    \* history: the messages logged as sent
    carried,    \* history: messages whose request was set while a poll had yet
                \* to perform, and may carry them out
    covered,    \* history: messages over whose request a poll has set its own
    stray,      \* history: the last notification for a sleeping sending thread
                \* woke the receiving one
    missed,     \* history: stop notified a thread about to sleep
    starts      \* how often the transport was started

wvars == <<running, connected, queue, sending, hand, receiving, polling, handle,
           control, accepted, server, claimed, carried, covered, stray, missed, starts>>
history == <<server, claimed, carried, covered>>

Health == 0

Init ==
    /\ running = FALSE /\ connected = FALSE
    /\ queue = <<>>
    /\ sending = "none" /\ receiving = "none" /\ polling = "none"
    /\ hand = 0
    /\ handle = Health
    /\ control = "stopped"
    /\ accepted = 0
    /\ server = <<>> /\ claimed = {} /\ carried = {} /\ covered = {}
    /\ stray = FALSE /\ missed = FALSE
    /\ starts = 0
----------------------------------------------------------------------------
\* start, which has no guard of its own, is called on a stopped transport.
Start ==
    /\ control = "stopped" /\ starts < MaxStarts
    /\ running' = TRUE
    /\ sending' = "head" /\ receiving' = "head" /\ polling' = "head"
    /\ control' = "started"
    /\ starts' = starts + 1
    /\ UNCHANGED <<connected, queue, hand, handle, accepted, history, stray, missed>>

\* stop: the two flags, notify_all, and the joins.
StopFlag ==
    /\ control = "started"
    /\ running' = FALSE
    /\ control' = "disconnect"
    /\ UNCHANGED <<connected, queue, sending, hand, receiving, polling, handle,
                   accepted, history, stray, missed, starts>>

StopDisconnect ==
    /\ control = "disconnect"
    /\ connected' = FALSE
    /\ control' = "notify"
    /\ UNCHANGED <<running, queue, sending, hand, receiving, polling, handle,
                   accepted, history, stray, missed, starts>>

\* A notification reaches a thread that is asleep, and no other.
Woken(thread) == IF thread = "asleep" THEN "test" ELSE thread

StopNotify ==
    /\ control = "notify"
    /\ sending' = Woken(sending) /\ receiving' = Woken(receiving)
    /\ stray' = (stray /\ sending # "asleep")
    /\ missed' = (missed \/ sending = "about" \/ receiving = "about")
    /\ control' = "join"
    /\ UNCHANGED <<running, connected, queue, hand, polling, handle, accepted,
                   history, starts>>

StopJoin ==
    /\ control = "join"
    /\ sending = "exited" /\ receiving = "exited" /\ polling = "exited"
    /\ sending' = "none" /\ receiving' = "none" /\ polling' = "none"
    /\ control' = "stopped"
    /\ UNCHANGED <<running, connected, queue, hand, handle, accepted, history,
                   stray, missed, starts>>
----------------------------------------------------------------------------
FaultyMutexFree == TRUE  \* nobody locks

MutexFree == sending # "about" /\ receiving # "about"

\* notify_one wakes one of the threads asleep, whichever.
NotifyOne ==
    IF sending # "asleep" /\ receiving # "asleep"
    THEN UNCHANGED <<sending, receiving, stray>>
    ELSE \/ /\ sending = "asleep"
            /\ sending' = Woken(sending) /\ stray' = FALSE
            /\ UNCHANGED receiving
         \/ /\ receiving = "asleep"
            /\ receiving' = Woken(receiving) /\ stray' = (stray \/ sending = "asleep")
            /\ UNCHANGED sending

FaultyNotified ==  \* send does not notify
    UNCHANGED <<sending, receiving, stray>>

Notified == NotifyOne

FaultyQueued == <<accepted + 1>> \o queue  \* a stack

Queued == Append(queue, accepted + 1)

\* send queues the message, and notifies with the mutex held.
Send ==
    /\ accepted < MaxMsgs /\ MutexFree
    /\ accepted' = accepted + 1
    /\ queue' = Queued
    /\ Notified
    /\ UNCHANGED <<running, connected, hand, polling, handle, control, history,
                   missed, starts>>
----------------------------------------------------------------------------
HeadOfLoop == IF running THEN "test" ELSE "exited"

SenderHead ==
    /\ sending = "head"
    /\ sending' = HeadOfLoop
    /\ UNCHANGED <<running, connected, queue, hand, receiving, polling, handle,
                   control, accepted, history, stray, missed, starts>>

FaultyMayGoOn(q) == q # <<>>  \* the predicate leaves running_ out

MayGoOn(q) == q # <<>> \/ ~running

FaultyRemaining == queue  \* front without pop

Remaining == Tail(queue)

\* The predicate of wait, and what follows it in the critical section: a
\* transport that stops leaves what is queued.
SenderTest ==
    /\ sending = "test" /\ MutexFree
    /\ IF ~MayGoOn(queue)
       THEN sending' = "about" /\ UNCHANGED <<queue, hand>>
       ELSE IF ~running
       THEN sending' = "exited" /\ UNCHANGED <<queue, hand>>
       ELSE sending' = "took" /\ hand' = Head(queue) /\ queue' = Remaining
    /\ UNCHANGED <<running, connected, receiving, polling, handle, control,
                   accepted, history, stray, missed, starts>>

SenderSleeps ==
    /\ sending = "about"
    /\ sending' = "asleep"
    /\ UNCHANGED <<running, connected, queue, hand, receiving, polling, handle,
                   control, accepted, history, stray, missed, starts>>

\* send_impl: without a connection the message is dropped.
SenderChecks ==
    /\ sending = "took"
    /\ IF connected
       THEN sending' = "ready" /\ UNCHANGED hand
       ELSE sending' = "head" /\ hand' = 0
    /\ UNCHANGED <<running, connected, queue, receiving, polling, handle,
                   control, accepted, history, stray, missed, starts>>

\* POST /message: the options.
SenderSets ==
    /\ sending = "ready"
    /\ sending' = "request"
    /\ handle' = hand
    /\ carried' = IF polling = "request" THEN carried \cup {hand} ELSE carried
    /\ UNCHANGED <<running, connected, queue, hand, receiving, polling, control,
                   accepted, server, claimed, covered, stray, missed, starts>>

\* curl_easy_perform: the server may get what the handle says, and its answer,
\* which there is only then, may come back.
Perform(answered) ==
    \/ server' = server /\ (handle # Health => ~answered)
    \/ handle # Health /\ server' = Append(server, handle)

SenderPerforms ==
    /\ sending = "request"
    /\ \E answered \in BOOLEAN :
          /\ Perform(answered)
          /\ claimed' = IF answered THEN claimed \cup {hand} ELSE claimed
    /\ sending' = "head" /\ hand' = 0
    /\ UNCHANGED <<running, connected, queue, receiving, polling, handle,
                   control, accepted, carried, covered, stray, missed, starts>>
----------------------------------------------------------------------------
\* The receiving thread waits on a queue that nothing is put into.
ReceiverHead ==
    /\ receiving = "head"
    /\ receiving' = HeadOfLoop
    /\ UNCHANGED <<running, connected, queue, sending, hand, polling, handle,
                   control, accepted, history, stray, missed, starts>>

ReceiverTest ==
    /\ receiving = "test" /\ MutexFree
    /\ receiving' = IF MayGoOn(<<>>) THEN "exited" ELSE "about"
    /\ UNCHANGED <<running, connected, queue, sending, hand, polling, handle,
                   control, accepted, history, stray, missed, starts>>

ReceiverSleeps ==
    /\ receiving = "about"
    /\ receiving' = "asleep"
    /\ UNCHANGED <<running, connected, queue, sending, hand, polling, handle,
                   control, accepted, history, stray, missed, starts>>

\* poll_server: GET /health, then a pause.
PollSets ==
    /\ polling = "head"
    /\ IF running
       THEN /\ polling' = "request"
            /\ handle' = Health
            /\ covered' = IF sending = "request" THEN covered \cup {hand} ELSE covered
       ELSE polling' = "exited" /\ UNCHANGED <<handle, covered>>
    /\ UNCHANGED <<running, connected, queue, sending, hand, receiving, control,
                   accepted, server, claimed, carried, stray, missed, starts>>

PollPerforms ==
    /\ polling = "request"
    /\ \E answered \in BOOLEAN : Perform(answered) /\ connected' = answered
    /\ polling' = "pause"
    /\ UNCHANGED <<running, queue, sending, hand, receiving, handle, control,
                   accepted, claimed, carried, covered, stray, missed, starts>>

PollPauses ==
    /\ polling = "pause"
    /\ polling' = "head"
    /\ UNCHANGED <<running, connected, queue, sending, hand, receiving, handle,
                   control, accepted, history, stray, missed, starts>>
----------------------------------------------------------------------------
SenderStep == \/ SenderHead \/ SenderTest \/ SenderSleeps
              \/ SenderChecks \/ SenderSets \/ SenderPerforms

ReceiverStep == ReceiverHead \/ ReceiverTest \/ ReceiverSleeps

PollStep == PollSets \/ PollPerforms \/ PollPauses

StopStep == StopDisconnect \/ StopNotify \/ StopJoin

Next ==
    \/ Start \/ StopFlag \/ StopStep
    \/ Send
    \/ SenderStep \/ ReceiverStep \/ PollStep

Spec == Init /\ [][Next]_wvars

\* Threads that can run are scheduled, and requests time out.
Fairness ==
    /\ WF_wvars(StopStep)
    /\ WF_wvars(SenderStep) /\ WF_wvars(ReceiverStep) /\ WF_wvars(PollStep)

FairSpec == Spec /\ Fairness
----------------------------------------------------------------------------
\* Shapes of the variables; the two worker threads exclude each other.
TypeOK ==
    /\ sending \in {"none", "head", "test", "about", "asleep", "took", "ready",
                    "request", "exited"}
    /\ receiving \in {"none", "head", "test", "about", "asleep", "exited"}
    /\ polling \in {"none", "head", "request", "pause", "exited"}
    /\ control \in {"stopped", "started", "disconnect", "notify", "join"}
    /\ ToSet(queue) \subseteq 1 .. accepted
    /\ hand \in 0 .. accepted /\ handle \in 0 .. accepted
    /\ ~(sending = "about" /\ receiving = "about")

\* The server gets the messages in the order in which they were sent, over
\* restarts and also when a poll carries one out: a repetition comes before the
\* next message.
InOrder ==
    \A i, j \in DOMAIN server : i < j => server[i] <= server[j]

Times(m) == Cardinality({i \in DOMAIN server : server[i] = m})

\* What the handle shared without a lock can do, and no more.  A message reaches
\* the server once at most; twice at most if a poll that had yet to perform found
\* its request in the handle, and no poll set its own over it before.  What the
\* code logs as sent has reached the server, unless a poll set its request over
\* it: then the answer to GET /health is taken for that of the message.
ClaimedOnce ==
    \A m \in 1 .. accepted :
        /\ Times(m) <= IF m \in carried \ covered THEN 2 ELSE 1
        /\ m \in claimed \ covered => Times(m) >= 1

\* The sending thread sleeps although it has something to do only if the
\* notification woke the receiving thread, or that of stop is to come or came
\* while it was falling asleep.
StuckOnlyByWakeup ==
    (sending = "asleep" /\ MayGoOn(queue)) =>
        stray \/ control \in {"disconnect", "notify"} \/ missed

\* stop returns, whatever the requests do, unless its notification came while
\* one of the threads was falling asleep.
StopReturns == (control = "disconnect") ~> (control = "stopped" \/ missed)
============================================================================
