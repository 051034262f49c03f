-------------------------- MODULE TransportProofs --------------------------
(***************************************************************************)
(* What InMemoryTransport!Spec guarantees for any transports, bridges,     *)
(* messages and starts: order, and the wake-ups of the worker threads.     *)
(***************************************************************************)
EXTENDS InMemoryTransport, SequenceTheorems, FiniteSetTheorems, TLAPS

Busy == {"callback", "handling"}

FifoShapes ==
    /\ queue \in [Transport -> Seq(Msg)]
    /\ current \in [Transport -> Seq(Msg)]
    /\ handled \in [Transport -> Seq(Msg)]
    /\ pushed \in [Transport -> Seq(Msg)]
    /\ worker \in [Transport -> WorkerStates]
    /\ control \in [Transport -> {"stopped", "started", "notify", "join"}]

\* The worker has a message in hand only while it calls back; there is no worker
\* unless the transport has been started.
HandInv ==
    \A t \in Transport :
        /\ worker[t] \notin Busy => current[t] = <<>>
        /\ control[t] = "stopped" => worker[t] = "none"

FifoInv == FifoShapes /\ HandInv /\ Fifo

LEMMA TargetType == \A t \in Transport : Target(t) \in Transport
BY BridgeAssumption DEF Target

LEMMA InitFifo == Init => FifoInv
<1> SUFFICES ASSUME Init PROVE FifoInv
    OBVIOUS
<1>1. FifoShapes /\ HandInv
    BY DEF Init, FifoShapes, HandInv, WorkerStates, Busy
<1>2. <<>> \in Seq(Msg) /\ <<>> \o <<>> = <<>>
    OBVIOUS
<1>3. QED BY <1>1, <1>2 DEF Init, FifoInv, Fifo

\* Steps that move no message: the worker goes from one state to another that
\* does not call back, and is there or not as before.
LEMMA MoveFifo ==
    ASSUME FifoInv, UNCHANGED <<queue, current, handled, pushed>>,
           worker' \in [Transport -> WorkerStates],
           control' \in [Transport -> {"stopped", "started", "notify", "join"}],
           \A t \in Transport : worker'[t] \in Busy <=> worker[t] \in Busy,
           \A t \in Transport : control'[t] = "stopped" => worker'[t] = "none"
    PROVE  FifoInv'
BY DEF FifoInv, FifoShapes, HandInv, Fifo

LEMMA ControlFifo ==
    ASSUME FifoInv, NEW t \in Transport,
           Start(t) \/ StopFlag(t) \/ StopNotify(t) \/ StopJoin(t)
    PROVE  FifoInv'
<1>1. /\ worker' \in [Transport -> WorkerStates]
      /\ control' \in [Transport -> {"stopped", "started", "notify", "join"}]
    BY DEF Start, StopFlag, StopNotify, StopJoin, Woken, FifoInv, FifoShapes, WorkerStates
<1>2. /\ \A s \in Transport : worker'[s] \in Busy <=> worker[s] \in Busy
      /\ \A s \in Transport : control'[s] = "stopped" => worker'[s] = "none"
    BY DEF Start, StopFlag, StopNotify, StopJoin, Woken, FifoInv, FifoShapes, HandInv, Busy
<1>3. UNCHANGED <<queue, current, handled, pushed>>
    BY DEF Start, StopFlag, StopNotify, StopJoin
<1>4. QED BY <1>1, <1>2, <1>3, MoveFifo

LEMMA WorkerMoveFifo ==
    ASSUME FifoInv, NEW t \in Transport, NEW to \in WorkerStates \ Busy,
           worker[t] \notin Busy \cup {"none"}, worker' = [worker EXCEPT ![t] = to],
           UNCHANGED <<queue, current, handled, pushed, control>>
    PROVE  FifoInv'
<1>1. \A s \in Transport : worker'[s] \in Busy <=> worker[s] \in Busy
    BY DEF FifoInv, FifoShapes
<1>2. \A s \in Transport : control'[s] = "stopped" => worker'[s] = "none"
    BY DEF FifoInv, FifoShapes, HandInv
<1>3. QED BY <1>1, <1>2, MoveFifo DEF FifoInv, FifoShapes

LEMMA NotifyFifo ==
    ASSUME FifoInv, NEW m \in Msg, DeliverNotify(m)
    PROVE  FifoInv'
<1> DEFINE t == Target(From[m])
<1>1. t \in Transport
    BY TargetType, BridgeAssumption
<1>2. worker' = [worker EXCEPT ![t] = IF @ = "asleep" THEN "test" ELSE @]
    BY DEF DeliverNotify, Notified, Woken
<1>3. worker' \in [Transport -> WorkerStates]
    BY <1>1, <1>2 DEF FifoInv, FifoShapes, WorkerStates
<1>4. \A s \in Transport : worker'[s] \in Busy <=> worker[s] \in Busy
    BY <1>1, <1>2 DEF FifoInv, FifoShapes, Busy
<1>5. \A s \in Transport : control'[s] = "stopped" => worker'[s] = "none"
    BY <1>1, <1>2 DEF FifoInv, FifoShapes, HandInv, DeliverNotify
<1>6. QED BY <1>3, <1>4, <1>5, MoveFifo DEF DeliverNotify, FifoInv, FifoShapes

LEMMA DeliverFifo ==
    ASSUME FifoInv, NEW m \in Msg, Deliver(m)
    PROVE  FifoInv'
<1> DEFINE t == Target(From[m])
<1>1. /\ t \in Transport
      /\ queue' = [queue EXCEPT ![t] = Append(@, m)]
      /\ pushed' = [pushed EXCEPT ![t] = Append(@, m)]
      /\ UNCHANGED <<worker, control, current, handled>>
    BY TargetType, BridgeAssumption DEF Deliver
<1> HIDE DEF t
<1>2. FifoShapes' /\ HandInv'
    BY <1>1 DEF FifoInv, FifoShapes, HandInv
<1>3. ASSUME NEW s \in Transport
      PROVE  pushed'[s] = handled'[s] \o current'[s] \o queue'[s]
    <2>1. CASE s # t
        BY <1>1, <2>1 DEF FifoInv, FifoShapes, Fifo
    <2>2. CASE s = t
        <3> DEFINE h == handled[t]  c == current[t]  q == queue[t]
        <3>1. h \in Seq(Msg) /\ c \in Seq(Msg) /\ q \in Seq(Msg) /\ h \o c \in Seq(Msg)
            BY <1>1, ConcatProperties DEF FifoInv, FifoShapes
        <3>2. <<m>> \in Seq(Msg) /\ h \o c \o q \in Seq(Msg)
            BY <3>1, ConcatProperties
        <3>3. Append(h \o c \o q, m) = (h \o c \o q) \o <<m>>
            BY <3>2, AppendIsConcat
        <3>4. Append(q, m) = q \o <<m>>
            BY <3>1, AppendIsConcat
        <3>5. ((h \o c) \o q) \o <<m>> = (h \o c) \o (q \o <<m>>)
            <4> HIDE DEF h, c, q
            <4> QED BY <3>1, <3>2, ConcatAssociative
        <3>6. pushed[t] = h \o c \o q
            BY <1>1 DEF FifoInv, Fifo
        <3>7. QED BY <1>1, <2>2, <3>3, <3>4, <3>5, <3>6 DEF FifoInv, FifoShapes
    <2>3. QED BY <2>1, <2>2
<1>4. QED BY <1>2, <1>3 DEF FifoInv, Fifo

\* The message popped goes from the head of the queue into the worker's hand.
LEMMA PopFifo ==
    ASSUME FifoInv, NEW t \in Transport, WorkerPops(t)
    PROVE  FifoInv'
<1>1. CASE queue[t] = <<>>
    BY <1>1, WorkerMoveFifo DEF WorkerPops, WorkerStates, Busy
<1>2. CASE queue[t] # <<>>
    <2>1. /\ worker[t] = "drain"
          /\ worker' = [worker EXCEPT ![t] = "callback"]
          /\ current' = [current EXCEPT ![t] = <<Head(queue[t])>>]
          /\ queue' = [queue EXCEPT ![t] = Tail(@)]
          /\ UNCHANGED <<control, handled, pushed>>
        BY <1>2 DEF WorkerPops, Popped
    <2>2. /\ handled[t] \in Seq(Msg) /\ queue[t] \in Seq(Msg)
          /\ Head(queue[t]) \in Msg /\ Tail(queue[t]) \in Seq(Msg)
          /\ <<Head(queue[t])>> \in Seq(Msg)
        BY <1>2, HeadTailProperties DEF FifoInv, FifoShapes
    <2>3. FifoShapes' /\ HandInv'
        BY <2>1, <2>2 DEF FifoInv, FifoShapes, HandInv, WorkerStates, Busy
    <2>4. ASSUME NEW s \in Transport
          PROVE  pushed'[s] = handled'[s] \o current'[s] \o queue'[s]
        <3>1. CASE s # t
            BY <2>1, <3>1 DEF FifoInv, FifoShapes, Fifo
        <3>2. CASE s = t
            <4> DEFINE h == handled[t]  q == queue[t]
            <4>1. current[t] = <<>>
                BY <2>1 DEF FifoInv, HandInv, Busy
            <4>2. pushed[t] = h \o q
                BY <2>2, <4>1, ConcatEmptySeq DEF FifoInv, Fifo
            <4>3. q = <<Head(q)>> \o Tail(q)
                BY <1>2, <2>2
            <4>4. h \o q = h \o <<Head(q)>> \o Tail(q)
                <5> DEFINE e == <<Head(q)>>  r == Tail(q)
                <5>1. h \in Seq(Msg) /\ e \in Seq(Msg) /\ r \in Seq(Msg)
                    BY <2>2
                <5>2. q = e \o r
                    BY <4>3
                <5> HIDE DEF h, e, r
                <5>3. (h \o e) \o r = h \o (e \o r)
                    BY <5>1, ConcatAssociative
                <5>4. QED BY <5>2, <5>3 DEF e, r
            <4>5. QED BY <2>1, <3>2, <4>2, <4>4 DEF FifoInv, FifoShapes
        <3>3. QED BY <3>1, <3>2
    <2>5. QED BY <2>3, <2>4 DEF FifoInv, Fifo
<1>3. QED BY <1>1, <1>2

LEMMA CallbackFifo ==
    ASSUME FifoInv, NEW t \in Transport, CallbackLock(t) \/ CallbackReturns(t)
    PROVE  FifoInv'
<1>1. CASE CallbackLock(t)
    <2>1. \A s \in Transport : worker'[s] \in Busy <=> worker[s] \in Busy
        BY <1>1 DEF CallbackLock, FifoInv, FifoShapes, Busy
    <2>2. \A s \in Transport : control'[s] = "stopped" => worker'[s] = "none"
        BY <1>1 DEF CallbackLock, FifoInv, FifoShapes, HandInv
    <2>3. QED BY <1>1, <2>1, <2>2, MoveFifo DEF CallbackLock, FifoInv, FifoShapes, WorkerStates
<1>2. CASE CallbackReturns(t)
    <2>1. /\ worker[t] = "handling" /\ worker' = [worker EXCEPT ![t] = "drain"]
          /\ current' = [current EXCEPT ![t] = <<>>]
          /\ handled' = [handled EXCEPT ![t] = @ \o current[t]]
          /\ UNCHANGED <<queue, control, pushed>>
        BY <1>2 DEF CallbackReturns
    <2>2. /\ handled[t] \in Seq(Msg) /\ current[t] \in Seq(Msg)
          /\ handled[t] \o current[t] \in Seq(Msg) /\ <<>> \in Seq(Msg)
        BY ConcatProperties DEF FifoInv, FifoShapes
    <2>3. FifoShapes' /\ HandInv'
        BY <2>1, <2>2 DEF FifoInv, FifoShapes, HandInv, WorkerStates, Busy
    <2>4. ASSUME NEW s \in Transport
          PROVE  pushed'[s] = handled'[s] \o current'[s] \o queue'[s]
        <3>1. CASE s # t
            BY <2>1, <3>1 DEF FifoInv, FifoShapes, Fifo
        <3>2. CASE s = t
            <4>1. (handled[t] \o current[t]) \o <<>> = handled[t] \o current[t]
                BY <2>2, ConcatEmptySeq
            <4>2. QED BY <2>1, <3>2, <4>1 DEF FifoInv, FifoShapes, Fifo
        <3>3. QED BY <3>1, <3>2
    <2>5. QED BY <2>3, <2>4 DEF FifoInv, Fifo
<1>3. QED BY <1>1, <1>2

LEMMA StepFifo == FifoInv /\ [Next]_tvars => FifoInv'
<1> SUFFICES ASSUME FifoInv, [Next]_tvars PROVE FifoInv'
    OBVIOUS
<1>1. ASSUME NEW t \in Transport, WorkerHead(t) \/ WorkerTest(t) \/ WorkerSleeps(t)
      PROVE  FifoInv'
    BY <1>1, WorkerMoveFifo DEF WorkerHead, WorkerTest, WorkerSleeps, WorkerStates, Busy
<1>2. ASSUME NEW m \in Msg, SendLock(m) PROVE FifoInv'
    BY <1>2, MoveFifo DEF SendLock, FifoInv, FifoShapes, HandInv
<1>3. CASE UNCHANGED tvars
    BY <1>3, MoveFifo DEF tvars, FifoInv, FifoShapes, HandInv
<1>4. QED
    BY <1>1, <1>2, <1>3, ControlFifo, DeliverFifo, NotifyFifo, PopFifo, CallbackFifo
       DEF Next, WorkerStep, SenderStep

\* Whatever start, stop, deliver and the worker do, the dispatcher handles what
\* was delivered in order, and each message once.
THEOREM FifoHolds == Spec => []Fifo
<1>1. FifoInv => Fifo
    BY DEF FifoInv
<1>2. QED BY <1>1, InitFifo, StepFifo, PTL DEF Spec
----------------------------------------------------------------------------
WakeShapes ==
    /\ worker \in [Transport -> WorkerStates]
    /\ running \in [Transport -> BOOLEAN]
    /\ control \in [Transport -> {"stopped", "started", "notify", "join"}]
    /\ sender \in [Msg -> {"new", "push", "notify", "done"}]
    /\ queue \in [Transport -> Seq(Msg)]

\* While the worker holds the mutex_ between its test and its sleep nothing is
\* pushed, so the one change that it can miss is that of running_.
AboutInv ==
    \A t \in Transport : worker[t] = "about" =>
        /\ queue[t] = <<>>
        /\ ~running[t] => control[t] = "notify" \/ t \in missed

WakeInv == WakeShapes /\ AboutInv /\ NoLostWakeup

LEMMA InitWake == Init => WakeInv
BY DEF Init, WakeInv, WakeShapes, AboutInv, NoLostWakeup, WorkerStates

\* The step of one worker that does not fall asleep.
LEMMA WorkerWake ==
    ASSUME WakeInv, NEW t \in Transport, NEW to \in WorkerStates \ {"asleep"},
           worker' = [worker EXCEPT ![t] = to],
           to = "about" => ~MayGoOn(t),
           queue' \in [Transport -> Seq(Msg)],
           \A s \in Transport \ {t} : queue'[s] = queue[s],
           to = "about" => queue'[t] = queue[t],
           UNCHANGED <<running, control, sender, missed>>
    PROVE  WakeInv'
<1>1. WakeShapes'
    BY DEF WakeInv, WakeShapes
<1>2. \A s \in Transport \ {t} : worker'[s] = worker[s] /\ (MayGoOn(s)' <=> MayGoOn(s))
    BY DEF WakeInv, WakeShapes, MayGoOn
<1>3. worker'[t] = to
    BY DEF WakeInv, WakeShapes
<1>4. AboutInv'
    BY <1>2, <1>3 DEF WakeInv, AboutInv, MayGoOn
<1>5. NoLostWakeup'
    BY <1>2, <1>3 DEF WakeInv, NoLostWakeup
<1>6. QED BY <1>1, <1>4, <1>5 DEF WakeInv

LEMMA SleepWake ==
    ASSUME WakeInv, NEW t \in Transport, WorkerSleeps(t)
    PROVE  WakeInv'
<1>1. /\ worker[t] = "about" /\ worker' = [worker EXCEPT ![t] = "asleep"]
      /\ UNCHANGED <<running, control, sender, queue, missed>>
    BY DEF WorkerSleeps
<1>2. WakeShapes' /\ AboutInv'
    BY <1>1 DEF WakeInv, WakeShapes, AboutInv, WorkerStates
<1>3. MayGoOn(t) => control[t] = "notify" \/ t \in missed
    BY <1>1 DEF WakeInv, AboutInv, MayGoOn
<1>4. NoLostWakeup'
    BY <1>1, <1>3 DEF WakeInv, WakeShapes, NoLostWakeup, MayGoOn
<1>5. QED BY <1>2, <1>4 DEF WakeInv

LEMMA StartWake ==
    ASSUME WakeInv, NEW t \in Transport, Start(t)
    PROVE  WakeInv'
<1>1. /\ running' = [running EXCEPT ![t] = TRUE] /\ worker' = [worker EXCEPT ![t] = "head"]
      /\ control[t] = "stopped" /\ control' = [control EXCEPT ![t] = "started"]
      /\ UNCHANGED <<sender, queue, missed>>
    BY DEF Start
<1>2. WakeShapes'
    BY <1>1 DEF WakeInv, WakeShapes, WorkerStates
<1>3. /\ worker'[t] = "head"
      /\ \A s \in Transport \ {t} : /\ worker'[s] = worker[s] /\ running'[s] = running[s]
                                    /\ control'[s] = control[s] /\ queue'[s] = queue[s]
    BY <1>1 DEF WakeInv, WakeShapes
<1>4. AboutInv' /\ NoLostWakeup'
    BY <1>1, <1>3 DEF WakeInv, AboutInv, NoLostWakeup, MayGoOn
<1>5. QED BY <1>2, <1>4 DEF WakeInv

\* stop: the flag comes before the notification, so until then the worker is to
\* be woken; a worker about to sleep misses it, and that is noted.
LEMMA StopWake ==
    ASSUME WakeInv, NEW t \in Transport, StopFlag(t) \/ StopNotify(t) \/ StopJoin(t)
    PROVE  WakeInv'
<1>1. CASE StopFlag(t)
    <2>1. /\ running' = [running EXCEPT ![t] = FALSE]
          /\ control' = [control EXCEPT ![t] = "notify"]
          /\ UNCHANGED <<worker, sender, queue, missed>>
        BY <1>1 DEF StopFlag
    <2>2. WakeShapes'
        BY <2>1 DEF WakeInv, WakeShapes
    <2>3. /\ control'[t] = "notify"
          /\ \A s \in Transport \ {t} : running'[s] = running[s] /\ control'[s] = control[s]
        BY <2>1 DEF WakeInv, WakeShapes
    <2>4. AboutInv' /\ NoLostWakeup'
        BY <2>1, <2>3 DEF WakeInv, AboutInv, NoLostWakeup, MayGoOn
    <2>5. QED BY <2>2, <2>4 DEF WakeInv
<1>2. CASE StopNotify(t)
    <2>1. /\ worker' = [worker EXCEPT ![t] = IF @ = "asleep" THEN "test" ELSE @]
          /\ missed' = IF worker[t] = "about" THEN missed \cup {t} ELSE missed
          /\ control' = [control EXCEPT ![t] = "join"]
          /\ UNCHANGED <<running, sender, queue>>
        BY <1>2 DEF StopNotify, Woken
    <2>2. WakeShapes'
        BY <2>1 DEF WakeInv, WakeShapes, WorkerStates
    <2>3. /\ worker'[t] # "asleep" /\ (worker'[t] = "about" => t \in missed' /\ queue'[t] = <<>>)
          /\ missed \subseteq missed'
          /\ \A s \in Transport \ {t} : worker'[s] = worker[s] /\ control'[s] = control[s]
        BY <2>1 DEF WakeInv, WakeShapes, AboutInv
    <2>4. AboutInv' /\ NoLostWakeup'
        BY <2>1, <2>3 DEF WakeInv, AboutInv, NoLostWakeup, MayGoOn
    <2>5. QED BY <2>2, <2>4 DEF WakeInv
<1>3. CASE StopJoin(t)
    <2>1. /\ worker' = [worker EXCEPT ![t] = "none"]
          /\ control' = [control EXCEPT ![t] = "stopped"]
          /\ UNCHANGED <<running, sender, queue, missed>>
        BY <1>3 DEF StopJoin
    <2>2. WakeShapes'
        BY <2>1 DEF WakeInv, WakeShapes, WorkerStates
    <2>3. /\ worker'[t] = "none"
          /\ \A s \in Transport \ {t} : worker'[s] = worker[s] /\ control'[s] = control[s]
        BY <2>1 DEF WakeInv, WakeShapes
    <2>4. AboutInv' /\ NoLostWakeup'
        BY <2>1, <2>3 DEF WakeInv, AboutInv, NoLostWakeup, MayGoOn
    <2>5. QED BY <2>2, <2>4 DEF WakeInv
<1>4. QED BY <1>1, <1>2, <1>3

\* What is pushed is followed by a notification of the same thread.
LEMMA DeliverWake ==
    ASSUME WakeInv, NEW m \in Msg, Deliver(m)
    PROVE  WakeInv'
<1> DEFINE t == Target(From[m])
<1>1. /\ t \in Transport /\ worker[t] # "about"
      /\ queue' = [queue EXCEPT ![t] = Append(@, m)]
      /\ sender' = [sender EXCEPT ![m] = "notify"]
      /\ UNCHANGED <<worker, running, control, missed>>
    BY TargetType, BridgeAssumption DEF Deliver, MutexFree
<1> HIDE DEF t
<1>2. WakeShapes'
    BY <1>1 DEF WakeInv, WakeShapes
<1>3. /\ \A s \in Transport \ {t} : queue'[s] = queue[s]
      /\ sender'[m] = "notify"
      /\ \A n \in Msg : sender[n] = "notify" => sender'[n] = "notify"
    BY <1>1 DEF WakeInv, WakeShapes
<1>4. AboutInv'
    BY <1>1, <1>3 DEF WakeInv, AboutInv
<1>5. NoLostWakeup'
    BY <1>1, <1>3 DEF WakeInv, NoLostWakeup, MayGoOn, t
<1>6. QED BY <1>2, <1>4, <1>5 DEF WakeInv

LEMMA SendLockWake ==
    ASSUME WakeInv, NEW m \in Msg, SendLock(m)
    PROVE  WakeInv'
<1>1. /\ sender[m] = "new" /\ sender' = [sender EXCEPT ![m] = "push"]
      /\ UNCHANGED <<worker, running, control, queue, missed>>
    BY DEF SendLock
<1>2. WakeShapes' /\ \A n \in Msg : sender[n] = "notify" => sender'[n] = "notify"
    BY <1>1 DEF WakeInv, WakeShapes
<1>3. QED BY <1>1, <1>2 DEF WakeInv, AboutInv, NoLostWakeup, MayGoOn

LEMMA NotifyWake ==
    ASSUME WakeInv, NEW m \in Msg, DeliverNotify(m)
    PROVE  WakeInv'
<1> DEFINE t == Target(From[m])
<1>1. /\ t \in Transport
      /\ worker' = [worker EXCEPT ![t] = IF @ = "asleep" THEN "test" ELSE @]
      /\ sender' = [sender EXCEPT ![m] = "done"]
      /\ UNCHANGED <<queue, running, control, missed>>
    BY TargetType, BridgeAssumption DEF DeliverNotify, Notified, Woken
<1> HIDE DEF t
<1>2. WakeShapes'
    BY <1>1 DEF WakeInv, WakeShapes, WorkerStates
<1>3. /\ worker'[t] # "asleep" /\ (worker'[t] = "about" => worker[t] = "about")
      /\ \A s \in Transport \ {t} : worker'[s] = worker[s]
      /\ \A n \in Msg \ {m} : sender'[n] = sender[n]
    BY <1>1 DEF WakeInv, WakeShapes
<1>4. AboutInv'
    BY <1>1, <1>3 DEF WakeInv, AboutInv
<1>5. NoLostWakeup'
    BY <1>1, <1>3 DEF WakeInv, NoLostWakeup, MayGoOn, t
<1>6. QED BY <1>2, <1>4, <1>5 DEF WakeInv

LEMMA PopWake ==
    ASSUME WakeInv, NEW t \in Transport, WorkerPops(t)
    PROVE  WakeInv'
<1>1. CASE queue[t] = <<>>
    BY <1>1, WorkerWake DEF WorkerPops, WorkerStates, WakeInv, WakeShapes
<1>2. CASE queue[t] # <<>>
    <2>1. queue' = [queue EXCEPT ![t] = Tail(@)] /\ Tail(queue[t]) \in Seq(Msg)
        BY <1>2, HeadTailProperties DEF WorkerPops, WakeInv, WakeShapes
    <2>2. /\ queue' \in [Transport -> Seq(Msg)]
          /\ \A s \in Transport \ {t} : queue'[s] = queue[s]
        BY <2>1 DEF WakeInv, WakeShapes
    <2>3. QED BY <1>2, <2>2, WorkerWake DEF WorkerPops, WorkerStates
<1>3. QED BY <1>1, <1>2

LEMMA StepWake == WakeInv /\ [Next]_tvars => WakeInv'
<1> SUFFICES ASSUME WakeInv, [Next]_tvars PROVE WakeInv'
    OBVIOUS
<1>1. ASSUME NEW t \in Transport,
             WorkerHead(t) \/ WorkerTest(t) \/ CallbackLock(t) \/ CallbackReturns(t)
      PROVE  WakeInv'
    <2>1. PICK to \in {"head", "test", "about", "drain", "handling", "exited"} :
             worker' = [worker EXCEPT ![t] = to] /\ (to = "about" => ~MayGoOn(t))
        BY <1>1 DEF WorkerHead, WorkerTest, CallbackLock, CallbackReturns
    <2>2. UNCHANGED <<queue, running, control, sender, missed>>
        BY <1>1 DEF WorkerHead, WorkerTest, CallbackLock, CallbackReturns
    <2>3. queue \in [Transport -> Seq(Msg)] /\ to \in WorkerStates \ {"asleep"}
        BY DEF WakeInv, WakeShapes, WorkerStates
    <2>4. QED BY <2>1, <2>2, <2>3, WorkerWake
<1>2. CASE UNCHANGED tvars
    BY <1>2 DEF tvars, WakeInv, WakeShapes, AboutInv, NoLostWakeup, MayGoOn
<1>3. QED
    BY <1>1, <1>2, SleepWake, StartWake, StopWake, DeliverWake, SendLockWake, NotifyWake,
       PopWake DEF Next, WorkerStep, SenderStep

\* A worker of start that sleeps on a message or on stop is about to be woken, or
\* has missed the notification of stop: no other notification is lost.
THEOREM NoLostWakeupHolds == Spec => []NoLostWakeup
<1>1. WakeInv => NoLostWakeup
    BY DEF WakeInv
<1>2. QED BY <1>1, InitWake, StepWake, PTL DEF Spec
----------------------------------------------------------------------------
\* Who is between a lock and an unlock of the dispatcher's mutex_: sends, and the
\* worker while it handles a message.
Inside(t) ==
    {m \in Msg : From[m] = t /\ sender[m] \in {"push", "notify"}}
    \cup {w \in {Worker} : worker[t] = "handling"}

\* No two threads are inside the same dispatcher.
MutualExclusion == \A t \in Transport : \A h, k \in Inside(t) : h = k

MutexInv ==
    /\ holder \in [Transport -> SUBSET (Msg \cup {Worker})]
    /\ \A t \in Transport : holder[t] = Inside(t)
    /\ MutualExclusion
    /\ missed \subseteq Transport

LEMMA InitMutex == Init => MutexInv
BY DEF Init, MutexInv, MutualExclusion, Inside

\* Steps of threads that neither lock nor unlock.
LEMMA OutsideMutex ==
    ASSUME MutexInv, UNCHANGED holder, missed' \subseteq Transport,
           \A m \in Msg : sender'[m] \in {"push", "notify"} <=> sender[m] \in {"push", "notify"},
           \A t \in Transport : worker'[t] = "handling" <=> worker[t] = "handling"
    PROVE  MutexInv'
<1>1. \A t \in Transport : Inside(t)' = Inside(t)
    BY DEF Inside
<1>2. QED BY <1>1 DEF MutexInv, MutualExclusion

LEMMA ControlMutex ==
    ASSUME FifoInv, MutexInv, NEW t \in Transport,
           Start(t) \/ StopFlag(t) \/ StopNotify(t) \/ StopJoin(t)
    PROVE  MutexInv'
<1>1. holder' = holder /\ sender' = sender
    BY DEF Start, StopFlag, StopNotify, StopJoin
<1>2. missed' \subseteq Transport
    BY DEF Start, StopFlag, StopNotify, StopJoin, MutexInv
<1>3. \A s \in Transport : worker'[s] = "handling" <=> worker[s] = "handling"
    BY DEF Start, StopFlag, StopNotify, StopJoin, Woken, FifoInv, FifoShapes, HandInv
<1>4. QED BY <1>1, <1>2, <1>3, OutsideMutex

LEMMA WorkerMutex ==
    ASSUME FifoInv, MutexInv, NEW t \in Transport,
           WorkerHead(t) \/ WorkerTest(t) \/ WorkerSleeps(t) \/ WorkerPops(t)
    PROVE  MutexInv'
<1>1. holder' = holder /\ sender' = sender /\ missed' = missed
    BY DEF WorkerHead, WorkerTest, WorkerSleeps, WorkerPops
<1>2. PICK to \in WorkerStates \ {"handling"} :
         worker[t] # "handling" /\ worker' = [worker EXCEPT ![t] = to]
    BY DEF WorkerHead, WorkerTest, WorkerSleeps, WorkerPops, WorkerStates
<1>3. \A s \in Transport : worker'[s] = "handling" <=> worker[s] = "handling"
    BY <1>2 DEF FifoInv, FifoShapes
<1>4. QED BY <1>1, <1>3, OutsideMutex DEF MutexInv

LEMMA LockMutex ==
    ASSUME FifoInv, WakeInv, MutexInv, NEW m \in Msg, SendLock(m)
    PROVE  MutexInv'
<1> DEFINE t == From[m]
<1>1. /\ t \in Transport /\ sender[m] = "new" /\ holder[t] = {}
      /\ holder' = [holder EXCEPT ![t] = @ \cup {m}]
      /\ sender' = [sender EXCEPT ![m] = "push"]
      /\ UNCHANGED <<worker, missed>>
    BY BridgeAssumption DEF SendLock, Free
<1>2. sender \in [Msg -> {"new", "push", "notify", "done"}]
    BY DEF WakeInv, WakeShapes
<1>3. holder \in [Transport -> SUBSET (Msg \cup {Worker})]
    BY DEF MutexInv
<1>4. Inside(t) = {}
    BY <1>1 DEF MutexInv
<1>5. Inside(t)' = {m} /\ \A s \in Transport \ {t} : Inside(s)' = Inside(s)
    BY <1>1, <1>2, <1>4 DEF Inside
<1> HIDE DEF t
<1>6. /\ holder' \in [Transport -> SUBSET (Msg \cup {Worker})]
      /\ holder'[t] = {m} /\ \A s \in Transport \ {t} : holder'[s] = holder[s]
    BY <1>1, <1>3
<1>7. QED BY <1>1, <1>5, <1>6 DEF MutexInv, MutualExclusion

LEMMA UnlockMutex ==
    ASSUME WakeInv, MutexInv, NEW m \in Msg, DeliverNotify(m)
    PROVE  MutexInv'
<1> DEFINE t == From[m]
<1>1. /\ t \in Transport /\ sender[m] = "notify"
      /\ holder' = [holder EXCEPT ![t] = @ \ {m}]
      /\ sender' = [sender EXCEPT ![m] = "done"]
      /\ missed' = missed /\ worker' = Woken(Target(t))
    BY BridgeAssumption DEF DeliverNotify, Notified
<1>2. sender \in [Msg -> {"new", "push", "notify", "done"}]
    BY DEF WakeInv, WakeShapes
<1>3. \A s \in Transport : worker'[s] = "handling" <=> worker[s] = "handling"
    BY <1>1 DEF Woken, WakeInv, WakeShapes
<1>4. holder \in [Transport -> SUBSET (Msg \cup {Worker})]
    BY DEF MutexInv
<1>5. Inside(t)' = Inside(t) \ {m}
    BY <1>1, <1>2, <1>3, BridgeAssumption DEF Inside
<1>6. \A s \in Transport \ {t} : Inside(s)' = Inside(s)
    BY <1>1, <1>2, <1>3 DEF Inside
<1> HIDE DEF t
<1>7. /\ holder' \in [Transport -> SUBSET (Msg \cup {Worker})]
      /\ holder'[t] = holder[t] \ {m} /\ \A s \in Transport \ {t} : holder'[s] = holder[s]
    BY <1>1, <1>4
<1>8. QED BY <1>1, <1>5, <1>6, <1>7 DEF MutexInv, MutualExclusion

LEMMA CallbackMutex ==
    ASSUME FifoInv, MutexInv, NEW t \in Transport, CallbackLock(t) \/ CallbackReturns(t)
    PROVE  MutexInv'
<1>1. holder \in [Transport -> SUBSET (Msg \cup {Worker})]
    BY DEF MutexInv
<1>2. worker \in [Transport -> WorkerStates]
    BY DEF FifoInv, FifoShapes
<1>3. UNCHANGED <<sender, missed>>
    BY DEF CallbackLock, CallbackReturns
<1>4. CASE CallbackLock(t)
    <2>1. /\ holder[t] = {} /\ holder' = [holder EXCEPT ![t] = @ \cup {Worker}]
          /\ worker' = [worker EXCEPT ![t] = "handling"]
        BY <1>4 DEF CallbackLock, Free
    <2>2. Inside(t)' = {Worker} /\ \A s \in Transport \ {t} : Inside(s)' = Inside(s)
        <3>1. Inside(t) = {}
            BY <2>1 DEF MutexInv
        <3>2. QED BY <1>2, <1>3, <2>1, <3>1 DEF Inside
    <2>3. /\ holder' \in [Transport -> SUBSET (Msg \cup {Worker})]
          /\ holder'[t] = {Worker} /\ \A s \in Transport \ {t} : holder'[s] = holder[s]
        BY <1>1, <2>1
    <2>4. QED BY <1>3, <2>2, <2>3 DEF MutexInv, MutualExclusion
<1>5. CASE CallbackReturns(t)
    <2>1. /\ worker[t] = "handling" /\ worker' = [worker EXCEPT ![t] = "drain"]
          /\ holder' = [holder EXCEPT ![t] = @ \ {Worker}]
        BY <1>5 DEF CallbackReturns
    <2>2. Inside(t)' = Inside(t) \ {Worker}
        BY <1>2, <1>3, <2>1, BridgeAssumption DEF Inside
    <2>3. \A s \in Transport \ {t} : Inside(s)' = Inside(s)
        BY <1>2, <1>3, <2>1 DEF Inside
    <2>4. /\ holder' \in [Transport -> SUBSET (Msg \cup {Worker})]
          /\ holder'[t] = holder[t] \ {Worker}
          /\ \A s \in Transport \ {t} : holder'[s] = holder[s]
        BY <1>1, <2>1
    <2>5. QED BY <1>3, <2>2, <2>3, <2>4 DEF MutexInv, MutualExclusion
<1>6. QED BY <1>4, <1>5

LEMMA StepMutex == FifoInv /\ WakeInv /\ MutexInv /\ [Next]_tvars => MutexInv'
<1> SUFFICES ASSUME FifoInv, WakeInv, MutexInv, [Next]_tvars PROVE MutexInv'
    OBVIOUS
<1>1. ASSUME NEW m \in Msg, Deliver(m) PROVE MutexInv'
    <2>1. sender[m] = "push" /\ sender' = [sender EXCEPT ![m] = "notify"]
        BY <1>1 DEF Deliver
    <2>2. \A n \in Msg : sender'[n] \in {"push", "notify"} <=> sender[n] \in {"push", "notify"}
        BY <2>1 DEF WakeInv, WakeShapes
    <2>3. UNCHANGED <<holder, worker, missed>>
        BY <1>1 DEF Deliver
    <2>4. QED BY <2>2, <2>3, OutsideMutex DEF MutexInv
<1>2. CASE UNCHANGED tvars
    BY <1>2, OutsideMutex DEF tvars, MutexInv
<1>3. QED
    BY <1>1, <1>2, ControlMutex, WorkerMutex, LockMutex, UnlockMutex, CallbackMutex
       DEF Next, WorkerStep, SenderStep

LEMMA TransportInvs == Spec => [](FifoInv /\ WakeInv /\ MutexInv)
<1>1. Spec => []FifoInv
    BY InitFifo, StepFifo, PTL DEF Spec
<1>2. Spec => []WakeInv
    BY InitWake, StepWake, PTL DEF Spec
<1>3. QED BY <1>1, <1>2, InitMutex, StepMutex, PTL DEF Spec

\* The dispatcher's mutex_ does its work: of all the sends and the handling of an
\* inbound message, one at a time is under way.
THEOREM MutualExclusionHolds == Spec => []MutualExclusion
<1>1. MutexInv => MutualExclusion
    BY DEF MutexInv
<1>2. QED BY <1>1, TransportInvs, PTL

\* The types of the transports' variables, and at most one holder of each mutex_.
THEOREM TransportTypeCorrect == Spec => []TypeOK
<1>1. WakeInv /\ MutexInv => TypeOK
    <2> SUFFICES ASSUME WakeInv, MutexInv PROVE TypeOK
        OBVIOUS
    <2>1. ASSUME NEW t \in Transport
          PROVE  holder[t] \subseteq Msg \cup {Worker} /\ Cardinality(holder[t]) <= 1
        <3>1. holder[t] \subseteq Msg \cup {Worker} /\ \A h, k \in holder[t] : h = k
            BY DEF MutexInv, MutualExclusion
        <3>2. holder[t] = {} \/ \E h : holder[t] = {h}
            <4>1. CASE holder[t] = {}
                BY <4>1
            <4>2. CASE holder[t] # {}
                <5>1. PICK h : h \in holder[t]
                    BY <4>2
                <5>2. holder[t] = {h}
                    BY <3>1, <5>1
                <5>3. QED BY <5>2
            <4>3. QED BY <4>1, <4>2
        <3>3. Cardinality(holder[t]) <= 1
            <4>1. CASE holder[t] = {}
                <5>1. Cardinality(holder[t]) = 0
                    BY <4>1, FS_EmptySet
                <5>2. QED BY <5>1
            <4>2. ASSUME NEW h, holder[t] = {h} PROVE Cardinality(holder[t]) <= 1
                <5>1. Cardinality(holder[t]) = 1
                    BY <4>2, FS_Singleton
                <5>2. QED BY <5>1
            <4>3. QED BY <3>2, <4>1, <4>2
        <3>4. QED BY <3>1, <3>3
    <2>2. QED BY <2>1 DEF WakeInv, WakeShapes, MutexInv, TypeOK
<1>2. QED BY <1>1, TransportInvs, PTL
============================================================================
