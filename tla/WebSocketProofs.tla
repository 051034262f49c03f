-------------------------- MODULE WebSocketProofs --------------------------
(***************************************************************************)
(* What WebSocketTransport!Spec guarantees for any number of messages and  *)
(* starts.                                                                 *)
(***************************************************************************)
EXTENDS WebSocketTransport, SequenceTheorems, FiniteSetTheorems, TLAPS

\* The number of messages the sending thread has taken off the queue.
Popped == accepted - Len(queue)

Shapes ==
    /\ queue \in Seq(Nat) /\ server \in Seq(Nat)
    /\ accepted \in Nat /\ hand \in Nat /\ handle \in Nat

\* The queue holds the messages accepted last; the message in hand is the one
\* before them.  The handle may hold an earlier one, but none that is older than
\* what the server has got.
QueueInv ==
    /\ Len(queue) <= accepted
    /\ \A i \in 1 .. Len(queue) : queue[i] = Popped + i

HandInv == hand \in {0, Popped}

ServerInv ==
    /\ \A i \in DOMAIN server : server[i] <= Popped
    /\ handle # Health =>
          handle <= Popped /\ \A i \in DOMAIN server : server[i] <= handle
    /\ InOrder

OrderInv == Shapes /\ QueueInv /\ HandInv /\ ServerInv

ordervars == <<queue, server, accepted, hand, handle>>

LEMMA InitOrder == Init => OrderInv
<1> SUFFICES ASSUME Init PROVE OrderInv
    OBVIOUS
<1>1. queue = <<>> /\ server = <<>> /\ accepted = 0 /\ hand = 0 /\ handle = 0
    BY DEF Init, Health
<1>2. Len(queue) = 0 /\ DOMAIN server = {} /\ queue \in Seq(Nat) /\ server \in Seq(Nat)
    BY <1>1
<1>3. QED BY <1>1, <1>2 DEF OrderInv, Shapes, QueueInv, HandInv, ServerInv, InOrder,
                            Popped, Health

LEMMA SameOrder ==
    ASSUME OrderInv, UNCHANGED ordervars
    PROVE  OrderInv'
BY DEF OrderInv, Shapes, QueueInv, HandInv, ServerInv, InOrder, Popped, ordervars

\* What matters to the order when nothing is sent, taken or performed.
LEMMA DropHand ==
    ASSUME OrderInv, hand' \in {hand, 0}, handle' \in {handle, hand, Health},
           queue' = queue, server' = server, accepted' = accepted
    PROVE  OrderInv'
<1>1. Popped' = Popped /\ Popped \in Nat
    BY LenProperties DEF OrderInv, Shapes, QueueInv, Popped
<1>2. Shapes' /\ QueueInv' /\ HandInv'
    BY <1>1 DEF OrderInv, Shapes, QueueInv, HandInv, Health
<1>3. ServerInv'
    BY <1>1 DEF OrderInv, Shapes, HandInv, ServerInv, InOrder, Health
<1>4. QED BY <1>2, <1>3 DEF OrderInv

LEMMA SendOrder ==
    ASSUME OrderInv, Send
    PROVE  OrderInv'
<1>1. /\ queue' = Append(queue, accepted + 1) /\ accepted' = accepted + 1
      /\ UNCHANGED <<server, hand, handle>>
    BY DEF Send, Queued, history
<1>2. Shapes
    BY DEF OrderInv
<1>3. /\ queue' \in Seq(Nat) /\ Len(queue') = Len(queue) + 1 /\ Len(queue) \in Nat
      /\ \A i \in 1 .. Len(queue) : queue'[i] = queue[i]
      /\ queue'[Len(queue) + 1] = accepted + 1
    BY <1>1, <1>2 DEF Shapes
<1>4. Popped' = Popped /\ Popped \in Nat
    BY <1>1, <1>2, <1>3 DEF OrderInv, QueueInv, Popped, Shapes
<1>5. Shapes' /\ HandInv'
    BY <1>1, <1>2, <1>3, <1>4 DEF Shapes, OrderInv, HandInv
<1>6. QueueInv'
    <2>1. ASSUME NEW i \in 1 .. Len(queue) + 1 PROVE queue'[i] = Popped + i
        <3>1. CASE i \in 1 .. Len(queue)
            BY <1>3, <3>1 DEF OrderInv, QueueInv
        <3>2. CASE i = Len(queue) + 1
            BY <1>2, <1>3, <3>2 DEF Popped, Shapes
        <3>3. QED BY <1>3, <3>1, <3>2
    <2>2. QED BY <1>1, <1>2, <1>3, <1>4, <2>1 DEF OrderInv, QueueInv, Shapes
<1>7. ServerInv'
    BY <1>1, <1>4 DEF OrderInv, ServerInv, InOrder
<1>8. QED BY <1>5, <1>6, <1>7 DEF OrderInv

LEMMA TakeOrder ==
    ASSUME OrderInv, SenderTest, queue # <<>>,
           hand' = Head(queue), queue' = Tail(queue)
    PROVE  OrderInv'
<1>1. Shapes /\ UNCHANGED <<server, handle, accepted>>
    BY DEF OrderInv, SenderTest, history
<1>2. Len(queue) \in Nat \ {0}
    BY <1>1, EmptySeq DEF Shapes
<1>3. /\ queue' \in Seq(Nat) /\ Len(queue') = Len(queue) - 1
      /\ \A i \in 1 .. Len(queue) - 1 : queue'[i] = queue[i + 1]
      /\ hand' = queue[1]
    BY <1>1, <1>2, HeadTailProperties DEF Shapes
<1>4. Popped' = Popped + 1 /\ Popped \in Nat
    BY <1>1, <1>2, <1>3 DEF OrderInv, QueueInv, Popped, Shapes
<1>5. hand' = Popped'
    BY <1>2, <1>3, <1>4 DEF OrderInv, QueueInv
<1>6. Shapes' /\ HandInv'
    BY <1>1, <1>3, <1>4, <1>5 DEF Shapes, HandInv
<1>7. QueueInv'
    <2>1. ASSUME NEW i \in 1 .. Len(queue) - 1 PROVE queue'[i] = Popped + 1 + i
        <3>1. queue'[i] = queue[i + 1] /\ i + 1 \in 1 .. Len(queue)
            BY <1>2, <1>3
        <3>2. queue[i + 1] = Popped + (i + 1)
            BY <3>1 DEF OrderInv, QueueInv
        <3>3. QED BY <1>4, <3>1, <3>2
    <2>2. QED BY <1>1, <1>2, <1>3, <1>4, <2>1 DEF OrderInv, QueueInv, Shapes
<1>8. ServerInv'
    <2>1. ASSUME NEW i \in DOMAIN server PROVE server[i] \in Nat
        BY <1>1, <2>1, ElementOfSeq, LenProperties DEF Shapes
    <2>2. QED BY <1>1, <1>4, <2>1 DEF OrderInv, ServerInv, InOrder, Shapes
<1>9. QED BY <1>6, <1>7, <1>8 DEF OrderInv

\* A request appends what the handle says, which is not older than anything the
\* server has.
LEMMA PerformOrder ==
    ASSUME OrderInv, NEW answered \in BOOLEAN, Perform(answered),
           hand' \in {hand, 0}, queue' = queue, accepted' = accepted, handle' = handle
    PROVE  OrderInv'
<1>1. CASE server' = server
    BY <1>1, DropHand
<1>2. CASE handle # Health /\ server' = Append(server, handle)
    <2>1. Shapes
        BY DEF OrderInv
    <2>2. /\ server' \in Seq(Nat) /\ DOMAIN server' = 1 .. Len(server) + 1
          /\ Len(server) \in Nat /\ DOMAIN server = 1 .. Len(server)
          /\ \A i \in 1 .. Len(server) : server'[i] = server[i] /\ server[i] \in Nat
          /\ server'[Len(server) + 1] = handle
        BY <1>2, <2>1, LenProperties, ElementOfSeq DEF Shapes
    <2>3. Popped' = Popped /\ Popped \in Nat
        BY <2>1, LenProperties DEF OrderInv, QueueInv, Popped, Shapes
    <2>4. Shapes' /\ QueueInv' /\ HandInv'
        BY <2>1, <2>2, <2>3 DEF Shapes, OrderInv, QueueInv, HandInv
    <2>5. \A i \in DOMAIN server' : server'[i] <= handle
        BY <1>2, <2>1, <2>2 DEF OrderInv, ServerInv, Shapes
    <2>6. handle <= Popped /\ handle \in Nat
        BY <1>2, <2>1 DEF OrderInv, ServerInv, Shapes
    <2>7. ASSUME NEW i \in DOMAIN server', NEW j \in DOMAIN server', i < j
          PROVE  server'[i] <= server'[j]
        <3>1. CASE j = Len(server) + 1
            BY <2>2, <2>5, <3>1
        <3>2. CASE j \in 1 .. Len(server)
            <4>1. i \in 1 .. Len(server)
                BY <2>2, <2>7, <3>2
            <4>2. server[i] <= server[j]
                BY <2>2, <2>7, <3>2, <4>1 DEF OrderInv, ServerInv, InOrder
            <4>3. QED BY <2>2, <3>2, <4>1, <4>2
        <3>3. QED BY <2>2, <3>1, <3>2
    <2>8. \A i \in DOMAIN server' : server'[i] \in Nat
        BY <2>2, <2>6
    <2>9. ServerInv'
        BY <2>3, <2>5, <2>6, <2>7, <2>8 DEF ServerInv, InOrder
    <2>10. QED BY <2>4, <2>9 DEF OrderInv
<1>3. QED BY <1>1, <1>2 DEF Perform

LEMMA StepOrder == OrderInv /\ [Next]_wvars => OrderInv'
<1> SUFFICES ASSUME OrderInv, [Next]_wvars PROVE OrderInv'
    OBVIOUS
<1>1. CASE Send
    BY <1>1, SendOrder
<1>2. CASE SenderTest
    <2>1. CASE hand' = Head(queue) /\ queue' = Tail(queue) /\ queue # <<>>
        BY <1>2, <2>1, TakeOrder
    <2>2. CASE UNCHANGED <<queue, hand>>
        BY <1>2, <2>2, SameOrder DEF SenderTest, ordervars, history
    <2>3. QED BY <1>2, <2>1, <2>2 DEF SenderTest, MayGoOn, Remaining
<1>3. CASE SenderPerforms
    <2>1. PICK answered \in BOOLEAN : Perform(answered)
        BY <1>3 DEF SenderPerforms
    <2>2. QED BY <1>3, <2>1, PerformOrder DEF SenderPerforms
<1>4. CASE PollPerforms
    <2>1. PICK answered \in BOOLEAN : Perform(answered)
        BY <1>4 DEF PollPerforms
    <2>2. QED BY <1>4, <2>1, PerformOrder DEF PollPerforms
<1>5. CASE SenderChecks
    BY <1>5, DropHand DEF SenderChecks, history
<1>6. CASE SenderSets
    BY <1>6, DropHand DEF SenderSets
<1>7. CASE PollSets
    BY <1>7, DropHand DEF PollSets
<1>8. CASE Start \/ StopFlag \/ StopDisconnect \/ StopNotify \/ StopJoin
    BY <1>8, SameOrder DEF Start, StopFlag, StopDisconnect, StopNotify, StopJoin, ordervars, history
<1>9. CASE SenderHead \/ SenderSleeps \/ ReceiverStep \/ PollPauses
    BY <1>9, SameOrder DEF SenderHead, SenderSleeps, ReceiverStep, ReceiverHead, ReceiverTest,
                           ReceiverSleeps, PollPauses, ordervars, history
<1>10. CASE UNCHANGED wvars
    BY <1>10, SameOrder DEF wvars, ordervars, history
<1>11. QED
    BY <1>1, <1>2, <1>3, <1>4, <1>5, <1>6, <1>7, <1>8, <1>9, <1>10
       DEF Next, StopStep, SenderStep, PollStep

\* The server gets the messages in the order of the calls of send, whatever the
\* two threads do to the handle they share, and over any number of restarts.
THEOREM InOrderHolds == Spec => []InOrder
<1>1. OrderInv => InOrder
    BY DEF OrderInv, ServerInv
<1>2. QED BY <1>1, InitOrder, StepOrder, PTL DEF Spec
----------------------------------------------------------------------------
Stopping == control \in {"disconnect", "notify"}

\* Where the flags and the threads are; the sending thread falls asleep only
\* with an empty queue, and, when running_ is reset meanwhile, only before or
\* under a notification that comes too early.
WakeupInv ==
    /\ running \in BOOLEAN /\ stray \in BOOLEAN /\ missed \in BOOLEAN
    /\ control \in {"stopped", "started", "disconnect", "notify", "join"}
    /\ running => control = "started"
    /\ control = "started" => running
    /\ control = "stopped" => sending = "none" /\ receiving = "none"
    /\ sending = "about" => queue = <<>> /\ (running \/ Stopping \/ missed)
    /\ StuckOnlyByWakeup

LEMMA StepWakeup == WakeupInv /\ [Next]_wvars => WakeupInv'
<1> SUFFICES ASSUME WakeupInv, [Next]_wvars PROVE WakeupInv'
    OBVIOUS
<1> USE DEF WakeupInv, StuckOnlyByWakeup, MayGoOn, Stopping
<1>1. CASE Start
    BY <1>1 DEF Start
<1>2. CASE StopFlag
    BY <1>2 DEF StopFlag
<1>3. CASE StopDisconnect
    BY <1>3 DEF StopDisconnect
<1>4. CASE StopNotify
    BY <1>4 DEF StopNotify, Woken
<1>5. CASE StopJoin
    BY <1>5 DEF StopJoin
<1>6. CASE Send
    <2>1. /\ sending # "about"
          /\ UNCHANGED <<running, control, missed>>
          /\ NotifyOne
        BY <1>6 DEF Send, MutexFree, Notified
    <2>2. \/ UNCHANGED <<sending, receiving, stray>> /\ sending # "asleep"
          \/ sending = "asleep" /\ sending' = "test" /\ stray' = FALSE /\ receiving' = receiving
          \/ /\ receiving = "asleep" /\ receiving' = "test" /\ sending' = sending
             /\ stray' = (stray \/ sending = "asleep")
        BY <2>1 DEF NotifyOne, Woken
    <2>3. QED BY <2>1, <2>2
<1>7. CASE SenderStep
    <2>1. CASE SenderHead
        BY <2>1 DEF SenderHead, HeadOfLoop
    <2>2. CASE SenderTest
        BY <2>2 DEF SenderTest
    <2>3. CASE SenderSleeps
        BY <2>3 DEF SenderSleeps
    <2>4. CASE SenderChecks
        BY <2>4 DEF SenderChecks
    <2>5. CASE SenderSets
        BY <2>5 DEF SenderSets
    <2>6. CASE SenderPerforms
        BY <2>6 DEF SenderPerforms
    <2>7. QED BY <1>7, <2>1, <2>2, <2>3, <2>4, <2>5, <2>6 DEF SenderStep
<1>8. CASE ReceiverStep
    BY <1>8 DEF ReceiverStep, ReceiverHead, ReceiverTest, ReceiverSleeps, HeadOfLoop
<1>9. CASE PollStep
    BY <1>9 DEF PollStep, PollSets, PollPerforms, PollPauses
<1>10. CASE UNCHANGED wvars
    BY <1>10 DEF wvars
<1>11. QED
    BY <1>1, <1>2, <1>3, <1>4, <1>5, <1>6, <1>7, <1>8, <1>9, <1>10 DEF Next, StopStep

\* The sending thread sleeps on a message, or through a stop, only when send's
\* notification went to the receiving thread or stop's came too early.
THEOREM StuckOnlyByWakeupHolds == Spec => []StuckOnlyByWakeup
<1>1. Init => WakeupInv
    BY DEF Init, WakeupInv, StuckOnlyByWakeup
<1>2. WakeupInv => StuckOnlyByWakeup
    BY DEF WakeupInv
<1>3. QED BY <1>1, <1>2, StepWakeup, PTL DEF Spec
----------------------------------------------------------------------------
\* Where a message stands in what the server got.
Positions(m) == {i \in DOMAIN server : server[i] = m}

\* The request the sending thread is about to perform is set in the handle, unless a
\* poll has set its own over it.
HandleInv ==
    /\ sending \in {"took", "ready", "request"} => hand # 0
    /\ sending \notin {"took", "ready", "request"} => hand = 0
    /\ sending = "request" => handle = hand \/ (handle = Health /\ hand \in covered)

\* How often the threads may still carry a message out with what they have set, and
\* how often it may reach the server in all.
Left(m) == (IF sending = "request" /\ hand = m /\ handle = m THEN 1 ELSE 0)
           + (IF polling = "request" /\ handle = m THEN 1 ELSE 0)
Budget(m) == IF m \in carried \ covered THEN 2 ELSE 1

Fits(m) ==
    /\ Times(m) + Left(m) <= Budget(m)
    /\ m \in claimed \ covered => Times(m) >= 1

CountInv ==
    /\ claimed \subseteq 1 .. Popped /\ covered \subseteq 1 .. Popped
    /\ sending \in {"took", "ready"} =>
          Times(hand) = 0 /\ hand \notin covered /\ handle # hand
    /\ \A m \in 1 .. accepted : Fits(m)

OnceInv == HandleInv /\ CountInv

\* How often a message has reached the server is a number.
LEMMA TimesType ==
    ASSUME Shapes, NEW m
    PROVE  IsFiniteSet(Positions(m)) /\ Times(m) = Cardinality(Positions(m)) /\ Times(m) \in Nat
<1>1. DOMAIN server = 1 .. Len(server) /\ Len(server) \in Nat
    BY LenProperties DEF Shapes
<1>2. IsFiniteSet(1 .. Len(server))
    BY <1>1, FS_Interval
<1>3. Positions(m) \in SUBSET (1 .. Len(server))
    BY <1>1 DEF Positions
<1>4. IsFiniteSet(Positions(m))
    BY <1>2, <1>3, FS_Subset
<1>5. Times(m) = Cardinality(Positions(m))
    BY DEF Times, Positions
<1>6. QED BY <1>4, <1>5, FS_CardinalityType

\* A message not yet taken off the queue has not reached the server.
LEMMA NotYetSent ==
    ASSUME OrderInv, NEW m \in Nat, m > Popped
    PROVE  Times(m) = 0
<1>1. Shapes /\ Popped \in Nat
    BY LenProperties DEF OrderInv, Shapes, QueueInv, Popped
<1>2. \A i \in DOMAIN server : server[i] \in Nat
    BY <1>1, ElementOfSeq, LenProperties DEF Shapes
<1>3. \A i \in DOMAIN server : server[i] <= Popped
    BY DEF OrderInv, ServerInv
<1>4. Positions(m) = {}
    BY <1>1, <1>2, <1>3 DEF Positions
<1>5. QED BY <1>1, <1>4, TimesType, FS_EmptySet

\* A request that reaches the server adds one to the count of its message.
LEMMA TimesAppend ==
    ASSUME Shapes, NEW x \in Nat, server' = Append(server, x), NEW m
    PROVE  Times(m)' = IF m = x THEN Times(m) + 1 ELSE Times(m)
<1>1. /\ DOMAIN server = 1 .. Len(server) /\ Len(server) \in Nat
      /\ DOMAIN server' = 1 .. Len(server) + 1
      /\ \A i \in 1 .. Len(server) : server'[i] = server[i]
      /\ server'[Len(server) + 1] = x
    BY LenProperties DEF Shapes
<1>2. Times(m)' = Cardinality({i \in DOMAIN server' : server'[i] = m})
    BY DEF Times
<1>3. CASE m = x
    <2>1. {i \in DOMAIN server' : server'[i] = m} = Positions(m) \cup {Len(server) + 1}
        BY <1>1, <1>3 DEF Positions
    <2>2. Len(server) + 1 \notin Positions(m)
        BY <1>1 DEF Positions
    <2>3. Cardinality(Positions(m) \cup {Len(server) + 1}) = Cardinality(Positions(m)) + 1
        BY <2>2, TimesType, FS_AddElement
    <2>4. QED BY <1>2, <1>3, <2>1, <2>3, TimesType
<1>4. CASE m # x
    <2>1. {i \in DOMAIN server' : server'[i] = m} = Positions(m)
        BY <1>1, <1>4 DEF Positions
    <2>2. QED BY <1>2, <1>4, <2>1, TimesType
<1>5. QED BY <1>3, <1>4

\* A message fits when no more of it reaches the server and its threads have no more
\* of it to carry out.
LEMMA FitsKept ==
    ASSUME OrderInv, NEW m \in 1 .. accepted, Fits(m),
           server' = server, m \in claimed' => m \in claimed,
           m \in carried' <=> m \in carried, m \in covered' <=> m \in covered,
           sending' = "request" /\ hand' = m /\ handle' = m =>
              sending = "request" /\ hand = m /\ handle = m,
           polling' = "request" /\ handle' = m => polling = "request" /\ handle = m
    PROVE  Fits(m)'
<1>1. Times(m)' = Times(m) /\ Times(m) \in Nat
    BY TimesType DEF Times, OrderInv
<1>2. Budget(m)' = Budget(m) /\ Budget(m) \in Nat
    BY DEF Budget
<1>3. Left(m)' <= Left(m) /\ Left(m)' \in Nat /\ Left(m) \in Nat
    BY DEF Left
<1>4. QED BY <1>1, <1>2, <1>3 DEF Fits

\* The counts stand when nothing is sent, taken, set or performed.
LEMMA CountKept ==
    ASSUME OrderInv, CountInv,
           UNCHANGED <<server, claimed, carried, covered, accepted, queue, handle>>,
           polling' = "request" => polling = "request",
           sending' \in {"took", "ready"} => sending \in {"took", "ready"} /\ hand' = hand,
           sending' = "request" => sending = "request" /\ hand' = hand
    PROVE  CountInv'
<1>1. Popped' = Popped /\ \A m : Times(m)' = Times(m)
    BY DEF Popped, Times
<1>2. \A m \in 1 .. accepted : Fits(m)'
    BY FitsKept DEF CountInv
<1>3. sending' \in {"took", "ready"} =>
         Times(hand)' = 0 /\ hand' \notin covered' /\ handle' # hand'
    <2> SUFFICES ASSUME sending' \in {"took", "ready"}
                 PROVE  Times(hand)' = 0 /\ hand' \notin covered' /\ handle' # hand'
        OBVIOUS
    <2>1. Times(hand)' = Times(hand)
        BY DEF Times
    <2>2. QED BY <2>1 DEF CountInv
<1>4. QED BY <1>1, <1>2, <1>3 DEF CountInv

\* A message just accepted has not reached the server, and no request is its own.
LEMMA CountSend ==
    ASSUME OrderInv, CountInv, Send
    PROVE  CountInv'
<1>1. /\ queue' = Append(queue, accepted + 1) /\ accepted' = accepted + 1
      /\ UNCHANGED <<server, claimed, carried, covered, hand, handle, polling>> /\ NotifyOne
    BY DEF Send, Queued, Notified, history
<1>2. Shapes
    BY DEF OrderInv
<1>3. Len(queue') = Len(queue) + 1 /\ Len(queue) \in Nat
    BY <1>1, <1>2 DEF Shapes
<1>4. Popped' = Popped /\ Popped \in Nat /\ Popped <= accepted
    BY <1>1, <1>2, <1>3 DEF OrderInv, QueueInv, Popped, Shapes
<1>5. sending' = sending \/ (sending = "asleep" /\ sending' = "test")
    BY <1>1 DEF NotifyOne, Woken
<1>6. \A m \in 1 .. accepted : Fits(m)'
    BY <1>1, <1>5, FitsKept DEF CountInv
<1>7. PICK n : n = accepted + 1
    OBVIOUS
<1>8. Fits(n)'
    <2>1. n \in Nat /\ n > Popped /\ n # 0
        BY <1>2, <1>4, <1>7 DEF Shapes
    <2>2. Times(n) = 0 /\ Times(n)' = Times(n)
        BY <1>1, <2>1, NotYetSent DEF Times
    <2>3. handle # n
        BY <1>2, <1>4, <1>7, <2>1 DEF OrderInv, ServerInv, Shapes, Health
    <2>4. n \notin claimed
        BY <1>4, <2>1 DEF CountInv
    <2>5. Left(n)' = 0 /\ Budget(n)' \in {1, 2}
        BY <1>1, <2>3 DEF Left, Budget
    <2>6. QED BY <1>1, <2>2, <2>4, <2>5 DEF Fits
<1>9. \A m \in 1 .. accepted' : Fits(m)'
    <2>1. 1 .. accepted' = (1 .. accepted) \cup {n}
        BY <1>1, <1>2, <1>7 DEF Shapes
    <2>2. QED BY <1>6, <1>8, <2>1
<1>10. sending' \in {"took", "ready"} =>
         Times(hand)' = 0 /\ hand' \notin covered' /\ handle' # hand'
    BY <1>1, <1>5 DEF CountInv, Times
<1>11. QED BY <1>1, <1>4, <1>9, <1>10 DEF CountInv

\* Nor has one just taken off the queue.
LEMMA CountTake ==
    ASSUME OrderInv, CountInv, SenderTest, queue # <<>>, sending' = "took",
           hand' = Head(queue), queue' = Tail(queue)
    PROVE  CountInv'
<1>1. Shapes /\ UNCHANGED <<server, claimed, carried, covered, accepted, handle, polling>>
    BY DEF OrderInv, SenderTest, history
<1>2. Len(queue) \in Nat \ {0}
    BY <1>1, EmptySeq DEF Shapes
<1>3. Len(queue') = Len(queue) - 1 /\ hand' = queue[1]
    BY <1>1, <1>2, HeadTailProperties DEF Shapes
<1>4. Popped' = Popped + 1 /\ Popped \in Nat
    BY <1>1, <1>2, <1>3 DEF OrderInv, QueueInv, Popped, Shapes
<1>5. hand' = Popped + 1
    BY <1>2, <1>3, <1>4 DEF OrderInv, QueueInv
<1>6. Times(hand)' = 0
    <2>1. Times(Popped + 1) = 0
        BY <1>4, NotYetSent
    <2>2. QED BY <1>1, <1>5, <2>1 DEF Times
<1>7. hand' \notin covered' /\ handle' # hand'
    <2>1. handle <= Popped \/ handle = 0
        BY DEF OrderInv, ServerInv, Health
    <2>2. QED BY <1>1, <1>4, <1>5, <2>1 DEF CountInv, Shapes
<1>8. \A m \in 1 .. accepted' : Fits(m)'
    BY <1>1, FitsKept DEF CountInv
<1>9. claimed' \subseteq 1 .. Popped' /\ covered' \subseteq 1 .. Popped'
    <2>1. \A m \in claimed \cup covered : m \in 1 .. Popped
        BY DEF CountInv
    <2>2. QED BY <1>1, <1>4, <2>1
<1>10. QED BY <1>6, <1>7, <1>8, <1>9 DEF CountInv

\* A message set in the handle may be carried out by its thread, and by a poll that
\* has yet to perform.
LEMMA CountSenderSets ==
    ASSUME OrderInv, OnceInv, SenderSets
    PROVE  CountInv'
<1>1. /\ sending = "ready" /\ sending' = "request" /\ handle' = hand
      /\ carried' = IF polling = "request" THEN carried \cup {hand} ELSE carried
      /\ UNCHANGED <<queue, hand, polling, accepted, server, claimed, covered>>
    BY DEF SenderSets
<1>2. Popped' = Popped /\ CountInv
    BY <1>1 DEF Popped, OnceInv
<1>3. ASSUME NEW m \in 1 .. accepted PROVE Fits(m)'
    <2>1. Fits(m)
        BY <1>2 DEF CountInv
    <2>2. CASE m = hand
        <3>1. Times(m)' = 0 /\ Times(m) = 0 /\ m \notin covered
            BY <1>1, <1>2, <2>2 DEF CountInv, Times
        <3>2. Left(m)' <= Budget(m)' /\ Left(m)' \in Nat /\ Budget(m)' \in Nat
            BY <1>1, <2>2, <3>1 DEF Left, Budget
        <3>3. m \notin claimed'
            BY <1>1, <2>1, <3>1 DEF Fits
        <3>4. QED BY <3>1, <3>2, <3>3 DEF Fits
    <2>3. CASE m # hand
        BY <1>1, <2>1, <2>3, FitsKept
    <2>4. QED BY <2>2, <2>3
<1>4. QED BY <1>1, <1>2, <1>3 DEF CountInv

\* A poll that sets its request over that of a message leaves nothing of it in the
\* handle.
LEMMA CountPollSets ==
    ASSUME OrderInv, OnceInv, PollSets, running
    PROVE  CountInv'
<1>1. /\ handle' = Health
      /\ covered' = IF sending = "request" THEN covered \cup {hand} ELSE covered
      /\ UNCHANGED <<queue, sending, hand, accepted, server, claimed, carried>>
    BY DEF PollSets
<1>2. Popped' = Popped /\ CountInv /\ HandleInv
    BY <1>1 DEF Popped, OnceInv
<1>3. covered' \subseteq 1 .. Popped
    <2>1. sending = "request" => hand = Popped /\ hand \in Nat /\ hand # 0
        BY <1>2 DEF HandleInv, OrderInv, HandInv, Shapes
    <2>2. sending = "request" => hand \in 1 .. Popped
        BY <2>1
    <2>3. QED BY <1>1, <1>2, <2>2 DEF CountInv
<1>4. ASSUME NEW m \in 1 .. accepted PROVE Fits(m)'
    <2>1. Fits(m) /\ m # Health
        BY <1>2 DEF CountInv, Health
    <2>2. CASE sending = "request" /\ m = hand
        <3>1. m \in covered' /\ Left(m)' = 0 /\ Budget(m)' = 1
            BY <1>1, <2>1, <2>2 DEF Left, Budget
        <3>2. Times(m)' = Times(m) /\ Times(m) \in Nat
            BY <1>1, TimesType DEF Times, OrderInv
        <3>3. CASE handle = hand
            <4>1. Left(m) \in {1, 2} /\ Budget(m) <= 2 /\ Budget(m) \in Nat
                BY <2>2, <3>3 DEF Left, Budget
            <4>2. Times(m) + Left(m) <= Budget(m)
                BY <2>1 DEF Fits
            <4>3. Times(m) <= 1
                BY <3>2, <4>1, <4>2
            <4>4. QED BY <3>1, <3>2, <4>3 DEF Fits
        <3>4. CASE hand \in covered
            <4>1. Left(m) \in {0, 1, 2} /\ Budget(m) = 1
                BY <2>2, <3>4 DEF Left, Budget
            <4>2. Times(m) + Left(m) <= 1
                BY <2>1, <4>1 DEF Fits
            <4>3. Times(m) <= 1
                BY <3>2, <4>1, <4>2
            <4>4. QED BY <3>1, <3>2, <4>3 DEF Fits
        <3>5. QED BY <1>2, <2>2, <3>3, <3>4 DEF HandleInv
    <2>3. CASE ~(sending = "request" /\ m = hand)
        BY <1>1, <2>1, <2>3, FitsKept
    <2>4. QED BY <2>2, <2>3
<1>5. sending' \in {"took", "ready"} =>
         Times(hand)' = 0 /\ hand' \notin covered' /\ handle' # hand'
    BY <1>1, <1>2 DEF CountInv, HandleInv, Health, Times
<1>6. QED BY <1>1, <1>2, <1>3, <1>4, <1>5 DEF CountInv

\* A request that a poll has not set its own over carries the message in hand out.
LEMMA CountSenderPerforms ==
    ASSUME OrderInv, OnceInv, SenderPerforms
    PROVE  CountInv'
<1>1. PICK answered \in BOOLEAN :
         /\ Perform(answered)
         /\ claimed' = IF answered THEN claimed \cup {hand} ELSE claimed
    BY DEF SenderPerforms
<1>2. /\ sending = "request" /\ sending' = "head" /\ hand' = 0
      /\ UNCHANGED <<queue, accepted, handle, carried, covered, polling>>
    BY DEF SenderPerforms
<1>3. /\ hand # 0 /\ (handle = hand \/ (handle = Health /\ hand \in covered))
      /\ Shapes /\ CountInv /\ hand = Popped
    BY <1>2 DEF OrderInv, HandInv, OnceInv, HandleInv
<1>4. Popped' = Popped /\ hand \in 1 .. Popped
    BY <1>2, <1>3 DEF Popped, Shapes
<1>5. claimed' \subseteq 1 .. Popped' /\ covered' \subseteq 1 .. Popped'
    BY <1>1, <1>2, <1>3, <1>4 DEF CountInv
<1>6. ASSUME NEW m \in 1 .. accepted PROVE Fits(m)'
    <2>1. Fits(m) /\ Times(m) \in Nat /\ m # 0
        BY <1>3, TimesType DEF CountInv
    <2>2. CASE m = hand /\ handle = hand
        <3>1. /\ Left(m) = Left(m)' + 1 /\ Left(m)' \in Nat
              /\ Budget(m)' = Budget(m) /\ Budget(m) \in Nat
            BY <1>2, <2>1, <2>2 DEF Left, Budget
        <3>2. CASE server' = server /\ ~answered
            <4>1. Times(m)' = Times(m)
                BY <3>2 DEF Times
            <4>2. QED BY <1>1, <1>2, <2>1, <3>1, <3>2, <4>1 DEF Fits
        <3>3. CASE server' = Append(server, handle)
            <4>1. Times(m)' = Times(m) + 1
                BY <1>3, <2>2, <3>3, TimesAppend DEF Shapes
            <4>2. QED BY <2>1, <3>1, <4>1 DEF Fits
        <3>4. QED BY <1>1, <1>3, <2>2, <3>2, <3>3 DEF Perform, Health
    <2>3. CASE m = hand /\ handle = Health /\ hand \in covered
        <3>1. Times(m)' = Times(m)
            BY <1>1, <2>3 DEF Perform, Times
        <3>2. Left(m)' = Left(m) /\ Budget(m)' = Budget(m)
            BY <1>2, <2>1, <2>3 DEF Left, Budget, Health
        <3>3. QED BY <1>2, <2>1, <2>3, <3>1, <3>2 DEF Fits
    <2>4. CASE m # hand
        <3>1. Times(m)' = Times(m)
            <4>1. CASE server' = server
                BY <4>1 DEF Times
            <4>2. CASE handle # Health /\ server' = Append(server, handle)
                BY <1>3, <2>4, <4>2, TimesAppend DEF Shapes
            <4>3. QED BY <1>1, <4>1, <4>2 DEF Perform
        <3>2. Left(m)' = Left(m) /\ Budget(m)' = Budget(m)
            BY <1>2, <2>1, <2>4 DEF Left, Budget
        <3>3. m \in claimed' <=> m \in claimed
            BY <1>1, <2>4
        <3>4. QED BY <1>2, <2>1, <3>1, <3>2, <3>3 DEF Fits
    <2>5. QED BY <1>3, <2>2, <2>3, <2>4
<1>7. QED BY <1>2, <1>5, <1>6 DEF CountInv

\* A poll carries out what is in the handle, and is done with it.
LEMMA CountPollPerforms ==
    ASSUME OrderInv, OnceInv, PollPerforms
    PROVE  CountInv'
<1>1. PICK answered \in BOOLEAN : Perform(answered)
    BY DEF PollPerforms
<1>2. /\ polling = "request" /\ polling' = "pause"
      /\ UNCHANGED <<queue, sending, accepted, hand, handle, claimed, carried, covered>>
    BY DEF PollPerforms
<1>3. Shapes /\ CountInv /\ HandleInv /\ Popped' = Popped
    BY <1>2 DEF OrderInv, OnceInv, Popped
<1>4. ASSUME NEW m \in 1 .. accepted PROVE Fits(m)'
    <2>1. Fits(m) /\ Times(m) \in Nat /\ m # 0
        BY <1>3, TimesType DEF CountInv
    <2>2. CASE server' = server
        BY <1>2, <2>1, <2>2, FitsKept
    <2>3. CASE handle # Health /\ server' = Append(server, handle)
        <3>1. Times(m)' = IF m = handle THEN Times(m) + 1 ELSE Times(m)
            BY <1>3, <2>3, TimesAppend DEF Shapes
        <3>2. /\ Left(m) = IF m = handle THEN Left(m)' + 1 ELSE Left(m)'
              /\ Left(m)' \in Nat
              /\ Budget(m)' = Budget(m) /\ Budget(m) \in Nat
            BY <1>2 DEF Left, Budget
        <3>3. QED BY <1>2, <2>1, <3>1, <3>2 DEF Fits
    <2>4. QED BY <1>1, <2>2, <2>3 DEF Perform
<1>5. sending' \in {"took", "ready"} =>
         Times(hand)' = 0 /\ hand' \notin covered' /\ handle' # hand'
    <2> SUFFICES ASSUME sending \in {"took", "ready"}
                 PROVE  Times(hand)' = 0 /\ hand \notin covered /\ handle # hand
        BY <1>2
    <2>1. Times(hand) = 0 /\ hand \notin covered /\ handle # hand
        BY <1>3 DEF CountInv
    <2>2. CASE server' = server
        BY <1>2, <2>1, <2>2 DEF Times
    <2>3. CASE server' = Append(server, handle)
        BY <1>2, <1>3, <2>1, <2>3, TimesAppend DEF Shapes
    <2>4. QED BY <1>1, <2>2, <2>3 DEF Perform
<1>6. QED BY <1>2, <1>3, <1>4, <1>5 DEF CountInv

\* Every step keeps the counts.
LEMMA CountStep ==
    ASSUME OrderInv, OnceInv, [Next]_wvars
    PROVE  CountInv'
<1>0. CountInv
    BY DEF OnceInv
<1>1. CASE Send
    BY <1>0, <1>1, CountSend
<1>2. CASE SenderTest
    <2>1. CASE /\ hand' = Head(queue) /\ queue' = Tail(queue) /\ queue # <<>>
               /\ sending' = "took"
        BY <1>0, <1>2, <2>1, CountTake
    <2>2. CASE UNCHANGED <<queue, hand>> /\ sending' \in {"about", "exited"}
        BY <1>0, <1>2, <2>2, CountKept DEF SenderTest, history
    <2>3. QED BY <1>2, <2>1, <2>2 DEF SenderTest, MayGoOn, Remaining
<1>3. CASE SenderPerforms
    BY <1>3, CountSenderPerforms
<1>4. CASE PollPerforms
    BY <1>4, CountPollPerforms
<1>5. CASE SenderSets
    BY <1>5, CountSenderSets
<1>6. CASE PollSets
    <2>1. CASE running
        BY <1>6, <2>1, CountPollSets
    <2>2. CASE ~running
        BY <1>0, <1>6, <2>2, CountKept DEF PollSets
    <2>3. QED BY <2>1, <2>2
<1>7. CASE SenderChecks
    BY <1>0, <1>7, CountKept DEF SenderChecks, history
<1>8. CASE Start
    BY <1>0, <1>8, CountKept DEF Start, history
<1>9. CASE StopFlag \/ StopDisconnect \/ StopJoin
    BY <1>0, <1>9, CountKept DEF StopFlag, StopDisconnect, StopJoin, history
<1>10. CASE StopNotify
    BY <1>0, <1>10, CountKept DEF StopNotify, Woken, history
<1>11. CASE SenderHead \/ SenderSleeps
    BY <1>0, <1>11, CountKept DEF SenderHead, SenderSleeps, HeadOfLoop, history
<1>12. CASE ReceiverStep
    BY <1>0, <1>12, CountKept DEF ReceiverStep, ReceiverHead, ReceiverTest, ReceiverSleeps,
                                  history
<1>13. CASE PollPauses
    BY <1>0, <1>13, CountKept DEF PollPauses, history
<1>14. CASE UNCHANGED wvars
    BY <1>0, <1>14, CountKept DEF wvars, history
<1>15. QED
    BY <1>1, <1>2, <1>3, <1>4, <1>5, <1>6, <1>7, <1>8, <1>9, <1>10, <1>11, <1>12, <1>13, <1>14
       DEF Next, StopStep, SenderStep, PollStep

\* Every step keeps what is known of the handle; start finds no message in hand.
LEMMA HandleStep ==
    ASSUME OrderInv, WakeupInv, OnceInv, [Next]_wvars
    PROVE  HandleInv'
<1>0. HandleInv
    BY DEF OnceInv
<1>1. CASE Start
    BY <1>0, <1>1 DEF Start, HandleInv, WakeupInv, history
<1>2. CASE StopFlag \/ StopDisconnect
    BY <1>0, <1>2 DEF StopFlag, StopDisconnect, HandleInv, history
<1>3. CASE StopNotify
    BY <1>0, <1>3 DEF StopNotify, Woken, HandleInv, history
<1>4. CASE StopJoin
    BY <1>0, <1>4 DEF StopJoin, HandleInv, history
<1>5. CASE Send
    <2>1. UNCHANGED <<hand, handle, covered>> /\ NotifyOne
        BY <1>5 DEF Send, Notified, history
    <2>2. sending' = sending \/ (sending = "asleep" /\ sending' = "test")
        BY <2>1 DEF NotifyOne, Woken
    <2>3. QED BY <1>0, <2>1, <2>2 DEF HandleInv
<1>6. CASE SenderTest
    <2>1. CASE sending' = "took" /\ hand' = Head(queue) /\ queue' = Tail(queue) /\ queue # <<>>
        <3>1. Shapes
            BY DEF OrderInv
        <3>2. Len(queue) \in Nat \ {0}
            BY <2>1, <3>1, EmptySeq DEF Shapes
        <3>3. hand' = queue[1]
            BY <2>1, <3>1, <3>2, HeadTailProperties DEF Shapes
        <3>4. hand' = Popped + 1 /\ Popped \in Nat
            BY <3>1, <3>2, <3>3 DEF OrderInv, QueueInv, Popped, Shapes
        <3>5. hand' # 0
            BY <3>4
        <3>6. QED BY <1>0, <1>6, <2>1, <3>5 DEF SenderTest, HandleInv, history
    <2>2. CASE UNCHANGED <<queue, hand>> /\ sending' \in {"about", "exited"}
        BY <1>0, <1>6, <2>2 DEF SenderTest, HandleInv, history
    <2>3. QED BY <1>6, <2>1, <2>2 DEF SenderTest, MayGoOn, Remaining
<1>7. CASE SenderHead \/ SenderSleeps
    BY <1>0, <1>7 DEF SenderHead, SenderSleeps, HeadOfLoop, HandleInv, history
<1>8. CASE SenderChecks
    BY <1>0, <1>8 DEF SenderChecks, HandleInv, history
<1>9. CASE SenderSets
    BY <1>0, <1>9 DEF SenderSets, HandleInv
<1>10. CASE SenderPerforms
    BY <1>0, <1>10 DEF SenderPerforms, HandleInv
<1>11. CASE ReceiverStep
    BY <1>0, <1>11 DEF ReceiverStep, ReceiverHead, ReceiverTest, ReceiverSleeps, HandleInv, history
<1>12. CASE PollSets
    BY <1>0, <1>12 DEF PollSets, HandleInv, Health
<1>13. CASE PollPerforms \/ PollPauses
    BY <1>0, <1>13 DEF PollPerforms, PollPauses, HandleInv, history
<1>14. CASE UNCHANGED wvars
    BY <1>0, <1>14 DEF wvars, HandleInv, history
<1>15. QED
    BY <1>1, <1>2, <1>3, <1>4, <1>5, <1>6, <1>7, <1>8, <1>9, <1>10, <1>11, <1>12, <1>13, <1>14
       DEF Next, StopStep, SenderStep, PollStep

\* Of the messages that share the handle with a poll as of the others: how often each
\* can reach the server, and which of those logged as sent need not have reached it.
THEOREM ClaimedOnceHolds == Spec => []ClaimedOnce
<1>1. Init => OnceInv
    <2> SUFFICES ASSUME Init PROVE OnceInv
        OBVIOUS
    <2>1. HandleInv
        BY DEF Init, HandleInv, Health
    <2>2. claimed = {} /\ covered = {} /\ accepted = 0 /\ sending = "none"
        BY DEF Init
    <2>3. 1 .. accepted = {}
        BY <2>2
    <2>4. QED BY <2>1, <2>2, <2>3 DEF OnceInv, CountInv
<1>2. OrderInv /\ WakeupInv /\ OnceInv /\ [Next]_wvars => OnceInv'
    BY CountStep, HandleStep DEF OnceInv
<1>3. OrderInv /\ OnceInv => ClaimedOnce
    <2> SUFFICES ASSUME OrderInv, OnceInv, NEW m \in 1 .. accepted
                 PROVE  /\ Times(m) <= Budget(m)
                        /\ m \in claimed \ covered => Times(m) >= 1
        BY DEF ClaimedOnce, Budget
    <2>1. Fits(m) /\ Times(m) \in Nat
        BY TimesType DEF OnceInv, CountInv, OrderInv
    <2>2. Left(m) \in Nat /\ Budget(m) \in Nat
        BY DEF Left, Budget
    <2>3. QED BY <2>1, <2>2 DEF Fits
<1>4. Init => WakeupInv
    BY DEF Init, WakeupInv, StuckOnlyByWakeup
<1>5. QED BY <1>1, <1>2, <1>3, <1>4, InitOrder, StepOrder, StepWakeup, PTL DEF Spec
----------------------------------------------------------------------------
\* Where the threads are; a worker falls asleep only while the other is not about to.
PlacesInv ==
    /\ sending \in {"none", "head", "test", "about", "asleep", "took", "ready",
                    "request", "exited"}
    /\ receiving \in {"none", "head", "test", "about", "asleep", "exited"}
    /\ polling \in {"none", "head", "request", "pause", "exited"}
    /\ control \in {"stopped", "started", "disconnect", "notify", "join"}
    /\ ~(sending = "about" /\ receiving = "about")

\* Every thread is at one of its places, and the worker threads exclude each other while
\* one falls asleep; no message is queued or handled that was not accepted.
THEOREM WebSocketTypeCorrect == Spec => []TypeOK
<1>1. Init => PlacesInv
    BY DEF Init, PlacesInv
<1>2. PlacesInv /\ [Next]_wvars => PlacesInv'
    <2> SUFFICES ASSUME PlacesInv, [Next]_wvars PROVE PlacesInv'
        OBVIOUS
    <2> USE DEF PlacesInv
    <2>1. CASE Start \/ StopFlag \/ StopStep
        BY <2>1 DEF Start, StopFlag, StopStep, StopDisconnect, StopNotify, StopJoin, Woken
    <2>2. CASE Send
        BY <2>2 DEF Send, Notified, NotifyOne, Woken
    <2>3. CASE SenderStep
        BY <2>3 DEF SenderStep, SenderHead, SenderTest, SenderSleeps, SenderChecks, SenderSets,
                    SenderPerforms, HeadOfLoop, MutexFree
    <2>4. CASE ReceiverStep
        BY <2>4 DEF ReceiverStep, ReceiverHead, ReceiverTest, ReceiverSleeps, HeadOfLoop,
                    MutexFree
    <2>5. CASE PollStep
        BY <2>5 DEF PollStep, PollSets, PollPerforms, PollPauses
    <2>6. CASE UNCHANGED wvars
        BY <2>6 DEF wvars
    <2>7. QED BY <2>1, <2>2, <2>3, <2>4, <2>5, <2>6 DEF Next
<1>3. PlacesInv /\ OrderInv => TypeOK
    <2> SUFFICES ASSUME PlacesInv, OrderInv PROVE TypeOK
        OBVIOUS
    <2>1. Shapes /\ Len(queue) \in Nat /\ DOMAIN queue = 1 .. Len(queue)
        BY LenProperties DEF OrderInv, Shapes
    <2>2. Popped \in 0 .. accepted
        BY <2>1 DEF OrderInv, QueueInv, Popped, Shapes
    <2>3. hand \in 0 .. accepted
        BY <2>1, <2>2 DEF OrderInv, HandInv, Shapes
    <2>4. handle \in 0 .. accepted
        BY <2>1, <2>2 DEF OrderInv, ServerInv, Shapes, Health
    <2>5. ASSUME NEW i \in DOMAIN queue PROVE queue[i] \in 1 .. accepted
        <3>1. queue[i] = Popped + i /\ i \in 1 .. Len(queue)
            BY <2>1 DEF OrderInv, QueueInv
        <3>2. QED BY <2>1, <2>2, <3>1 DEF Popped, Shapes
    <2>6. ToSet(queue) \subseteq 1 .. accepted
        BY <2>5 DEF ToSet
    <2>7. QED BY <2>3, <2>4, <2>6 DEF PlacesInv, TypeOK
<1>4. QED BY <1>1, <1>2, <1>3, InitOrder, StepOrder, PTL DEF Spec
============================================================================
