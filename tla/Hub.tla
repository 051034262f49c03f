-------------------------------- MODULE Hub --------------------------------
(***************************************************************************)
(* The WebSocket relay of server/main.go: the Hub with its map of clients  *)
(* and its in-memory queue, the queued_messages table, and per connection  *)
(* the handler serveWS, the reader goroutine and the writer goroutine.     *)
(*                                                                         *)
(* A step is what one goroutine does between two points where another can  *)
(* get in: a critical section of hub.mu, a database statement, a channel   *)
(* operation, or reading the socket.  Hub.send looks the client up under   *)
(* the lock and pushes into its channel after releasing it, so it is two   *)
(* steps; a push into a channel closed in between panics, which ends the   *)
(* process: what is in memory is lost, and the table stays.                *)
(*                                                                         *)
(* A message from a client is forwarded twice: the reader sends or stores  *)
(* the raw bytes, then processMessage sends or queues them with a new      *)
(* time stamp.  A payment is not forwarded the second time: a goroutine    *)
(* answers its sender.                                                     *)
(*                                                                         *)
(* An operator whose name starts with Faulty is no part of the model: it   *)
(* is a plausible mistake in the operator after it, put in its place to    *)
(* see which property notices.                                             *)
(***************************************************************************)
EXTENDS Naturals, Sequences, FiniteSets, SequencesExt

CONSTANTS User,      \* user ids
          Conn,      \* connections, each opened at most once
          OwnerOf,   \* the user whose token a connection carries
          Msg,       \* the messages clients may send
          From, To,  \* sender and recipient of each
          Payments,  \* the messages of type "payment"
          Cap,       \* capacity of a Send channel (256 in the code)
          NoConn     \* no client registered

\* Readers, by their connection, and payments index the same variable.
ASSUME HubAssumption ==
    /\ OwnerOf \in [Conn -> User]
    /\ From \in [Msg -> User] /\ To \in [Msg -> User]
    /\ Payments \subseteq Msg
    /\ Cap \in Nat \ {0}
    /\ NoConn \notin Conn /\ Conn \cap Msg = {}

VARIABLES
    clients,    \* h.clients : the connection registered for each user
    queue,      \* h.queue : per user, in memory
    stored,     \* the rows of queued_messages, by id
    channel,    \* the Send channel of each connection
    closed,     \* the channels that have been closed
    up,         \* the connections whose socket is open
    handler,    \* how far serveWS and the reader of each connection are
    writer,     \* the connections whose writer goroutine runs
    task,       \* what each reader and each payment goroutine is sending
    posted,     \* history: messages a reader has read
    delivered,  \* history: per connection, what was written to its socket
    lost,       \* history: re-stamped copies and answers dropped by a flush into
                \* a full channel, with a writer that ends, or with the process
    replaced    \* history: connections overwritten in the map while registered

hvars == <<clients, queue, stored, channel, closed, up, handler, writer, task,
           posted, delivered, lost, replaced>>

\* A copy of a message: the raw bytes, the re-stamped ones, or the answer to a
\* payment.
Copy(m, form) == [msg |-> m, form |-> form]

Recipient(x) == IF x.form = "ack" THEN From[x.msg] ELSE To[x.msg]

\* What processMessage makes of a message: the copy that is sent or queued after
\* the raw bytes.
Owed(m) == Copy(m, IF m \in Payments THEN "ack" ELSE "stamped")

Dropped(items) == {x \in items : x.form # "raw"}

Idle == [at |-> "idle"]

Sending(x) == [at |-> "lookup", item |-> x]

Init ==
    /\ clients = [u \in User |-> NoConn]
    /\ queue = [u \in User |-> <<>>]
    /\ stored = <<>>
    /\ channel = [c \in Conn |-> <<>>]
    /\ closed = {}
    /\ up = {}
    /\ handler = [c \in Conn |-> "new"]
    /\ writer = {}
    /\ task = [t \in Conn \cup Payments |-> Idle]
    /\ posted = {}
    /\ delivered = [c \in Conn |-> <<>>]
    /\ lost = {}
    /\ replaced = {}
----------------------------------------------------------------------------
\* select with default: what fits into a channel is pushed, the rest is not.
Fitting(items, room) == SubSeq(items, 1, IF Len(items) < room THEN Len(items) ELSE room)

Spilling(items, room) == SubSeq(items, Len(Fitting(items, room)) + 1, Len(items))

RowsFor(u) == {i \in DOMAIN stored : Recipient(stored[i]) = u}

\* The rows at the positions in P in their order, ORDER BY id: there is one such
\* sequence.
Ordered(P) ==
    LET Ascending == {f \in [1 .. Cardinality(P) -> P] :
                         \A i, j \in DOMAIN f : i < j => f[i] < f[j]}
    IN {[k \in 1 .. Cardinality(P) |-> stored[f[k]]] : f \in Ascending}

\* serveWS upgrades, selects the user's rows and pushes them into the channel
\* that nobody else knows yet; rows that do not fit are only logged.  A failing
\* SELECT is passed over: the client is registered all the same.
Connect(c) ==
    /\ handler[c] = "new"
    /\ up' = up \cup {c}
    /\ \E rows \in Ordered(RowsFor(OwnerOf[c])) \cup {<<>>} :
       /\ channel' = [channel EXCEPT ![c] = Fitting(rows, Cap)]
       /\ handler' = [handler EXCEPT ![c] = IF rows = <<>> THEN "register" ELSE "delete"]
    /\ UNCHANGED <<clients, queue, stored, closed, writer, task, posted, delivered, lost, replaced>>

\* DELETE WHERE recipient = user: whatever is there now, selected or not.  An
\* error is only logged.
DeleteRows(c) ==
    /\ handler[c] = "delete"
    /\ stored' \in {stored} \cup Ordered(DOMAIN stored \ RowsFor(OwnerOf[c]))
    /\ handler' = [handler EXCEPT ![c] = "register"]
    /\ UNCHANGED <<clients, queue, channel, closed, up, writer, task, posted, delivered, lost, replaced>>

FaultyFlushed(u) == queue  \* delete(h.queue, id) is missing

Flushed(u) == [queue EXCEPT ![u] = <<>>]

\* Hub.register, under hub.mu; it overwrites a client that is still registered.
\* serveWS then starts the reader and the writer.
Register(c) ==
    /\ handler[c] = "register"
    /\ clients' = [clients EXCEPT ![OwnerOf[c]] = c]
    /\ replaced' = replaced \cup ({clients[OwnerOf[c]]} \ {NoConn})
    /\ LET waiting == queue[OwnerOf[c]]
           room == Cap - Len(channel[c]) IN
       /\ channel' = [channel EXCEPT ![c] = @ \o Fitting(waiting, room)]
       /\ lost' = lost \cup Dropped(ToSet(Spilling(waiting, room)))
    /\ queue' = Flushed(OwnerOf[c])
    /\ handler' = [handler EXCEPT ![c] = "serving"]
    /\ writer' = writer \cup {c}
    /\ UNCHANGED <<stored, closed, up, task, posted, delivered>>
----------------------------------------------------------------------------
\* The reader reads a message off the socket.  The sender it names need not be
\* the connection's user.
Read(c, m) ==
    /\ handler[c] = "serving" /\ c \in up
    /\ task[c] = Idle
    /\ m \notin posted
    /\ posted' = posted \cup {m}
    /\ task' = [task EXCEPT ![c] = Sending(Copy(m, "raw"))]
    /\ UNCHANGED <<clients, queue, stored, channel, closed, up, handler, writer, delivered, lost, replaced>>

\* What follows when a copy has been sent or kept: processMessage after the raw
\* bytes, which for a payment starts its goroutine; nothing after the others.
NextTasks(t) ==
    LET m == task[t].item.msg IN
    IF task[t].item.form # "raw" THEN [task EXCEPT ![t] = Idle]
    ELSE IF m \in Payments
         THEN [task EXCEPT ![t] = Idle, ![m] = Sending(Copy(m, "ack"))]
         ELSE [task EXCEPT ![t] = Sending(Copy(m, "stamped"))]

FaultyTargetOf(x) == clients[To[x.msg]]  \* the answer goes to the payee

TargetOf(x) == clients[Recipient(x)]

\* Hub.send under RLock: the client registered for the recipient, if any.
Lookup(t) ==
    /\ task[t].at = "lookup"
    /\ LET x == task[t].item
           c == TargetOf(x) IN
       task' = [task EXCEPT ![t] = IF c = NoConn THEN [at |-> "keep", item |-> x]
                                   ELSE [at |-> "push", item |-> x, conn |-> c]]
    /\ UNCHANGED <<clients, queue, stored, channel, closed, up, handler, writer,
                   posted, delivered, lost, replaced>>

FaultyHasRoom(c) == TRUE  \* the channel is unbounded

HasRoom(c) == Len(channel[c]) < Cap

\* Hub.send after RUnlock.  client.Online is read without the lock: a client
\* unregistered since the lookup may be seen as offline, and nothing is pushed.
\* A channel whose writer has ended is filled all the same, to no avail.
Push(t) ==
    /\ task[t].at = "push"
    /\ LET x == task[t].item
           c == task[t].conn IN
       /\ IF c \notin closed /\ HasRoom(c)
          THEN /\ channel' = [channel EXCEPT ![c] = Append(@, x)]
               /\ lost' = IF c \in writer THEN lost ELSE lost \cup Dropped({x})
               /\ task' = NextTasks(t)
          ELSE /\ task' = [task EXCEPT ![t] = [at |-> "keep", item |-> x]]
               /\ UNCHANGED <<channel, lost>>
    /\ UNCHANGED <<clients, queue, stored, closed, up, handler, writer, posted,
                   delivered, replaced>>

\* m is being sent raw, its owed copy still to be made; or that copy is being
\* sent, waits in its recipient's queue, or is in a channel of the recipient
\* that a writer reads.
OnItsWay(m) ==
    LET x == Owed(m) IN
    \/ \E t \in DOMAIN task : task[t] # Idle /\ task[t].item \in {Copy(m, "raw"), x}
    \/ x \in ToSet(queue[Recipient(x)])
    \/ \E c \in writer : OwnerOf[c] = Recipient(x) /\ x \in ToSet(channel[c])

\* If it is seen as online, the push into its closed channel panics: the process
\* dies, with all that is in memory, and is started again.
PushPanics(t) ==
    /\ task[t].at = "push" /\ task[t].conn \in closed
    /\ clients' = [u \in User |-> NoConn]
    /\ queue' = [u \in User |-> <<>>]
    /\ channel' = [c \in Conn |-> <<>>]
    /\ closed' = {}
    /\ up' = {}
    /\ handler' = [c \in Conn |-> IF handler[c] = "new" THEN "new" ELSE "ended"]
    /\ writer' = {}
    /\ task' = [s \in DOMAIN task |-> Idle]
    /\ lost' = lost \cup {Owed(m) : m \in {k \in posted : OnItsWay(k)}}
    /\ UNCHANGED <<stored, posted, delivered, replaced>>

FaultyQueued(x) == queue  \* a message nobody is there for is not queued

\* queueMessage, under hub.mu.
Queued(x) == [queue EXCEPT ![Recipient(x)] = Append(@, x)]

\* What could not be sent: the raw bytes go into the table, the others into
\* the queue.  A failing INSERT is only logged.
Keep(t) ==
    /\ task[t].at = "keep"
    /\ LET x == task[t].item IN
       IF x.form = "raw"
       THEN stored' \in {stored, Append(stored, x)} /\ UNCHANGED queue
       ELSE queue' = Queued(x) /\ UNCHANGED stored
    /\ task' = NextTasks(t)
    /\ UNCHANGED <<clients, channel, closed, up, handler, writer, posted,
                   delivered, lost, replaced>>
----------------------------------------------------------------------------
\* The writer takes the next message off the channel; a failed write ends it, and
\* nobody reads what is still in the channel.
Write(c) ==
    /\ c \in writer /\ channel[c] # <<>>
    /\ channel' = [channel EXCEPT ![c] = Tail(@)]
    /\ IF c \in up
       THEN /\ delivered' = [delivered EXCEPT ![c] = Append(@, Head(channel[c]))]
            /\ UNCHANGED <<writer, lost>>
       ELSE /\ writer' = writer \ {c}
            /\ lost' = lost \cup Dropped(ToSet(channel[c]))
            /\ UNCHANGED delivered
    /\ UNCHANGED <<clients, queue, stored, closed, up, handler, task, posted, replaced>>

\* The writer finds its channel drained and closed, and closes the socket.
WriterEnds(c) ==
    /\ c \in writer /\ channel[c] = <<>> /\ c \in closed
    /\ writer' = writer \ {c}
    /\ up' = up \ {c}
    /\ UNCHANGED <<clients, queue, stored, channel, closed, handler, task,
                   posted, delivered, lost, replaced>>

\* The socket fails or the client goes away.
Drop(c) ==
    /\ c \in up
    /\ up' = up \ {c}
    /\ UNCHANGED <<clients, queue, stored, channel, closed, handler, writer,
                   task, posted, delivered, lost, replaced>>

FaultyUnregistered(u) == clients  \* the entry stays in the map

Unregistered(u) == [clients EXCEPT ![u] = NoConn]

FaultyClosedBy(u) == {}  \* close(client.Send) is missing

ClosedBy(u) == {clients[u]} \ {NoConn}

\* ReadMessage fails and the reader's deferred calls run.  Hub.unregister goes
\* by the user id: it closes the channel of whatever client is registered now.
ReaderEnds(c) ==
    /\ handler[c] = "serving" /\ c \notin up
    /\ task[c] = Idle
    /\ closed' = closed \cup ClosedBy(OwnerOf[c])
    /\ clients' = Unregistered(OwnerOf[c])
    /\ handler' = [handler EXCEPT ![c] = "ended"]
    /\ UNCHANGED <<queue, stored, channel, up, writer, task, posted, delivered,
                   lost, replaced>>

Next ==
    \/ \E c \in Conn : \/ Connect(c) \/ DeleteRows(c) \/ Register(c)
                       \/ Write(c) \/ WriterEnds(c) \/ Drop(c) \/ ReaderEnds(c)
    \/ \E c \in Conn, m \in Msg : Read(c, m)
    \/ \E t \in Conn \cup Payments : Lookup(t) \/ Push(t) \/ PushPanics(t) \/ Keep(t)

Spec == Init /\ [][Next]_hvars
----------------------------------------------------------------------------
Copies == [msg : Msg, form : {"raw", "stamped", "ack"}]

\* Shapes of the variables; no channel holds more than its capacity.
TypeOK ==
    /\ clients \in [User -> Conn \cup {NoConn}]
    /\ \A u \in User : ToSet(queue[u]) \subseteq Copies
    /\ ToSet(stored) \subseteq [msg : Msg, form : {"raw"}]
    /\ \A c \in Conn : Len(channel[c]) <= Cap /\ ToSet(channel[c]) \subseteq Copies
    /\ closed \subseteq Conn /\ up \subseteq Conn /\ writer \subseteq Conn
    /\ handler \in [Conn -> {"new", "delete", "register", "serving", "ended"}]
    /\ \A t \in DOMAIN task : task[t].at \in {"idle", "lookup", "push", "keep"}
    /\ posted \subseteq Msg /\ lost \subseteq Copies /\ replaced \subseteq Conn

\* The client registered for a user is a connection of that user whose channel
\* is open and whose reader still runs: register never pushes into a closed
\* channel, and unregister never closes one twice.
ClientsAreLive ==
    \A u \in User : clients[u] # NoConn =>
        /\ OwnerOf[clients[u]] = u
        /\ clients[u] \notin closed
        /\ handler[clients[u]] = "serving"

\* Nothing is written to a socket of a user it is not for.
RightRecipient ==
    \A c \in Conn : \A x \in ToSet(delivered[c]) : Recipient(x) = OwnerOf[c]

\* Of a message read from a socket the re-stamped copy, of a payment the answer,
\* is delivered to its recipient, or on its way to where the recipient gets it,
\* unless that very copy was dropped: by a flush that found the channel full, in
\* the channel of a writer that ended, or with the process.  No interleaving of
\* lookups, closed and full channels, flushes and reconnections loses it
\* otherwise.  Nothing of the kind holds of the raw bytes, and so of a payment
\* itself, which serveWS may delete from the table without having read it.
Conserved ==
    \A m \in posted : Owed(m) \notin lost =>
        \/ OnItsWay(m)
        \/ \E c \in Conn : /\ OwnerOf[c] = Recipient(Owed(m))
                           /\ Owed(m) \in ToSet(delivered[c])

\* The re-stamped copy of a message, and the answer to a payment, are delivered
\* at most once over all the connections of a user: the queue is flushed and
\* emptied in one critical section.
OneStampedCopy ==
    \A c, d \in Conn : \A i \in DOMAIN delivered[c], j \in DOMAIN delivered[d] :
        (delivered[c][i] = delivered[d][j] /\ delivered[c][i].form # "raw")
        => c = d /\ i = j

\* When the reader of a connection is gone and its writer is not, the writer waits
\* on a channel nobody will ever close exactly if a later connection of the same
\* user took the place of this one in the map while it was registered.
LeakedWriterWasReplaced ==
    \A c \in writer : handler[c] = "ended" => (c \notin closed <=> c \in replaced)

\* TEST_CHECKLIST.md, Disconnect & Reconnect: "Verify reconnection succeeds".
\* The server does not close the channel of a connection whose socket is up.
ReconnectionSurvives == [][\A c \in closed' \ closed : c \notin up]_hvars
============================================================================
