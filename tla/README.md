# SecureComm / CarrierBridge: TLA+ models, checks and proofs

This directory is a verification development for the repository's messaging
core: the C++ library `libsecurecomm` (`src/libsecurecomm`) and the Go relay
server (`server/main.go`). Paths below are relative to the repository root.
`PROJECT.json` holds the machine-readable index: components, TLC runs, the map
from definitions to source lines, hazards, findings, theorems, and for every
property a plausible mistake in the code that it catches.

    tlc -config MCSingleDelivery.cfg MCSingleDelivery   # one run
    tlapm DispatcherProofs.tla                          # the proofs of one module

## 1. The system and its parts

| Part | Source | State it keeps | Operations | Talks to |
|---|---|---|---|---|
| Ratchet | `libsecurecomm/src/ratchet.cpp` | key pair, root key, two chain keys, two counters, last remote key, session id, skipped keys | construct, `initialize`, `ratchet_step`, `encrypt_envelope`, `decrypt_envelope`, `export_state`, `import_state` | called by Dispatcher under its mutex |
| Dispatcher | `dispatcher.cpp`, `envelope.cpp` | device id, `sessions_` (peer to ratchet), `on_inbound_` | `register_device`, `create_session_with`, `send_message_to_device`, `on_raw_message`, `set_on_inbound` | transport (`send`, callback) |
| Enhanced dispatcher, offline queue | `enhanced_dispatcher.cpp`, `modules/offline/queue_manager.cpp` | connection state, SQLite table of queued messages | send or queue, connectivity thread, retry thread, clean-up | Dispatcher, SQLite, mesh |
| In-memory transport | `in_memory_transport.cpp` | FIFO queue, peer, `running_` | start, stop, send, deliver | the bridged transport |
| WebSocket client transport | `websocket_transport.cpp` | send queue, `connected_`, curl handle, three threads | start, stop, send, poll | a server over HTTP |
| Mesh network | `modules/mesh/mesh_network.cpp` | peers, packet queue, seen packets | discovery and routing threads, `send_packet` | enhanced dispatcher (callback) |
| MLS group manager | `mls_manager.cpp` | groups: epoch, leaf secrets, index of members | create, add, remove, encrypt, decrypt | Dispatcher's group half |
| X3DH | `x3dh.cpp` | none | initiate, respond | nobody (its unit test) |
| Relay hub | `server/main.go` (`Hub`, `serveWS`) | clients by user id, queue in memory, table `queued_messages`, a channel per connection | connect, register, unregister, send, queue, process message and payment | sockets, SQLite |
| Accounts and keys | `server/main.go` (HTTP handlers) | users, one-time prekeys, one-time passwords, e-mail tokens | register, fetch keys, send a code, verify, discover contacts | SQLite |
| Node demo relay, CLI client | `server/server.js`, `server/client.go` | a connection map; nothing | demo and test programs | |
| Android app and its JNI bridge | `Android/...` | one socket, caches of the UI | HTTP and WebSocket calls, conversion | relay, library |

Interaction: an application calls the Dispatcher (or the enhanced one, which
queues what the Dispatcher refuses). The Dispatcher seals the message with the
ratchet of the session and hands the envelope to the transport; a transport
thread of the receiving device calls `on_raw_message`, which opens it with the
ratchet of the session with the sender and calls the application back. The
relay forwards opaque messages between WebSocket connections and keeps those for
absent users.

### What is hard about it

* **Order and repetition.** The ratchet must open messages in any order, each
  once, with header numbers that it processes before it authenticates them.
* **Restarts.** A Dispatcher stores nothing: its peers keep sessions that it has
  forgotten. The offline queue and the relay's table do survive, the relay's
  other queue does not.
* **Goroutines and threads.** `Hub.send` pushes into a channel after it has
  released the lock under which `unregister` closes it. The retry thread works on
  a copy of rows that others insert and replace. Two threads of the WebSocket
  transport sleep on one condition variable, and two use one curl handle.
* **Transactions.** The handlers of the server share only the database; what may
  come between two of their statements is decided by its locks, and a lock that
  does not come in time ends a request half-way.
* **Duplicated paths.** The relay forwards every message twice, once raw and
  once re-stamped, with two different stores behind.
* **Silent failures.** Results of SQL statements are ignored, a full channel
  drops, a missing session drops.

`PROJECT.json` lists these at their lines under "hazards" with the properties
that watch them; the few without one say why in a note.

### What makes each part correct

* Ratchet and Dispatcher: a message delivered once to an open session is read,
  however late, shown at most once, and only at the device it is for; no device uses
  a key twice towards one contact; what is kept is bounded by what is missing; after
  restarts, what can still work does.
* Offline queue: a message accepted is sent or still in the table; it is sent
  again only for a reason; for every row queued, a message is tried.
* Relay: the map of clients never holds a dead connection; what the relay owes for
  a message is delivered, on its way to somebody who takes it further, or among
  what a full channel, an ended writer or the process dropped; the queue delivers
  no second copy; nobody reads another's messages.
* In-memory transport: what is delivered is handled once and in order; `stop`
  returns; no lock is waited for in a circle.
* WebSocket transport: messages reach the server in order, and but for what the
  shared handle does to them each once, and none is claimed that did not; the
  sending thread does not sleep on a message; `stop` returns.
* MLS group manager: the index of a member points at a leaf of that member after
  any joins and removals; whoever is removed has no part in later secrets; a
  message opens in the epoch it was sealed in and in no other.
* Accounts: a one-time prekey is given out once, and none that was decoded is lost by
  a failure or a later registration; every request is answered; registered users are found.

## 2. Modules

### `Ratchet.tla`: the ratchet as a value

The ratchet object is a record, its methods are operators on it. There are no
variables: the two modules that hold ratchets say when methods are called.
Fields are the members of `ratchet.hpp`: `pub` (the DH public key), `root`,
`sendChain`, `recvChain`, `sendN`, `recvN`, `lastRemote`, `sid`, `skipped`.

Cryptography is symbolic: a key is the term that derives it. A DH secret is the
set of the two public keys; a root key is the pre-shared root with the sequence
of secrets mixed in; a chain key is a root key, a label and a position. Two keys
are equal exactly when the code derives them from equal inputs by equal steps,
and an AEAD opens exactly with the key (and the header, which is fixed with it)
that sealed. That is the usual assumption about HKDF, HMAC and the AEAD, and the
only one.

`decrypt_envelope` is translated in the order of the code: session id check (the
only one that changes nothing), adoption of the session id, DH ratchet on a new
public key (`FollowRemote`), the skip loop (`SkipTo`, with `map::emplace`'s
"first wins"), and then the authentication. When that fails, everything before
it stays changed (`AfterDecrypt` returns `Prepared`).

### `Dispatcher.tla`: devices and their sessions

One action per public method. All of them hold `mutex_` from end to end, so an
action is a whole call. The transport is a set of envelopes from which nothing
is ever removed, and any device may be given any of them at any time: delivery is
late, reordered, repeated, misdirected (an unbridged in-memory transport hands a
device its own envelopes), or never happens. `OnRawMessage` without a session
changes nothing, which is a stuttering step.

Three specifications share these actions:

| Specification | Use of the API |
|---|---|
| `Spec` | `clients/desktop/main.cpp`: register, open each session once, then send |
| `RestartSpec` | processes restart and lose everything; sessions may be opened before `register_device`, which hashes an empty id into the session id |
| `ReopenSpec` | `create_session_with` is called again for a peer while the process runs |

The root key is an argument of `create_session_with`, so it is a constant: `Root`
gives the one for each pair of devices. The callers of the repository pass one fixed
array for every pair (`main.cpp:36`), and so do the instances that TLC checks
(`OneRoot`); the theorems hold for any `Root`, one key for all pairs included. With
one root key, chains with different contacts run through the same keys, and what
keeps sessions apart is the session id, which hashes the two device ids as well.

`SecureChannel.tla` is the abstract specification: messages are posted, and taken
off the wire at most once, by their receiver only, and shown when taken unless
no callback is installed. `ImplementsChannel` maps `posted` to the bodies on the
network, `taken` to the union of `opened`, `shown` to `handed`.

### `SingleDelivery.tla`: a transport that delivers once

`Dispatcher` with the set `due` of the envelopes that the transport has accepted and
not yet delivered. `SendOnce` adds the envelope of a send; `DeliverOnce` takes one
out and calls the receiver's dispatcher, which drops it if it has no session with the
sender, as `in_memory_transport.cpp` pops an envelope before it calls back and tries
nothing again. The other steps of `Dispatcher`, replays and misdeliveries among them,
stay possible but are never sure to happen: fairness is on `DeliverOnce` only, so
`EveryMessageOpens` may not count on a second delivery. Its condition, a session at
the time the envelope is under way, is what the code needs: an envelope that comes
before the session is dropped for good. `SingleDeliveryImplements` (proved) says that
its behaviours are behaviours of `Spec`, so all the theorems hold of it.

### `RatchetPair.tla`: two ratchets without a dispatcher

The objects as `tests/ratchet_two_party_test.cpp` uses them: explicit
`ratchet_step`s at any time, messages in any order and repeated, `export_state`
at any time and recovery of it into a new object (`import_state`), which rolls
counters back to the time of the export and forgets the skipped keys. The
session id starts out empty, so that the first encryption draws one at random
and the first decryption adopts one. `DrawnSid` is another id at each draw, also
after a recovery has left a ratchet without one.

### `Hub.tla`: the relay

Goroutine granularity: a step is a critical section of `hub.mu`, an SQL
statement, a channel operation or a socket read. `handler` is how far `serveWS`
and then the reader of a connection have come; `task` is what a reader, or the
goroutine that answers a payment, is sending, and where it is in `Hub.send`:
`lookup` (under `RLock`), `push` (after `RUnlock`), `keep` (the INSERT, or
`queueMessage`). `client.Online` is read without the lock, a data race, so a
client unregistered between lookup and push may be seen either way (`Push` or
`PushPanics`); the push into the closed channel panics in a goroutine nobody
recovers, so the process dies and is started again
(`docs/DEPLOYMENT.md:44`, `--restart=always`) with an empty map and queue and
the table as it was. INSERT and DELETE may fail, since their errors are only
logged, and so may the SELECT of `Connect`, which is passed over. The reader does
not compare the sender that a message names with the user of its connection, and
neither does `Read`. A write to a socket that is up counts as delivered.

What the relay owes for a message (`Owed`) is the re-stamped copy of a text and the
answer to a payment. The raw copy has stores of its own and comes with or without it;
it counts for nothing. `OnItsWay` says that a goroutine has the copy or has yet to
make it, or that it waits in the queue, or in a channel whose writer still runs.
`lost` collects what has no way left: what did not fit into a channel, what was pushed
into or left in a channel whose writer has ended, and what the process held when it
panicked. `Conserved` says that nothing is lost in any other way, though SQL fails, queues
flush and sockets drop. `replaced` collects the connections that a later
`register` of the same user has overwritten.

### `OfflineSender.tla`: enhanced dispatcher and offline queue

Steps are SQL statements, calls into the Dispatcher and accesses to atomics. A
call of `send_message_to_device` sends (session there) or goes on to insert; the
retry thread selects (`SelectPending`), then for each row of its copy sends or is
refused (`RetrySend`) and updates the row under that id, whatever is in it by now
(`RetryMark`). The id is made of the remote device and the millisecond, as in the
code, so two messages may share it: the later one replaces the row of the earlier,
also while the retry thread is at work on it, whose mark then falls on a message that
was not sent. `DeliveredWasSent` and `QueuedIsTried` are therefore about the messages
of an id, and say in their comments what they do not claim of each of them; `Accounted`
is about messages alone under their id. `transport_connected` is a constant `true` in
the code, and whether a mesh peer has internet is a nondeterministic input.

### `InMemoryTransport.tla`: threads and locks under two dispatchers

`Dispatcher.tla` takes the transport as a set of envelopes; this module is the
transport itself. A worker thread per transport goes round the loops of `start`
(`WorkerHead`: `while (running_)`; `WorkerTest`: the predicate of `wait`;
`WorkerSleeps`: `wait` falls asleep and releases the mutex; `WorkerPops`: the
inner loop), and calls `on_raw_message`, which takes the dispatcher's `mutex_`
(`CallbackLock`, `CallbackReturns`). A thread per message takes the mutex of its
own dispatcher, pushes under the mutex of the other transport and notifies after
releasing it. `stop` sets the flag and notifies without that mutex, then joins.
The transport's mutex needs no variable: the worker holds it from `head` to
`about` and in `drain`. A push during these steps has the effect of one before or
after them, but for the step from `about` to `asleep`, where `MutexFree` keeps the
pushers out.

`stop` is the one place where a notification can fall between the worker's test
and its sleep. `missed` remembers that it did: the worker then sleeps with
`running_` false, `join` does not return unless a later message wakes it.
`NoLostWakeup` and `StopReturns` say that this is the only way for it to happen.

### `WebSocketTransport.tla`: three threads, one condition variable, one handle

The sending thread (`SenderHead`, `SenderTest`, `SenderSleeps`, `SenderChecks`,
`SenderSets`, `SenderPerforms`), the receiving thread, which waits on a queue that
nothing is put into, the polling thread, and the thread that starts and stops
the transport. Messages are numbered in the order of the calls of `send`.

* `NotifyOne`: `send` wakes one of the threads asleep on `cond_`, and it may be the
  receiving one, which goes back to sleep: the message waits for the next `send`.
  `stray` remembers that, `missed` that the `notify_all` of `stop` fell between a
  thread's test and its sleep. `StuckOnlyByWakeup` and `StopReturns` say that there
  is no other way to get stuck.
* A request is two steps, setting the options of `curl_handle_` and performing
  what the handle then says (`Perform`). A poll between the two steps of a message
  makes the message a poll whose answer is taken for the message's, and a message
  between the two steps of a poll is posted twice. `carried` collects the messages
  whose request was set while a poll had yet to perform, `covered` those over whose
  request a poll has set its own; `ClaimedOnce` says of every message what each of
  the two can do to it: `carried`, come twice; `covered`, be claimed and never come. The code has
  a data race there: of what
  libcurl may then do, the model keeps what the options say.
* A poll may come at any time, with any result: intervals, back-off and timeouts are left out.
  The server may get a message and its answer be lost.
* Left out: `receive_queue_` and `set_on_message` (nothing ever fills that queue),
  exceptions of curl, and calling `start` twice without `stop`, which would assign
  to a running `std::thread` and end the process. The Go server has no `/message`
  route; the model leaves open what the server at the other end is.

### `Accounts.tla`: the handlers over the database

A step is one SQL statement of one request. What may come between two
statements is decided by the locks of SQLite as `mattn/go-sqlite3` opens it by
default: rollback journal, deferred transactions, a busy timeout. A read takes
SHARED until its transaction ends, the first write takes RESERVED, a commit
keeps new readers out (`Pending`), waits for the others and then changes the
tables. Whoever waits may time out (`TimesOut`); a transaction that holds SHARED and
wants RESERVED is refused at once (`DeletePrekey`), because waiting would be a
deadlock. `fetchOneTimePrekey` is `SelectPrekey`, `DeletePrekey`, `AskCommit`,
`CommitFetch`; its `defer tx.Rollback()` is `Released`.

Requests are constants, and a request stands for the id, the token or the code
it makes. `prekeys` is the table as a set of rows with AUTOINCREMENT ids.
`Decoded` is the base64 decoder without padding of `/v1/register`, which skips
what it cannot read: `NoPrekeyLost` says that the keys kept are exactly the
unpadded ones of the registrations answered. The 32-byte keys of `server/client.go:110` are
padded, and none of them is ever kept. `NullColumns` are the columns an INSERT does not name: a
`Scan` into a string fails on them, and discovery skips the row.

### `MLSGroup.tla` and `GroupChannel.tla`: groups

`MLSManager` as a map of groups: `epoch`, `leaf_secrets`, `member_index`. `emplace`
keeps the index of a member added twice, and `remove_member` erases by position
and moves the indices behind it. `GroupChannel` is the abstract specification: a
set of members and an epoch for each group, messages sealed in a group and an
epoch, and attempts to open them. `ImplementsGroup` maps the members to the
domain of the index and the envelopes to their group and epoch; for it to hold,
keys of different epochs must differ even when the members are the same again.

### Proof modules

`DispatcherProofs`, `PairProofs`, `HubProofs`, `OfflineProofs`, `TransportProofs`,
`WebSocketProofs`, `AccountsProofs`, `MLSGroupProofs`: see section 4.

### MC modules

`MCSingleDelivery` (three devices), `MCDispatcher` (two, for the runs with restarts
and about the reuse of keys), `MCRatchetPair`, `MCHub`, `MCOfflineSender`,
`MCTransport`, `MCAccounts` define the instances that the `.cfg` files give to the
constants; the constants of
`WebSocketTransport` and `MLSGroup` are numbers and sets of model values, given
in the `.cfg` files directly. Operators called `Faulty...` in the
modules are not part of the models: each is a mistake one could make in the
operator that follows it, kept to show which property notices.

## 3. Runs

| Run | Checks | Instance | Result |
|---|---|---|---|
| `sessions` | `TypeOK`, `AtMostOnce`, `NoStranded`, `SkippedAreMissing`, `OneKeyPerSession`, `EveryMessageOpens`, `ImplementsChannel` | 3 devices with one root key; a and b both ways (2 and 1 messages), a to c (1) | holds, 26 thousand states |
| `restarts` | `UnturnedLinkWorks`, `NoReplayInSession` | 2 devices, 3 and 1 messages, a restart each, at most 3 turns of a ratchet | holds, 165 thousand states |
| `key_reuse` | `NoKeyReuse` | 2 devices | **violated** |
| `pair` | `SameStepsSameRoot`, `AheadOpens` | 2 messages and 1 step a side | holds, 1.25 million states |
| `stepped` | `SteppedPairTalks` | as `pair` | **violated** |
| `relay` | `TypeOK`, `ClientsAreLive`, `RightRecipient`, `Conserved`, `OneStampedCopy`, `LeakedWriterWasReplaced` | 2 users, 3 connections, 1 text, 1 payment, channels of 2 | holds, 2.0 million states |
| `reconnect` | `ReconnectionSurvives` | as `relay` | **violated** |
| `offline` | `TypeOK`, `Accounted`, `DeliveredWasSent`, `ResentOnlyIfUnmarked`, `QueuedIsTried`, `FailedIsFinal` | 3 messages, 2 of them under one id, 2 faults | holds, 131 thousand states |
| `transport` | `TypeOK`, `Fifo`, `NoLostWakeup`, `DeliveredIsHandled`, `StopReturns` | 2 bridged transports, 2 messages one way, 1 the other, one of them started twice | holds, 147 thousand states |
| `websocket` | `TypeOK`, `InOrder`, `ClaimedOnce`, `StuckOnlyByWakeup`, `StopReturns` | 2 messages, 2 starts | holds, 597 thousand states |
| `accounts` | `TypeOK`, `PrekeyOnce`, `NoPrekeyLost`, `Answered` | 2 registrations of one user, 2 fetches of the user's keys, a code, its verification, a discovery | holds, 32 thousand states |
| `mls` | `IndexFits`, `OrphansAreDuplicates`, `ImplementsGroup` | 2 groups, 2 members, 2 messages, 3 additions | holds, 156 thousand states |

### Bounds, and why they are enough

* `sessions`: the receiver of two messages can open them in either order or only
  one, with the other kept, and replay the first before or after; one message the
  other way turns `lastRemote` at both ends in between; the third device has a
  session with a sender whose envelopes for others it is given, under the same root
  key. The theorems lift the safety part to every instance.
* `restarts`: one restart a side makes a peer with a new key pair, an old session
  with fresh envelopes, and envelopes of both lives in flight. `MaxTurns` is
  needed because a receiver fed alternately with envelopes of two key pairs turns
  its ratchet for ever; three turns include following the new pair, falling back
  to the old one and returning.
* `pair`: one step a side, with an export and a recovery before and after it,
  gives the four combinations of who has stepped; `sent` bounds envelopes.
* `relay`: `Cap` is 2 instead of 256, so that two rows fill a channel and the next
  push does not fit. One user who reconnects while the old reader is still there
  is the case that matters; a third connection repeats it.
* `offline`: `MaxFaults` bounds together crashes, failed SQL writes, stops and
  switches to offline mode; two are enough to lose the mark of a message twice.
  `MaxRetries` is the code's 10. The ids are of one second, so the order of a
  round is left open; its limit of 100 rows is out of reach and left out.
* `transport`: two messages one way can be overtaken; with one the other way both
  dispatchers are locked by a send and wanted by a worker at once; the second
  start finds what the first one left in the queue.

* `websocket`: two messages are what order, repetition and a stray wake-up (which
  the next message repairs) need; the second start finds the queue and the handle
  that the first one left.
* `accounts`: two fetches race for the one prekey of the first registration, or
  for different ones, with the second registration between any two statements;
  the code and the verification make the writers that have nothing to do with
  prekeys and yet hold the locks they need. One of the three prekeys is padded.
* `mls`: three additions to two members of two groups contain a member who leaves
  and returns, one added twice and then removed, and removals before and behind
  another index; epochs are bounded by them, since a removal needs an addition.

### Fairness

`EveryMessageOpens` assumes that an envelope which the transport has accepted is
delivered once: a worker thread that runs empties its queue. Nothing is assumed to
register, to open a session or to send, and nothing to be delivered again.
`QueuedIsTried` assumes that threads which run are scheduled and that SQL
statements return; it is claimed for processes that stay up and online only. `DeliveredIsHandled` and `StopReturns` assume that a thread that can run is
scheduled and that one lock holder after another gets its turn: every thread
takes each lock a bounded number of times here, so weak fairness suffices.
For the WebSocket transport's `StopReturns` this includes that a request ends, one way
or the other: curl is given a timeout (`websocket_transport.cpp`, `CURLOPT_TIMEOUT`).
Nobody is assumed to call `start` or `stop`. `Answered` assumes that the goroutine of each
request goes on when the database lets it (weak fairness of its own `Step`), and
neither that requests arrive nor that a wait for a lock ever times out. The other
runs assume no fairness.

Deadlock checking is off in the runs of `Hub`, where a relay whose clients have
sent everything and gone does rest; in `transport` and `websocket`, where
transports that are stopped rest; in `accounts`, where every request
may have been answered; and in `mls`, where the additions and messages may be used up. That
nobody there is stuck is what the liveness properties say.

### Findings

* `key_reuse`: `initialize` starts both chains of both parties from the root key
  itself, so the n-th message of either side is sealed with the same key; with the one
  root key of `main.cpp:36` so are the n-th messages to all contacts, and of all runs of
  the program. `README.md:585` says each message key is unique. `OneKeyPerSession` is
  what does hold: per device and contact.
* `stepped`: after both sides call `ratchet_step`, both send on the chain labelled
  SendChain and receive on RecvChain, so nothing opens.
  `tests/ratchet_two_party_test.cpp:31`, `tests/ratchet_unit_test.cpp:26` and
  `two_party_messaging.cpp:35` assert that it does. `SteppedIsMuteHolds` proves the
  other side of it: nothing sealed after a step ever opens at the peer.
* `reconnect`: `unregister` goes by user id. The end of a replaced connection
  closes the channel of its successor, whose socket is then closed by its writer
  (`TEST_CHECKLIST.md:68`).
* Discovery: every INSERT of a user leaves a column NULL that
  `/api/contacts/discover` scans into a string (`server/main.go:901`), so every row is
  skipped and nobody is ever found. `MVP_TEST_GUIDE.md:126` expects the users to
  appear, and `FEATURES_IMPLEMENTED.md:37` shows an answer with a null e-mail. No run
  is spent on it: `NobodyIsFound` proves it for every instance.
* Prekeys (`accounts`, `NoPrekeyLost`): `/v1/register` decodes one-time prekeys without
  padding and skips those that fail, and `server/client.go:110` sends them padded.
* Retries (`offline`, `FailedIsFinal`): `mark_failed` takes a row out of what
  `get_pending_messages` selects, so one failed retry is the last one, and the
  limit of ten is never reached; `README.md:651` describes retries with exponential
  backoff.

One more disagreement is stated as a property and can be seen by hand:
`NoReplayInSession` in `MCRestart.cfg` with `SPECIFICATION ReopenSpec`. `initialize`
keeps `skipped_message_keys_`, and a key kept from the earlier session opens a
repeated envelope that the new session has opened with its chain, so the
application sees it twice within one session.

`FEATURES_IMPLEMENTED.md:18` says a verification "creates user if new"; the handler
makes a new id each time, and nothing marks a code as used, so one phone may come to
have several users; no property is spent on it.

## 4. What is proved

Every theorem is about the `Spec` of its module (without the fairness of the
liveness runs, or where `Spec` has it, not using it) and holds for every value of the constants that
satisfies the module's named assumptions. TLC evaluates those assumptions in the runs.

Every invariant and every action property that a passing run checks, and both
refinements, are stated by a theorem; what is only model-checked is liveness (below).

`DispatcherProofs` proves, for `Spec` and every value of the constants:

| Theorem | Says |
|---|---|
| `Invariance` | the inductive invariant `IInv` |
| `TypeCorrect` | `TypeOK` |
| `AtMostOnceHolds` | no application is shown a message twice |
| `NoStrandedHolds` | every envelope not yet opened opens when it arrives |
| `SkippedAreMissingHolds` | the keys put aside are those of the missing messages |
| `OneKeyPerSessionHolds` | a device seals no two envelopes to one contact with one key |
| `KeysCoincideHolds` | two envelopes have one key exactly if they are the n-th of sessions with one root key |
| `SingleDeliveryImplements` | `DeliverySpec => Spec`: all of this holds over a transport that delivers once |
| `Refinement` | `Spec => Channel!Spec`, steps included |

and for `RestartSpec`:

| Theorem | Says |
|---|---|
| `RestartInvariance` | the inductive invariant `RestartInv` |
| `UnturnedLinkWorksHolds` | two ends that agree on the id and have not turned can talk, whatever restarted |
| `NoReplayInSessionHolds` | no session shows a message that it has decrypted before |

Assumptions: `ContactsAssumption` (contacts are pairs of different devices),
`BoundsAssumption` (the bounds are numbers), `SessionAssumption` (no device has the
empty id, no drawn key pair is the empty key, and an HMAC is not the empty session id,
also when it hashes the empty id). TLC evaluates all of them in the runs.

**The invariant.** None of these properties is inductive: whether an envelope
opens depends on chain keys, positions and skipped keys all agreeing. `IInv` says
that a ratchet has no state of its own. `SessionInv`: the ratchet of d for e is
`RatchetOf(d, e, sent, pos, last, missing)`, a function of how many messages d has
sent, the position of its receiving chain, whether it has heard from e, and which
messages below that position it has not opened. `NetworkInv`: every envelope is
the n-th of its session for some n below `sent`. `SentInv` and `OpenedInv`:
nothing is sent or opened without a session. `HandedInv`: what is shown has been
opened. With `AtMostOnce` itself and the shapes of the variables this is
inductive.

**The argument.** `Symmetry` gives both ends of a session the same keys and id;
`KeyInjective` and `SessionIdInjective` tell keys and sessions apart. Lemmas about
the operators of `Ratchet` (`SentRatchet`, `FirstRatchet`, `PreparedRatchet`,
`DecryptRatchet`, `StrangeEnvelope`) compute each method on a ratchet of the
form `RatchetOf`; `ReceiveEffect` puts the cases of `on_raw_message` together: an
envelope of another session changes nothing, one already opened changes at most
`lastRemote`, a new one opens. One lemma per action then preserves `IInv`, and
the properties follow from it. `SendPosts` and `ReceiveTakes` map the two steps
that matter to `Post` and `Take`; the others stutter.

**Restarts.** With restarts `IInv` is false: a peer of a new process follows its new
public key and turns, alone, and from then on a ratchet depends on which keys it has
seen in which order. `RestartInv` gives up saying what a ratchet is and says which keys
it can hold. Until it turns, both its chains are the common one, which both ends
derive from the root secret; once it has turned, its chains are labelled by direction
(`GoodRatchet`), and an envelope carries a key of the common chain under its own
number or one labelled SendChain (`SealedBy`). So a turned sender and a turned receiver
never meet by accident. `Heard` is what `UnturnedLinkWorks` needs: an unturned
receiver has heard from one key pair of its peer only, and if that is the current one,
not from beyond what the peer has sent, so the next number is not behind its chain.
`UsedInv` is what `NoReplayInSession` needs: for each message opened, the session
neither holds nor can still derive the key of its envelope (`HasKey`), whatever it
follows, turns or puts aside later. `FollowEffect` computes a turn of the DH ratchet,
and one lemma per action preserves the invariant. It is not true of `ReopenSpec`, where
`initialize` sets the chains back.

### The other modules

| Module | Theorems | Properties |
|---|---|---|
| `PairProofs` | `PairInvariance`, `SameStepsSameRootHolds`, `AheadOpensHolds`, `SteppedIsMuteHolds` | all of run `pair`; that nothing sealed after a step opens |
| `HubProofs` | `ClientInvariance`, `ClientsAreLiveHolds`, `LeakedWriterWasReplacedHolds`, `RelayInvariance`, `RelayTypeCorrect`, `RightRecipientHolds`, `ConservedHolds`, `OneStampedCopyHolds` | all of run `relay` |
| `OfflineProofs` | `OfflineInvariance`, `AccountedHolds`, `DeliveredWasSentHolds`, `ResentOnlyIfUnmarkedHolds`, `OfflineTypeCorrect`, `FailedIsFinalHolds` | the safety of run `offline` |
| `TransportProofs` | `FifoHolds`, `NoLostWakeupHolds`, `TransportTypeCorrect`; `MutualExclusionHolds` | the safety of run `transport`; what the dispatcher's mutex is for |
| `WebSocketProofs` | `InOrderHolds`, `StuckOnlyByWakeupHolds`, `ClaimedOnceHolds`, `WebSocketTypeCorrect` | the safety of run `websocket` |
| `AccountsProofs` | `PrekeyInvariance`, `PrekeyOnceHolds`, `NoPrekeyLostHolds`, `AccountsTypeCorrect`; `NobodyIsFound` | the safety of run `accounts`; that no discovery finds anyone |
| `MLSGroupProofs` | `GroupInvariance`, `IndexFitsHolds`, `OrphansAreDuplicatesHolds`, `GroupRefinement` | all of run `mls` |

* **Pair.** As in `DispatcherProofs`, a ratchet has no state of its own:
  `PairRatchet(s, n, out, in, ...)` is a function of the steps taken, the two
  counters and the keys put aside (`RatchetInv`), an export is one of these with its
  counters (`BackupInv`), and every envelope carries a key of a sending chain
  (`WireInv`). That no key put aside comes from a chain labelled SendChain, and that
  before the first step all of them lie below the counter (`AsideInv`), makes the three
  properties follow.
* **Hub.** `ClientsAreLive` is not inductive: `unregister` closes the channel of
  whatever client is registered. `StartedInv` (a closed channel or a writer belongs to
  a connection that has come to `register`) and `WriterInv` (an open writer's connection
  is in the map or has been replaced) close the gap; `replaced` is the record of what
  `register` overwrote, so the writers left behind are exactly those of replaced connections.
  For the messages, `RelayInv` says where each copy is. A place is a goroutine, a queue,
  a channel or what a socket got; a stamped copy, or an answer, is in at most one place
  (`OnePlace`) and there at most once (`OnceInv`); a message still sent raw has no such
  copy yet, and one goroutine sends it (`RawInv`); the goroutine started for a payment
  sends nothing but its answer (`AnswerInv`). So every step moves a copy (`MoveCopies`),
  makes the first one (`StampCopy`) or leaves them all where they are; what lies in a
  channel without a writer is counted as lost (`DeadInv`). `ChannelInv` and
  `RightInv` tie the client a push looked up to the recipient, for as long as the push
  takes. That connections and messages differ is an assumption because `task` is
  indexed by both.
* **Offline.** The retry thread works on a copy. `BatchInv` and `VerdictInv` tie
  the copy and the pending update to rows of the same id, and `SentInv` counts: what is
  pending, or still in the copy, has been sent only as often as its mark was
  lost. With `RowsInv` (a row lies under its message's id) `Accounted` and
  `DeliveredWasSent` become inductive. `CopyInv`: what is still in the copy, and what is
  about to be marked, is in the table and pending, since only the retry thread makes a row
  anything else and a clean-up spares what is pending. Hence `TypeOK`, and
  `FailedIsFinal`: a message marked failed is in no copy again.
* **Transport.** `Fifo` needs that the hand is empty unless the worker calls back
  (`HandInv`). `NoLostWakeup` needs its own condition for the step before
  falling asleep: nobody can push then, so only a stop can make the test stale.
  `MutexInv`: who holds a dispatcher's mutex is who is between its lock and its unlock.
* **WebSocket.** `OrderInv`: the queue holds the messages accepted last, in order;
  the hand is empty or just before them; the shared handle holds an older message,
  but none older than what the server has. So however polls and messages mix on
  the handle, the server sees no message after a later one. `WakeupInv`: a sending
  thread about to sleep has an empty queue, and if `running_` was reset meanwhile, the
  notification of that stop is still to come or was missed. `OnceInv`: the handle is set to
  another request than the thread's own only after an overlap with a poll (`HandleInv`),
  and `CountInv` keeps count: what has reached the server of a message, and what may
  still be performed of it (`Left`: the request under way of the sending thread, and
  that of a poll, while the handle holds the message), together never exceed its budget, two for a message
  carried and not covered and one for the others.
* **Accounts.** `FetchInv`: a fetch between its SELECT and its COMMIT holds SHARED, and the
  row it selected is in the table. A commit needs that nobody else holds SHARED, so no other
  fetch is between the two when the row goes. `RowsInv`: ids and keys are unique.
  `NoPrekeyLost` is itself what makes the keys of a new registration new. `LockInv`: the
  request that writes is the one with RESERVED, and only a fetch in the middle of its
  transaction has SHARED, so every path that ends a request gives back what it holds.
* **MLS.** `Fits` and `Accounted` of each group, with a lemma on what erasing a leaf
  does to the positions behind it, and `EnvelopeInv`: the key of an envelope was made
  in an epoch that has begun, from the leaves of that epoch.

Some theorems say how far the findings reach, for all constants: `KeysCoincideHolds`
for `key_reuse`, `SteppedIsMuteHolds` for `stepped`, `LeakedWriterWasReplacedHolds`
for `reconnect`, `NobodyIsFound`, `NoPrekeyLostHolds` and `FailedIsFinalHolds` for the
others.

**Only model-checked:** the liveness properties (`EveryMessageOpens`, `QueuedIsTried`,
`DeliveredIsHandled`, `StopReturns` of both transports, `Answered`), since the prover
reasons neither about fairness nor about ENABLED. Nothing is claimed of `ReopenSpec`.

## 5. Not modelled, and why

* Mesh network: its peers are simulated, and it has no effect on the program.
  `send_packet` is called by `process_mesh_packet` only, which acts on packets
  received, so nothing ever queues the first one; and `check_connectivity` asks for
  peers only when `transport_connected`, a constant `true`, is false. What is left
  of it, that a peer may have internet, is an input of `OfflineSender`.
* The group half of the Dispatcher: nothing in the program creates a group in its
  `mls_`, so the branch cannot be reached; `MLSGroup` models the manager on its own.
* A callback that calls the Dispatcher again while its mutex is held: the
  repository's callbacks only print (`clients/desktop/main.cpp:41`).
* Connecting and disconnecting in-memory transports at run time, and replacing
  their callback.
* Which registration the parts of a key bundle come from: a second registration
  of an id keeps the earlier one's prekeys, so a bundle can mix the two; the model
  reaches that state, and nothing in the repository says what should hold.
* Serialization (`envelope.cpp`) and the AEAD: taken as exact inverses; a garbled
  envelope is one that does not open.
* Message numbers from a header that no sender wrote: bodies and headers on the
  network are those that devices sealed.
* X3DH: a stateless computation outside the build, which nothing calls:
  `create_session_with` is given its root key by the application (`Root`).
* Node demo relay, command-line client, Android user interface and JNI bridge:
  no state beyond what the relay's model has in its environment.
* The read-only routes `/health` and `/stats`, statistics, logging, HTTP formats.

## 6. Plan

Done, in this order: the core (`Ratchet`, `SecureChannel`, `Dispatcher`) with its
proofs; the raw ratchets; the relay; the offline queue; the in-memory transport;
the WebSocket transport; the accounts; the groups; proofs for each of them.
What is left:

1. Proofs: what holds of `ReopenSpec` once `skipped_message_keys_` is the only thing
   that a second `initialize` keeps, and steps towards the liveness properties that
   need no fairness (which thread can move in which state).
2. A composition of `OfflineSender` with a transport that drops, so that
   "delivered" is compared with what the peer has opened rather than with a
   `send` that returned.
3. Larger instances of `restarts` and `relay`: a second restart, a third user.
