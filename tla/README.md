# TLA+ models of dogenet

DogeNet is the gossip daemon of a Dogebox: it keeps connections to peer nodes,
exchanges signed announcements with them, relays messages between peers and
local protocol handlers, and remembers in SQLite which nodes exist. This
directory holds TLA+ models of it, the TLC instances that check them, and
proofs checked by TLAPS. All paths below are relative to the repository.

## The system

| component | source | state | operations |
|---|---|---|---|
| peer connections | `internal/netsvc/service.go`, `peer.go` | `connections`, `connectedPeers`, `lockedPeers`, `listen` under `NetService.mutex`; `newPeers` channel; per connection the socket, `peerPub`, the `send` channel | `Run`, `acceptIncoming`, `findPeers`, `choosePeer`, `seedFromDNS`, `receiveFromPeer`, `sendMyAddress`, `sendToPeer`, `trackPeer`, `adoptPeer`, `closePeer`, `AddPeer`, `Stop` |
| message relay and gossip | same files | `send` channel of each peer (100 messages), `encAnnounce` | `forwardToPeers`, `gossipRandomAddresses`, `ingestAddress`, `ReceiveAnnounce` |
| handler connections | `internal/netsvc/handler.go`, `service.go` | `handlers`, `socket`, per handler its channel and an unbuffered `send` | `acceptHandlers`, `receiveFromHandler`, `sendToHandler`, `forwardToHandlers` |
| announce service | `internal/announce/announce.go` | `nextAnnounce`, one timer, the `changes` channel | `Run`, `loadOrGenerateAnnounce`, `generateAnnounce`, `fetchPublicAddress` |
| store | `internal/store/sqlite.go` | tables `config`, `announce`, `node`, `chan`, `channels`; one connection | `doTxn`, `AddNetNode`, `ChooseNetNode(Msg)`, `SetAnnounce`, `SetAnnounceOwner`, `AddChannel`, `TrimNodes`, ... |
| store trimmer | `internal/store/trimmer.go` | none (day counter in `config`) | `TrimNodes` every hour |
| REST API | `internal/web/web.go` | none | `addpeer` calls `NetService.AddPeer`; `nodes` reads the store |
| start-up, flags | `cmd/dogenet/main.go`, `pkg/dogenet/service.go` | none after start | parse addresses and keys, wire the services |
| governor | a library | services and their context | starts `Run`, cancels the context, calls `Stop` |

How they interact. Everything in `NetService` runs concurrently: one goroutine
per listener, one each for `findPeers`, `seedFromDNS`, `gossipRandomAddresses`
and `acceptHandlers`, two per peer and two per handler. They share the tables
under one mutex. The announce service hands its announcement over by a
call (`ReceiveAnnounce`); handlers report to it over the channel
`announceChanges`; the REST API reaches `findPeers` over `newPeers`. Announce
service, peers, trimmer and REST API share the store, which has one connection.

What is hard about it:

* **Two connections to one node.** Nodes dial each other, and a DNS seed may be
  a node already known by key. A slot of `connectedPeers` is looked up or taken
  in four critical sections (`havePeer`, `trackPeer`, `adoptPeer`, `closePeer`)
  of different goroutines, and `closePeer` runs twice per connection.
* **The handshake registers early.** An inbound peer and a seed hold their slot
  before the message that named them was accepted; every later error
  return has to give it back.
* **Shutdown.** `Stop` closes a list of connections that accept and dial are
  adding to; goroutines block in reads, in `select` and in polling loops.
* **Silent remotes.** No read has a deadline, and keep-alive is off for inbound
  connections.
* **The timer of the announce service** is stopped, drained and reset by each
  change; draining a timer that does not run blocks the loop for ever, and
  with it every handler.
* **What survives a crash.** An announcement is stored, this node's own row
  is updated and the announcement is sent in three steps; the owner is
  in a column of the same row written by another transaction.
* **Transactions** share one connection and are retried inside `doTxn`, with
  results that an attempt which did not commit has left behind.
* **Messages** are dropped at full queues, overtaken by the address exchange,
  which writes to the same socket, and by gossip read from the store before a
  change and sent after it. Handlers take a message only while they wait for one.
* **Records** circulate: each node stores what differs from what it has, older
  or newer, sends it on, and keeps it for 30 days of its own.

## What makes each component correct

| component | properties |
|---|---|
| peer connections | a relaying peer holds its slot; one served connection per node; no slot is leaked, stolen, or emptied by another connection; never connected to itself; `Stop` leaves no socket behind and everything winds down; a peer that has gone makes room |
| announce service | what peers were told is current or about to be replaced; never an announcement of something else found in the database; the loop never blocks; owner and announcement survive a restart; accepted changes are announced |
| relay and gossip | the first message on a connection is the announcement; a peer that was told misses no later one unless its queue was full, and then hears it by gossip; no record outlives the node it is about for ever |
| handlers | a message is reported as delivered only if a handler takes it; a handler hears its reply first, then its own channel only; closing and shutdown leave nobody behind |
| store | a call takes effect once, as a whole, or fails and changes nothing; a node's channels are those of its stored announcement; expiry counts days online |

## Modules

| module | what it is |
|---|---|
| `PeerRegistry` | abstract specification of `connectedPeers`: a slot per key, taken only when free, given back only by its own, closed connection |
| `PeerExchange` | abstract specification of the exchange of addresses: the stages of a connection, and at which it is registered |
| `NetService` | the connection table and every goroutine that works on it |
| `MCNetService` | values for the constants of `NetService` |
| `Announce` | the announce service, the binding of handlers, and the rows of the database that outlive the process |
| `MCAnnounce` | the same for `Announce` |
| `NodeTables` | the tables of the database, and what each call does to them, as functions |
| `AtomicStore` | abstract specification of the store: calls take effect one at a time |
| `StoreTxn` | `doTxn` over the single connection, with conflicts, failures, crashes and time |
| `Handlers` | protocol handlers, from `Accept` to `Stop`, and the messages forwarded to them |
| `Delivery` | how this node's announcement reaches its peers |
| `Gossip` | a network of nodes, and the record of one of them |
| `MCStore`, `MCHandlers`, `MCDelivery`, `MCGossip` | instances for TLC |
| `NetServiceProofs`, `StoreTxnProofs`, `HandlersProofs`, `AnnounceProofs`, `DeliveryProofs`, `GossipProofs` | theorems about the module each is named after, with proofs |

`StoreTxn` and `AtomicStore` extend `NodeTables`; `StoreTxn` implements
`AtomicStore`, and `NetService` implements `PeerRegistry`. `NetService` and `Delivery` are
two views of the same goroutines, and both implement `PeerExchange`: the stages at which
`Delivery` writes, queues and registers are those that the goroutines, races and shutdown of
`NetService` go through. The others share no
variables. Each takes from its neighbours what the neighbour's properties say: `Gossip` treats sending as `Delivery` does and the store as atomic, and
`Announce` treats a transaction as one step, as `AtomicSpec` allows.

### NetService

One action is one critical section of `NetService.mutex`, together with what the
goroutine does on its own data before it meets the next shared state. Where a
goroutine stands is a program counter: `acceptPc`, `findPc`, `seedPc` for those
of the service, `recvPc[c]` and `sendPc[c]` for the two of connection `c`.

* A connection is a fresh element of `Conns`. `kind` says where it came from: `"known"` (dialled with the key of a
  node), `"seed"` (dialled, key unknown) or `"inbound"`. Between accept or
  dial and `trackPeer` it is `"held"` by the goroutine that made it.
* `recvPc` follows `receiveFromPeer`: an outbound peer sends its announcement
  (`announce`), waits for the first message (`await`), registers if its key was
  unknown (`adopt`), is verified (`verify`), then relays. An inbound one waits
  first and announces last. `closing` is between `conn.Close()` and the mutex
  of `closePeer`, where the socket is closed and the slot still taken.
* A socket may be closed by the remote (`remoteClosed`), or lose it silently
  (`dead`), at any time. Writes to it may still succeed for a while.
* Dial, listen, lookup, read and the store fail or succeed at will; the
  first message may come from the node of any key, this node's own included.
* The 30 seconds of `lockPeer` may end at any time.

Left out: what is relayed after the handshake (see `Delivery`), IP
addresses (only "valid" and "my own" are tested), logging.

### Announce

`pc` follows `Run`: `reflect` (asking for the public address), `load`
(`loadOrGenerateAnnounce`), `select`, and the three steps of
`generateAnnounce`: `sign`, `self`, `send`. A transaction is one action, and `Crash` may come between any
two: it clears memory and keeps `row` (the announce row), `chanTable` and
`ownNode` (this node's row of `node`). The timer has been set short (`soon`) or
long (`daily`), has `fired`, or is `off`; that a drain of an `off` timer blocks is
a guard of `RestartTimer`. A handler
binds, stores its channel and, for the identity channel, reports over
`changes`. The `INSERT` of `SetAnnounce` that SQLite refuses is modelled as it
is: nothing is stored while there is no row. A channel that expires leaves `chanTable`
without a report, as one that any other handler binds enters it without one: the two ways in
which `announce_channels` can find the announcement wrong.

The time inside an announcement and its signature are left out: `fresh` says
whether a stored announcement is younger than 24 hours. Binding again after a
crash is a new `Bind`. What a handler does after its bind is in `Handlers`. `ChangePublicAddress` has a case in `Run` and no sender in the
program yet.

### StoreTxn

`pc[c]` is where a caller is in `doTxn`: `begin`, `work`, `commit`. `conn` is
who holds the only connection of the pool. The closure works on the
tables as they are when it runs and leaves its result in `view`, `changed` and `read`;
`Commit` makes it the committed `db`. Each of the three may meet a conflict,
fail, or succeed. After a conflict `Retry` starts again, up to `Limit` times. `continue` in
`doTxn` does not roll back: a conflict in `Work` leaves `conn` with the caller.
Only closures that return SQLite's errors unwrapped get there
(`ReturnsRawErrors`); the others fail at once. (`SetAnnounce` and
`SetAnnounceOwner` return them unwrapped too; their rows are in `Announce`.)
`today` is the date; `written` is a
history variable for `NoEarlyExpiry`. Dates go forward only, by any number of days: a clock
that is set back, which would advance the day counter (it does so whenever the date
differs), is not modelled.

The abstract `AtomicStore` allows one thing a caller might not expect, because
the code does it: `AddNetNode` may report a change it did not make, if an
earlier attempt found the record missing or the commit failed. `ingestAddress`
then rebroadcasts the record.

### Handlers

`acceptor` follows `acceptHandlers`; `socket` is the listening socket and
`known` whether `ns.socket` has been set, which `acceptHandlers` does without
the mutex that `Stop` reads it under. `receiver[h]` and `sender[h]` are the two goroutines of a
handler; both may be in `closeHandler` (`close`, then `untrack` under the
mutex). A send to `hand.send`, which has no buffer, succeeds only if the sender
waits in its `select`, so `ForwardToHandlers` moves it from `select` to `write`. `AcceptFails` is the
`log.Fatal`: whatever the error, it ends the process. It has to come once `Stop` has closed the
socket, and may come before. `ReceiverFails` is every error return of `receiveFromHandler`,
a message that cannot be parsed on an open connection among them.

### Delivery

Announcements are numbered. `Generate` stores one as this node's own row (or
fails to), `SetAnnounce` and `ForwardAnnounce` are the two critical sections of
`ReceiveAnnounce`. `stage[c]` is the part of `receiveFromPeer` at which
something is sent: `poll` and `write` are `sendMyAddress` before and after it read
the announcement. All other messages are one value, `Other`; `wire` keeps
what the properties need of what was written while the connection is open. Forwarding by `ingestAddress`,
handlers and the gossip of other nodes' records is `RelayOther`. `senders` are the
connections whose `sendToPeer` is in its loop.

`Cancel` begins a shutdown, at any point. It ends the poll of `sendMyAddress`, which then writes an
empty message and reports success (peer.go:306); a peer that was waiting for this node's
announcement has been told nothing and goes on to `relay`. `FirstIsAnnouncement` says that it is not sent
what waits in its queue either: `sendToPeer` tests `Stopping()` before its first
`select`. A sender that is already in its `select` may still take one message. That
connections are closed in a shutdown is a `Close` here; how `Stop` does it is in `NetService`.

### Gossip

One node, the origin, signs versions of its record; the others store one
version each, for `NodeDays` after it was received, and refuse what was signed
more than `MaxAge` days ago by closing the connection. A queue is from one node to
another. `TrimNodes` runs once a day on every node: a node that is off for
days keeps its records longer, as sqlite.go:333 says, and the bound of `RecordsAgeOut` grows by these days.

## Runs

| run | instance | checks |
|---|---|---|
| `net_inbound` | 2 connections, 1 listener, a seed and one stored node, all of which may be one node; 731 000 states | `RelayingIsRegistered`, `OnePeerPerKey`, `SlotsAreHeld`, `StopClosesAll`, `PeerPubIsFinal`, `ExchangeSpec` |
| `net_seeds` | 2 connections, a seed, two stored nodes of which one is this node, two inputs of the REST API, `newPeers` of capacity 1; 943 000 states | `TypeOK`, `NotConnectedToSelf`, `RegistrySpec` |
| `net_live` | 1 connection of any origin, with fairness; 83 000 states | `ShutdownCompletes`, `ClosedPeerLosesSlot` |
| `announce` | 2 owners, 2 channels, 1 handler that binds twice, the reflector, a `changes` channel of capacity 1, a failing transaction and a crash, with fairness; 285 000 states | `TypeOK`, `TimerIsArmed`, `AnnouncedIsCurrent`, `OwnerIsStored`, `SentIsStored`, `SendsCurrent`, `ChangesAreAnnounced`, `HandlersGetThrough` |
| `store` | 2 callers, 2 nodes, 2 announcements, 1 channel, 3 days, 2 attempts per call, any number of crashes, with fairness; 265 000 states | `TypeOK`, `ChannelsMatchPayload`, `KeptInWindow`, `NoEarlyExpiry`, `AtomicSpec`, `ReturnsOrAbandoned` |
| `handlers` | 2 handlers, 2 channels, 1 message, an `Accept` that fails and a shutdown, both at any time, with fairness; 305 000 states | `TypeOK`, `HandlerHears`, `TakenIsWritten`, `ServedIsTracked`, `NothingServedAfterStop`, `ClosedHandlerIsForgotten`, `ShutdownClosesHandlers` |
| `delivery` | 2 connections of any origin, 2 announcements of which one may fail to be stored, 1 other message, queues of 1, a shutdown in place of the second announcement, with fairness; 716 000 states | `TypeOK`, `FirstIsAnnouncement`, `AnnouncementNotMissed`, `PeersHearCurrent`, `ExchangeSpec` |
| `gossip` | 3 nodes connected to each other, 2 versions, records accepted and stored for 1 day, queues of 1, with fairness; 455 000 states | `TypeOK`, `RecordsAgeOut`, `LeftNodeIsForgotten` |

Four more runs find counterexamples, one for each finding below.

A definition whose comment begins with "Slip" is not part of a model. It is what the definition
after it would be with a plausible mistake in the code, such as a check left out; with it in place
TLC finds the property it is about violated (`mutants` in `PROJECT.json`).

Why the bounds are enough. The races of `NetService` are between two
connections of one key, and `net_inbound` has two with the same remote: an old
connection whose second `closePeer` is late beside a new one, an
inbound beside an outbound, a seed beside either. A closed connection is not reused, so two
connections are also two in a row. For more connections, keys and listeners
there are the proofs. `net_live` has a single connection, which can be of each kind and
fail at each stage; what two connections do to each other is safety, and is
checked and proved there. `QueueCap = 1` makes the channels full after one
send. In `Announce`, two binds give a second owner, or a new address, in
the middle of announcing the first; one crash and one failing transaction may come between any two steps, and
a second crash would start again from a database the first can leave. A handler
meets the announce service only through the channel, where its second bind is
as good as another handler.
`MaxBinds` is also what makes changes stop coming, which `ChangesAreAnnounced`
needs: a change every 9 seconds would restart the timer for ever.

In `StoreTxn` two callers are every pair of transactions, and a third could
only wait. Two nodes are what a reused rowid needs; rows
kept for one day, and three days, let a record expire, be kept alive, and meet
a jump of the date. `Limit = 2` gives a retry and the last attempt. In
`Handlers` both handlers may bind to the same channel or to different ones, and
the single message may come at each of their stages. In `Delivery` a queue of
one is full as soon as it holds anything, and with two announcements each can be the
one that is late. A shutdown takes the place of one of them (`Cancel` counts towards `MaxVersion`): it
can begin before there is an announcement, or at any point between the first and the next; the proofs
are for any `MaxVersion`. In `Gossip` a triangle is the smallest network in which a
record can come back to a node that has forgotten it by another way
than it went.

Deadlock is checked for `NetService`, where a new announcement is always
possible, and for `StoreTxn`, `Delivery` and `Gossip`; it is switched off for
`Announce`, where `Run` returns when the context is cancelled, and for
`Handlers`, where the process ends.

### Fairness

Of `NetService`: runnable goroutines run, dialling (30 s), the lookup of `choosePeer`
and sleeps end, and the governor calls `Stop` after it cancelled the context. A
read fails in the end if this node or the remote closed the connection, or if the remote vanished and
keep-alive is on, which is so only for connections this node dialled. A sender
notices a dead peer because `gossipRandomAddresses` makes it write.
Nothing is assumed of what a remote sends, of new inbound connections, of the
REST API, of seeds that answer, or of the announce service; so
`ClosedPeerLosesSlot` is stated for the time after the first announcement, which
`sendMyAddress` waits for. `ShutdownCompletes` is about what `Run` starts and the
model has: the listeners, `findPeers`, `seedFromDNS` and both goroutines of each connection. It does not
cover `gossipRandomAddresses`, a loop that sleeps and tests `Stopping()`, nor a goroutine of
the REST API that is blocked in `AddPeer` on a full `newPeers`, which nobody reads after
`findPeers` has ended and which no context interrupts (service.go:83); `acceptHandlers` and
handlers are in `Handlers`.

Of `Announce`: `Run` goes on, its timer runs out, and a transaction returns. The `select` between
a change and the timer is strongly fair because Go chooses at random among
ready cases, and so is a blocked send of a handler because Go serves waiting
senders in order. The reflector may never answer, and handlers may never bind;
`HandlersGetThrough` is stated for the time after the reflector answered, since
until then `Run` takes no changes and identity handlers wait.

Of `StoreTxn`: callers run, and the pool serves those that wait in order (strong
fairness of `Begin`). Conflicts and failures may come every time, and so
`ReturnsOrAbandoned` does not assume that they end: that the attempts are
counted is what makes a call return. `Abandoned`, a caller that waits for the connection
it holds, is the defect of `store_hangs`; the property says that it is the only way
for a call not to return.

Of `Handlers`: goroutines run and `Stop` follows the cancelled context. The
announce service takes reports until the context is cancelled, and perhaps not
after. A handler need not connect, bind, read what is written to it, write, or close; a
receiver that waits for its handler goes on once the connection is closed. `Accept` fails when its socket has
been closed; that it may fail before is not assumed to happen.

Of `Delivery`: the announce and gossip goroutines run, the random choice of a
record comes to this node's own row again and again, and a peer reads what it is
sent, or the connection closes: all of this until a shutdown begins. Nothing is assumed of the remote's part
of the exchange.

Of `Gossip`: days pass and every node trims its store. Messages and connections
may be lost every time; what is shown does not depend on them.

## What is proved

Each component has a module of proofs. The theorems hold for every value of the
constants that satisfies the assumptions of the component's module: any sets
of connections, keys, callers, handlers or nodes, finite or not, any graph of
connections, any capacities and periods, any value of the bounds. Every
type invariant, safety invariant and action property of the passing runs is a theorem, and so
is every refinement:

| module | theorem | property |
|---|---|---|
| `NetServiceProofs` | `TypeCorrect` | `TypeOK` |
| | `RelayingRegistered`, `OnePeer`, `SlotsHeld`, `NoSelfPeer`, `StopCloses` | `RelayingIsRegistered`, `OnePeerPerKey`, `SlotsAreHeld`, `NotConnectedToSelf`, `StopClosesAll` |
| | `SlotsFreed`, `PeerPubFinal` | the action properties `SlotsFreedByOwner` (which the runs check as part of `RegistrySpec`), `PeerPubIsFinal` |
| | `ImplementsRegistry` | `RegistrySpec`, the refinement of `PeerRegistry` |
| | `ImplementsExchange` | `ExchangeSpec`, the refinement of `PeerExchange` |
| `StoreTxnProofs` | `TypeCorrect` | `TypeOK` |
| | `ChannelsAreThoseOfPayload`, `RowsAreInWindow` | `ChannelsMatchPayload`, `KeptInWindow` |
| | `NothingExpiresEarly` | the action property `NoEarlyExpiry` |
| | `ImplementsAtomicStore` | `AtomicSpec`, the refinement of `AtomicStore` |
| `HandlersProofs` | `TypeCorrect` | `TypeOK` |
| | `ReplyComesFirst`, `TakenMessagesAreWritten`, `ListIsAccurate`, `StopClosesHandlers` | `HandlerHears`, `TakenIsWritten`, `ServedIsTracked`, `NothingServedAfterStop` |
| `AnnounceProofs` | `TypeCorrect` | `TypeOK` |
| | `TimerStaysArmed`, `AnnouncedStaysCurrent`, `OwnerSurvives`, `SentSurvives` | `TimerIsArmed`, `AnnouncedIsCurrent`, `OwnerIsStored`, `SentIsStored` |
| | `NothingElseIsSent` | the action property `SendsCurrent` |
| `DeliveryProofs` | `TypeCorrect` | `TypeOK` |
| | `AnnouncementComesFirst`, `NoAnnouncementIsMissed` | `FirstIsAnnouncement`, `AnnouncementNotMissed` |
| | `ImplementsExchange` | `ExchangeSpec`, the refinement of `PeerExchange` |
| `GossipProofs` | `TypeCorrect` | `TypeOK` |
| | `RecordsAreForgotten` | `RecordsAgeOut` |

In each module the theorem `Invariance` says `Spec => []IInv` for an inductive
`IInv`, and the others follow from it. Its proof has a lemma for each
group of actions, with a step for each conjunct.

### NetService

Assumed is `NetAssumption`: this node's key is a key, `NoPubKey`, `NoConn` and
`NoNode` are none of the real values, the inputs are nodes, the bounds are
naturals.

None of the safety invariants is inductive. `OnePeerPerKey` follows from
`RelayingIsRegistered`: two relaying connections of one key would both be in
the key's slot. That a relaying connection stays in its slot needs that no other
connection can empty it, hence that a slot's holder has the slot's key
(`SlotOK`), and that nothing overwrites it, hence that a connection that takes a
slot holds no other (`SlotOK` again, by the stage it is in). It also needs to be
known from the moment the slot is taken, long before `relay`
(`RegisteredOK`). Which stage a connection is in says whether its socket is
closed and its key known, and that its sender only runs once
`peerPub` is final (`PhaseOK`). `trackPeer` is given a connection that nobody
else has (`OwnedOK`). `StopOK` ties the list of connections to the sockets that are open.

`ImplementsRegistry` maps the registry's `live` to the sockets this node has
not closed and `slot` to `connectedPeers`. Each action is then one of
`Open`, `Claim`, `Close`, `Release`, or a stutter.

`ImplementsExchange` maps a closed socket to `closed` whatever its goroutines still do, and a
connection that is not handed over yet to `new`. A connection is `Registered` if it holds a slot and
its socket is not closed. `closePeer` empties the slot later, and must not find
another connection there: this is where `SlotOK` comes in. That a
connection dialled by its key is registered when it is heard is `RegisteredOK`.

### StoreTxn

Assumed are `TxnAssumption` and `TablesAssumption`: each announcement lists
channels, the periods are naturals and a channel is kept for at least a day,
`NoRow` is not a row, the days are naturals and the first is no later than the
last.

A caller whose transaction is open holds the only connection (`ConnOK`), so what
`Work` computed is still, at `Commit`, what the call does to the committed
tables - although the date may have changed since (`ViewOK`). That gives the
refinement: `db`, `doing` and `answer` are those of `AtomicStore`, `Commit` is the step at
which the call takes effect, and everything else is a stutter, a call, or a return.

`ChannelsMatchPayload` is about rows of two tables joined by a rowid that SQLite
may give again, while `Expire` leaves rows of `chan` behind. It needs that no
two rows of `node` have the same rowid (`OidsDiffer`); that a new row gets one
of its own needs that `NewRowid` is larger than all. `Keys` need
not be finite for this: the stored rowids have a bound (`OidsBounded`), and a
nonempty set of naturals that has a bound has a maximum (`MaxIsLargest`, by well-foundedness).

`NoEarlyExpiry` compares days that `TrimNodes` counted with days that
passed. `Aging` says by how much the day count of a row can have come closer to
that of the tables since the row was written: by the days up to the latest `TrimNodes`, that
day included. Days on which the program did not run are not counted, so the
bound is an inequality. Only a row that was written on the day of the latest
`TrimNodes` is an exception, its first disjunct.

### Handlers

Assumed is `HandlersAssumption`: a message is of a channel, and `Reply`, `NoMessage`,
`NoHandler` and `NoChannel` are none of the real values.

What a handler hears is ordered by the two goroutines of its connection, not by
a lock: `PhaseOK` says that a sender exists only after the receiver wrote the
reply, that it holds a message of its channel while it is in `write` and none
while it waits for one, and that a connection is closed before it is removed
from the list. `AcceptOK` says that the connection that `acceptHandlers` is
about to track is served by nobody yet. `StopOK` says that the contexts are
cancelled before `Stop` runs, so that `trackHandler` refuses, and closes, a connection that
comes late, and that `acceptHandlers` does not wait on a socket that is
still open; what is tracked by then is closed by `Stop`.

### Announce

Assumed are `AnnounceAssumption` and `NothingAssumption`: `Nothing` is neither an
announcement nor a row.

The properties hold at `select`, and need to be carried through the three steps
of `generateAnnounce`. `SignedOK`: from the first transaction to the send, the
row has the announcement that will be sent, unless the transaction failed or there
is no row. `StageOK`: what has been sent, or is being signed, has an address;
without that, a change that finds no address to announce would leave an announcement outdated
and no timer of ten seconds. `OwnerIsStored` is inductive because every transaction on the
row keeps the owner (`AnnounceIsSet`) except the one that sets it (`OwnerIsSet`).

### Delivery

Assumed are `DeliveryAssumption` and `OtherAssumption`: queues have room for a message, and `Other` is no
announcement.

`AnnouncementNotMissed` speaks of connections whose exchange is over; the
invariant follows a connection through the exchange (`TellsCurrent`), where what
`sendMyAddress` has read counts as heard. An announcement is forwarded to
registered peers only, so this needs that every connection but a seed is
registered from the moment it reads (`RegisteredOK`, by stage and kind); and
that `ReceiveAnnounce` sets what it is about to forward (`AnnouncerOK`), so that
who reads too early is told by the queue and who reads late reads the new one.
That `sendMyAddress` is past before the sender runs is `ToldOK`. In a
shutdown it may be past without an announcement, and `ToldOK` says of `senders` that they
have come after one: `FirstIsAnnouncement` holds during a shutdown too.

`ImplementsExchange` joins the two halves of `sendMyAddress` and is the theorem that lets one rely on
what `Delivery` says of connections: the same exchange is proved of `NetService`.

### Gossip

Assumed are `GossipAssumption` - the origin is a node, connections are between two different
nodes, queues have room for a message - and that `NoRow` is not a row.

A stored row can be renewed by a neighbour on any day, so its own remaining time
says nothing of the record. Inductive is the sum of a version's age and of the
days its row has left, at most `MaxAge + NodeDays` after the trim of the day and one more
before it (`Aging`): acceptance sets it to at most that, a day adds one and a trim takes
one. That everything queued and stored has been signed
(`QueuesKnown`, `RowsKnown`) is what makes its age defined. The result does not depend on
the number of nodes, the graph, what is lost, or how often records are sent.

### Only model-checked

The liveness properties: `ShutdownCompletes`, `ClosedPeerLosesSlot`,
`ChangesAreAnnounced`, `HandlersGetThrough`, `ReturnsOrAbandoned`,
`ClosedHandlerIsForgotten`, `ShutdownClosesHandlers`, `PeersHearCurrent` and
`LeftNodeIsForgotten` are stated under fairness, and the provers treat neither
fairness nor `ENABLED`. That the four findings are reachable is shown by TLC's
counterexamples.

## Findings

| run | what it shows |
|---|---|
| `net_find_peers_ends` | `findPeers` returns when `trackPeer` refuses a peer, also when the reason is that the peer connected inbound during the dial: from then on the node never looks for peers, and `AddPeer` fills its channel and then blocks REST requests |
| `announce_fresh` | the `INSERT` of `SetAnnounce` has four columns and three values: on a fresh database the announcement is not stored |
| `announce_channels` | channels bound by other handlers than the identity handler are not announced, and channels that expire stay announced; the counterexample goes through an expiry |
| `store_hangs` | a conflict that a closure returns unwrapped is retried without a rollback while the pool has one connection: the caller, and then every caller, waits for good |

Other facts met while modelling, each visible in an action of a module, for which no run is
kept:

* the connection that `trackPeer` refuses as a duplicate stays in `connections`
  until shutdown (service.go:392-396);
* an inbound connection whose remote vanishes before its first message is kept
  until shutdown: keep-alive is off (service.go:112) and there are no pings;
* after a crash between the two transactions of `generateAnnounce` the restart
  re-uses the announcement and does not update this node's own row
  (announce.go:183, 212);
* a stored record outlives the 30 days for which peers accept it, so that a node
  may be disconnected for gossiping from its own store (peer.go:247);
* `AddNetNode` replaces a newer record by an older one, and the two may displace
  each other while both are accepted (peer.go:254);
* peers that still wait for a return announcement are not excluded from what
  `ingestAddress` forwards, as peer.go:201 says; it waits in their queue, and
  `AnnouncementNotMissed` depends on that;
* while the reflector does not answer, handlers that report wait (announce.go:231).

## Plan

Done: every component in the list of modules, with proofs of all its safety
properties. What is left:

1. `Announce` and `Delivery` share `ownNode`/`ownRow`, the row of this node that gossip sends. A
   property that relates the two, over a crash between the transactions of
   `generateAnnounce`, would say for how long peers can be sent an outdated record.
2. The safety half of `LeftNodeIsForgotten`: that a row is not written again once
   its version is `MaxAge` old, as an action property with its theorem.

## Not modelled

* the REST handlers that only read, `NetStats`, `NodeList`, the empty
  `SampleNodes...` functions, `UpdateNetTime` (never called), schema migrations;
* flags, key loading and wiring (`main.go`, `pkg/dogenet/service.go`): run once
  before any service, by one goroutine, with no state that outlives them. (In
  `--peer`, `parseIPPort` is given the whole argument, key included, main.go:100.)
* the governor, a library outside the repository, but for the order in which it cancels
  the context and calls `Stop`. `main.go:165` asks it for `Restart(1 * time.Second)`. `NetService.Run`
  returns without a shutdown when no listener could be opened, or when all have failed; were it called
  again, there would be a second `acceptHandlers`, `findPeers`, `gossipRandomAddresses` and
  `seedFromDNS` beside the first, which do not end with `Run`. The models have one `Run`;
* a clock that is set back (see `StoreTxn`);
* `spec/address.go`: encodings of identifiers that nothing in the program depends on;
  addresses are parsed by the `dnet` library, outside this repository;
* the wire format and signatures (`doge` and `gossip` libraries), SQL as such;
* addresses a record may not have (private, loopback) and timestamps from the
  future: both are refused as a record that is too old is.
