# A TLA+ model of an ACN node

open-acn is the Agent Communication Network: nodes (peers) form a libp2p DHT and
carry envelopes between agents.  An agent is attached to a peer in one of four ways
(the agent of the node itself, a delegate client over TCP, a relayed node over a
libp2p stream, a mailbox polled over HTTP), and a peer finds an agent of another peer
through the provider records of the DHT.  This directory models what a peer
(`dht/dhtpeer`) does with its connections, envelopes, acknowledgements, lookups and
announcements, what a relayed node (`dht/dhtclient`) does with its relay, and what
either does with its own agent (`aea`): the concurrent part of the program, where
goroutines share maps, channels and locks.

## 1. Inventory

| Part | State | Operations | What makes it correct |
|---|---|---|---|
| Delegate service, intake of envelopes (`handleNewDelegationConnection`, read loop) | `syncMessages` (a channel per (to, sender) pair) | read an envelope, make the channel and its goroutine, non-blocking send, `Close` closes the channels | one goroutine per pair, order per pair, no envelope lost without an error |
| Envelope routing (`RouteEnvelope`) | none of its own; reads every map | mailbox, agent of the node, delegate, relay, DHT lookup and stream to another peer, move to the slow path | an envelope has one outcome; "no error" means that the target has it |
| Slow path (`slowEnvelopeSendLoop`) | `slow_queue` | receive, second routing with long timeouts, give up | order, nothing stuck, ends on `Close` |
| Incoming envelopes (`handleAeaEnvelopeStream`, `HandleAeaEnvelope`) | none | check, hand to the agent or a delegate client, answer a status | status agrees with what happened |
| Delegate sessions and acknowledgements | `agentRecords`, `tcpAddresses`, `acnStatuses`, a gauge | register, announce, read statuses, remove; `AddAcnStatusMessage`, `AwaitAcnStatus` | the maps lead to the live connection; a status answers for its envelope |
| Address announcement (`RegisterAgentAddress`, `handleAeaNotifStream`, `New`) | `enableAddressAnnouncement`, a WaitGroup, `addressAnnouncedMap` | register over relay, delegate, mailbox; notification of a new peer; start | every registered address is announced once announcements are possible |
| Mailbox service (`mailbox.go`) | sessions, records, lists of envelopes | register, unregister, send, poll, `RouteEnvelope` | a mailbox lasts as long as its session, envelopes wait in order |
| Storage of agent records | a file of records | append, load at start | a restart finds what was registered |
| Lookup and proof of representation | none | `lookupAddressDHT`, `HandleAeaAddressRequest`, checks of signatures | an answer is accepted only from a peer that represents the agent |
| DHT client (`dht/dhtclient`) | connection to one relay, the Notifee | bootstrap, register, reconnect, look up and send through the relay, close | a registration lasts, a lost connection is restored, "no error" means delivered |
| AEA API and pipes (`aea`) | `send_queue`, `out_queue`, `acn_status_chan`, the pipe | connect, listening and sending loop, acknowledgement, `Put`, `Stop` | what is acknowledged is routed, in order; no loop hangs; the loops end with the agent |
| Node (`libp2p_node.go`), monitoring, utilities, generated code | | start-up, exporters, cryptography, encodings | |

Interactions.  The handlers of delegate connections hand envelopes to the goroutine of a
pair through a channel; that goroutine, the goroutine of the node's agent and the HTTP
handlers call `RouteEnvelope`; `RouteEnvelope` writes to a delegate connection and waits
on the channel that the *handler* of that connection fills; it moves envelopes to
`slow_queue`; registrations of all services and the notification streams call
`RegisterAgentAddress`.  A peer that looks an agent up asks other peers, whose handlers
may look the agent up themselves before they answer.  A node takes the envelopes of its
agent from `out_queue` and puts those for it into `send_queue`; the statuses of the agent
come through the same pipe as its envelopes.  A relayed node calls its relay for
registration and lookup, and libp2p calls it back when a connection is lost.  All of these
are goroutines, the maps have a lock each, and almost every operation is a test in one
lock region and an action in another.

The hard behaviours are therefore: reconnections that overlap with the clean-up of the
previous connection, check-then-act on `syncMessages`, on the length of `slow_queue`, on
sessions and on the announcement flag; statuses without an identity; retries after a lost
status; blocking sends outside of locks; loops that wait for each other; `Close` and
`Stop` under running goroutines; restarts of the relay; failures half way through a
registration; providers that have lost the agent and ask each other; reads that return
less than was asked for; records that a crash cuts in the middle.  `PROJECT.json` lists
them, each at its line with the properties that are about it.

## 2. Modules

| Module | Models | Steps are |
|---|---|---|
| `EnvelopeRouting` | intake, pair goroutines, `RouteEnvelope`, slow path, far end of the envelope stream, `Close`, the start of the node's agent | one lock region, channel operation or network exchange |
| `Delivery` | what a peer promises about an envelope; abstract, implemented by `EnvelopeRouting` | one change of what clients and targets can see |
| `DelegateSession` | the connections of one address: registration, maps, statuses, waits, clean-up, gauge | the same |
| `Announcement` | when addresses are announced: start of a peer, registrations, notifications | the same; a call of `RegisterAgentAddress` has three steps |
| `Mailbox` | sessions, records and envelope lists under all HTTP requests and deliveries | one region of the server's lock |
| `Lookup` | `lookupAddressDHT`, `HandleAeaAddressRequest`, the proof of representation, over several peers | one lock region, stream or answer |
| `Framing` | framed reads and writes of connections, pipe and streams; the file of agent records | one call of Write or Read |
| `AgentApi` | the connection to the node's agent: pipe, loops, queues, `Stop`, and `main`'s routing goroutine | one channel or pipe operation |
| `RelayClient` | a relayed node: start, registration, retry loops, reconnection, routing, `Close`; the relay's entry for it, crashes and restarts of the relay | one network exchange, or one attempt of a loop |
| `MC...` | instances of the above for TLC | |
| `...Proofs` | theorems about the above | |

### EnvelopeRouting

An envelope is its pair and its number: the position at which the peer accepted it among
those of its pair.  A handler (`hpc[c]`) reads an envelope, tests for the channel
(`CheckPair`), makes it with its goroutine (`CreatePair`) and sends without blocking
(`EnqueuePair`), each a lock region of its own as in the code.  A goroutine is named by
the handler that made it and the pair; when it starts it reads `syncMessages` again
(`StartPair`), so it may range over a channel that another handler made.  `RouteEnvelope`
is the group of `Route...` actions on a worker (a pair goroutine or a caller): mailbox,
agent of the node, delegate client and relay client are the local exits, `RouteLookup` and
`ReadStatus` the remote one, `MoveToSlow` and `PushSlow` the length test on `slow_queue`
and the send to it, which are two steps and can block.  Whether a lookup, a stream or a
status succeeds is a choice: a timeout is a failure at any time.  `wire` holds copies in
flight to another peer, which are delivered, refused or lost in any order; a copy is lost
(`Ignore`) when the other peer answers SUCCESS for it all the same, because it ignores the
error of its own agent or has taken some other status of its delegate client.  A write to
a delegate client reaches it, or goes to a connection that is dead and takes the bytes all
the same, or fails; the status that `AwaitAck` takes is any that the client has sent,
since `acnStatuses` is keyed by address (`acks`, `TakeAck`).  `Close` is three steps
between which everything else goes on; a send to a closed channel is `panicked`, where the
process stops.

Which of an address's representations exists is the constant `Routes`; each use may find
or not find it, which stands for registrations that come and go.

### Delivery

The variables of `Delivery` are six of `EnvelopeRouting`: the envelopes accepted, the
copies that targets have got, the copies that were lost, the acknowledgements of delegate
clients that stand for no success yet, and the two verdicts.  Its steps say what may ever
happen to them: an envelope is accepted; a copy reaches the target, at most one for each
way, even after the verdict; an envelope without a verdict succeeds or fails.  Success
takes a delivery, with two exceptions that the code has and the specification names: a way
in `Acked` (the connection of a delegate client) gives one success for each envelope that
has reached the client, not necessarily to that envelope, and the peer of a target in
`Careless` may answer for what it has lost.  `KeepsPromise` is the refinement: every step
of the handlers, goroutines, slow loop, network and `Close` is one of these or changes
none of the six.

### DelegateSession

The maps are modelled by their entry for one address: entries of different addresses are
independent.  The channel of statuses is named by the handler that made it, so a stale
channel is distinguishable.  An envelope is a number and a status carries the number of
the envelope it answers *in the model only*: the code has no such number, and
`OwnStatusUnlessLate` says how far the code gets without it.  Two history variables say
whether connections of the agent have overlapped and whether deliveries were concurrent;
the code tests neither, and some properties hold only until one of them happens.

### Announcement

`New`, every registration and every notification is a thread.  The branch of `New` for a
peer with bootstrap peers ends in `"joined"`, the other (a genesis peer) in `"up"`.  The
loops of a notification over `dhtAddresses` and `tcpAddresses` hold the lock of the map,
which registrations wait for (`RelaysLocked`, `DelegatesLocked`); the loop of `New` does
not, as in the code.  `wg` is the WaitGroup.  A failure of `New` is a state in which the
process has ended.

### Mailbox

A registration draws a session id, which is the identity of its request.  Unregistration
and sending look the session up in one lock region and act in another; polling is one.
`Careful` is the set of agents that register only when they have no session and are not
registering already; the service tests no such thing, and the other agents register at any
time.  `repeated` is a history variable: agents that had two unregister requests of one
session between its lock regions together.  When the first has ended, the agent has no
session and may register anew, and the second then deletes what it has registered: the
race of mailbox.go:104-119.  What is said of careful agents ends there.  Routing an
envelope that a session sends tests first whether the *sender* has a mailbox
(`SenderRegistered`) and fetches its record in another lock region (`SendElsewhere`); in
between the sender may unregister, and `nilSent` remembers the envelopes that then leave
without a record.

### Lookup

Lookups of different addresses, and two of one address, share nothing but the maps they
read, so there is one lookup of one address.  It is a stack of frames: the origin's
`lookupAddressDHT` at the bottom, and above it the handler of whoever has been asked,
which turns into a lookup of its own when it does not serve the agent any more.  The maps
of a handler are read one after the other, as in the code (`ReadRelays`, `ReadDelegates`,
`ReadRecord`, `CheckMailbox`, `GetMailboxRecord`), and a registration writes them one
after the other (`Register`, then `AddAddress`).  Meanwhile the agent registers with peers
as a relay client, a delegate client or a mailbox, and leaves; a relay's entry for a
client is never deleted, and neither is any record in `agentRecords`, and the record of a
relay client names the client's own node, not the relay.  Peers crash and restart, with or
without storage.  `Foreign` are providers that run anything: they answer with an error,
with a record that does not verify, with one that was valid once (a proof never expires),
with no record, which makes the peer that asked panic (`Panic`), or never.  A provider
record that has expired is one that `FindProvidersAsync` does not give, which it may
always do.  Whether a proof verifies is a bit of the record: cryptography is assumed.

### Framing

A link is a delegate connection, the pipe of the agent, a libp2p stream or the storage
file: all are written alike (the size, then the data), and read by different functions.
`conn.Read` may return fewer bytes than the buffer has room for and the code goes on with
the zeros that the buffer was made with (`Buffer`); `io.ReadFull` does not.  Sizes are
limited on connections and streams only.  A frame may be cut after any byte: the writer
dies, or, for the file, the peer crashes or the disk is full, which is logged and the peer
goes on, to append after the cut record.  Loading reads up to the end of the file at each
start and fails on a record that is cut or does not parse.  A byte is a number below
`Base` and the size has two bytes, not four.

### AgentApi

Four goroutines: the listener (`lpc`), the sender (`spc`), the router of `main` (`rpc`)
and the handlers that put incoming envelopes.  `Stop`, which only the listener calls, is
one step per statement, since the others run in between.  Every channel send blocks as
in Go while its channel is full; one on a closed channel is `panicked`.  The agent writes
the kinds of message that the code tells apart (`Kinds`), answers the envelopes it got in
order but as late as it likes, and may be gone at any time; a write to a pipe that the
agent has left is lost or fails.  A status carries the number of its envelope in the
model only, as in `DelegateSession`.  The sender is compared with the record only after
the answer, so an envelope with a foreign sender is answered SUCCESS and dropped;
`acked` counts the agent's own envelopes.

### RelayClient

`New` and `RouteEnvelope` run one after the other, so one `pc` serves both, and both
retry loops (`bootstrapLoopUntilTimeout`, `newStreamLoopUntilTimeout`) are the actions of
`Loop` with a `goal`.  `ContextDone` is the deadline; the branch for it sets `err` and
does not leave the loop, as in the code.  Each loss of the connection that the Notifee
sees starts a call of `Disconnected`, counted by `reconnecting`.  Of the relay, the model
has its entry for this client: a registration is answered first (`answered`) and stored
later (`RelayStores`), and a crash forgets the entry unless it was saved.  Whether a
dial, a stream or a status succeeds is a choice, limited by what must be there (the relay
is up, the host is open).  An envelope is for the client's own agent, for another relayed
node or a mailbox, for the agent of a DHT peer or for a delegate client of one (`target`):
the last two are handled by `DHTPeer.HandleAeaEnvelope`, which may answer SUCCESS for an
envelope that nobody has got (`lost`).

## 3. Runs

| Run | Checks | Instance |
|---|---|---|
| `RoutingReconnect` | `TypeOK`, `Conservation`: nothing is lost or forked; `KeepsPromise` (the refinement of `Delivery`): one verdict, success only with a delivery or one of the named exceptions, no way delivers twice; `FastPathOrder`, `SlowPathOrder`, `OvertakenIsSlow`: each path in order, and only an envelope that the first attempt did not serve is overtaken | one agent, two connections one after the other, two envelopes to a target found in every way there is, the agent and a delegate client of another peer included; a slow queue in which both can wait; `Close` at any point |
| `RoutingCallers` | `Conservation`, `KeepsPromise`, and `EverythingSettles` under fairness | three callers, a slow queue of two, a target that is a delegate client here or known to the DHT |
| `SessionReconnect` | `TypeOK`, `ServedIsMapped` (until connections overlap), `OwnStatusUnlessLate`, `MappedIsServed` (always), and `ClosedIsCleaned` under fairness | two connections, overlapping or not, one deliverer, two envelopes, room for one status |
| `AnnounceStart` | `TypeOK`, `NoneMissed`, and `RegistrationsEnd` under fairness | a genesis or joining peer; a relay, a stored, a delegate, a mailbox and the own address, one notification |
| `MailboxSessions` | `TypeOK`, `NoOrphan`, `SessionsServed`, `FetchOrder`, `KeptUntilFetched`, `NilOnlyIfClosed` | a careful agent and another one, three registrations, two requests in flight, repeated unregister requests included |
| `AgentLoops` | `TypeOK`, `AckedIsKept`, `StatusDrift`, and `AckedIsRouted`, `AgentGoneEndsLoops` under fairness | three messages of the agent, two envelopes for it, room for one in every channel |
| `RelayRestart` | `TypeOK`, `NoErrorMeansDelivered`, and `Reconnects` under fairness | two envelopes to targets of every kind, two crashes of the relay, another lost connection, records saved or not |
| `LookupChain` | `TypeOK`, `FoundIsFresh`, and `LookupReturns` under fairness | the origin, two peers between which the agent moves, a foreign provider; two moves, two crashes, chains of four |
| `FramesCut` | `TypeOK`, `NothingGarbled`, `RecordsSurvive`, and `AllIsRead` under fairness | three frames, each perhaps cut, over every kind of link in any segments; three starts of the peer with the file |

Three runs end in a counterexample, each for a sentence of the repository that the code
does not keep (`findings` in `PROJECT.json` quotes them).

| Run | Property | The sentence, and what TLC finds |
|---|---|---|
| `RoutingOverlap` | `OneGoroutinePerPair` | dhtpeer.go:994, "one go routine per pair": two live connections of an agent both find no channel and both make one, with a goroutine each |
| `SessionGauge` | `GaugeCounts` | dhtpeer.go:597, "Number of active delagate connections": refused registrations are subtracted; the gauge goes below zero (`GaugeDrift`, proved, says by how much) |
| `RelayTimeout` | `LoopReturns` | dhtclient.go:371 and :404, the retry loops end when the timeout is reached: they loop on the error that the timeout sets |

The models show more behaviours for which there is no run of their own.  The first four
are at odds with a sentence of the repository too.

* README.md:70 asks for "total ordering of messages for all agent pairs": an envelope in
  `slow_queue` is overtaken by the next one of its pair (the audit's N6).  `OvertakenIsSlow`
  says that nothing else is overtaken.
* dhtpeer.go:1512, on `HandleAeaEnvelope`: "return ACNError if message routing failed,
  otherwise nil".  The error of the peer's own agent is ignored (1575), SUCCESS is
  answered, and the sender's `RouteEnvelope` returns no error for an envelope that nobody
  has got (`Ignore`; `Careless` in `Delivery`, `lost` in `RelayClient`).
* dhtclient.go:440: "register again in case of disconnection".  The client registers only
  after a first attempt at a stream has failed: when its Notifee has reconnected already
  to a relay that restarted without the record, the first attempt succeeds, nothing
  registers, and the relay does not know the client (`Loop` with `dhtAddresses` false).
* AUDIT-2026-04-15.md:496 says that a lookup "continues until the per-lookup timeout
  fires": the read of a provider's answer has no deadline, and a silent provider holds the
  lookup for ever (the second hypothesis of `LookupReturns`).
* Two providers that have both lost the agent ask each other, and each other again, as
  deep as resources last (`LookupReturns` fails without its hypothesis that at most one
  provider is stale).
* A short `Read` on a delegate connection or the pipe of the agent makes the rest of the
  message the next size; messages are then split, joined and padded with zeros
  (`OutOfStep` in `NothingGarbled`).
* A record that is cut at the end of the storage file makes the peer fail to start, and
  one that others have been appended to can be read as another record (`cut = "inside"`).
* An envelope of an agent that unregisters its mailbox while it is being routed leaves the
  peer with a nil record (`nilSent`; `NilOnlyIfClosed` says that this takes the agent's
  own doing).
* Two unregister requests of one session, the second still in progress when the agent
  registers again, delete the new mailbox under its open session (`repeated`).
* A status that a delegate client sent for one envelope can confirm another that was
  written to a dead connection; each status stands for one success at most (`acks`).
* A provider that answers a lookup with a response that has no record makes the peer that
  asked panic (`Panic`), and one that replays an old record is believed (`FoundIsFresh`
  has it as its exception).
* The handler of an old connection removes the entries of its address even when a newer
  connection made them; the newer one is served on but cannot be reached
  (`ServedIsMapped` holds only until connections overlap).
* A relay client that registers between the loop of `New` over the stored addresses and
  the moment announcements are enabled is not announced; nor is a mailbox of a genesis
  peer that registers before the first notification (`Covered` leaves both out).
* An address is marked as announced before `Provide` and stays marked when that fails.
* A status channel can be filled by statuses that come after their wait has timed out,
  and its reader then blocks for good (the last disjuncts of `ClosedIsCleaned` and
  `AgentGoneEndsLoops`).
* After `Stop`, a `Put` panics on the closed `send_queue` (`panicked`).
* An envelope of a relayed node to its own agent is delivered and then routed on to the
  relay, which ends in an error (`RouteToSelf`, `ConnectTarget`).
* A connection to the relay that is lost between the registration and the installation of
  the Notifee is not restored by it (`lostEarly`).

**Bounds.**  The capacities of channels (1000, 100) are constants; what matters of them is
full, empty and in between, so they are 1 to 3 in the runs, with at least as many
envelopes or threads as needed to fill them: three callers find a slow queue of two "not
full" together, and one of them blocks; a slow queue of three holds two envelopes of one
pair (the length test leaves one place free); the channel of a pair has one place, so that
the second envelope finds it full, or waits in it behind the one being routed (that a Go
channel with more places is first in, first out is not the code's doing; that a pair has
one channel and one goroutine across connections is, and is what the mutant of
`FastPathOrder` breaks); two late statuses overflow a channel with room for one.  Two
connections are enough for a reconnection, an overlap, and a clean-up that meets a
successor; three sessions let a request of the first meet the third.  In `AgentLoops` the
first envelope of the agent can be to itself and the others fill `out_queue` and the hand
of the listener (`Script` says which kinds each may be of), so that listener, router and
sender can all wait; two envelopes for the agent give a late status to drift by.  Two
crashes let the relay restart while the loss of the first is still being repaired, and
`MaxDrops` adds a loss without a crash.  In `LookupChain` two moves are two registrations
or one and a departure; a crash is a departure too, so that the agent can be lost by one
peer and register with another while it is looked up, and two crashes take both of these
from under the lookup.  A chain of nested lookups that grows beyond `MaxDepth` stays at
`"beyond"`, where it does not return: that `LookupReturns` passes shows that four is
enough as long as at most one provider is stale.  The origin of a lookup ends only by a
panic: the crash of whoever waits ends the lookup and shows nothing.  In `FramesCut` a
frame that is cut can be followed by two more, with a restart before each; with `Base` 3
and messages of one and two bytes some misread sizes are within the limit, some beyond.
One notification gives every race between a notification, the start and a registration;
that safety does not depend on their number is proved.  `MaxSent`, `MaxEnvelopes`,
`MaxFromAgent`, `MaxIncoming`, `MaxCrashes`, `MaxDrops`, `MaxMoves`, `MaxFrames` and
`MaxStarts` bound otherwise unbounded counters in the guards.  In `EnvelopeRouting`,
`Overlap = FALSE` says that the agent connects again only after the handler of its
previous connection has returned; the code does not enforce it, and `RoutingOverlap` has
it otherwise.  Connections, sessions and requests are symmetric in the runs for safety;
runs with liveness use no symmetry.

Deadlock is not checked: every instance ends when its envelopes, connections and
requests are used up, and `Close` and a failed start stop the system for good.  That
nothing hangs before is what the liveness properties say.

**Fairness** is weak fairness of goroutines only: the Go scheduler runs a goroutine that
can run.  Dials, queries of the DHT, `Provide` and the waits for a status in a channel
have a deadline, and expiry is always enabled as the failure of that step; the read of a
connection returns an error once the connection is closed.  Two waits have no deadline in
the code, the read of a status from an envelope stream and of the answer to a lookup
(`ReadBytes` in either).  `EverythingSettles` assumes that the far end of an envelope
stream answers or its connection breaks, and `AllIsRead` that what was sent arrives.  In
`Lookup` no answer of a foreign provider is fair, and `LookupReturns` says in its
hypothesis that the lookup is not left waiting for one.  Nothing is assumed of clients
(they may never answer, connect or disconnect), of the node's agent, of notifications, or
of `Close`.  The one exception is in `RelayClient`: a loop of `Disconnected` that keeps
trying connects in the end to a relay that stays up, since it has no deadline of its own
and what it waits for is a successful dial; that a context expires, and that a relay
handler that has answered goes on to store, are fair too.

## 4. Proofs

All theorems hold for every value of the constants allowed by the named assumptions:
any number of agents, connections, sessions and envelopes, and any capacities.

| Theorem | Assumes | Argument |
|---|---|---|
| `EnvelopeRoutingProofs!TypeCorrect` | | `TypeOK` with the capacities of channels; it needs that `ranging` and `syncMessages` name channels that exist (`MapInv`) and that a worker that routes has an envelope |
| `EnvelopeRoutingProofs!FastPathOrderCorrect` | `~Overlap` | `ExclusiveInv`: at most one handler of an address is live; `PairInv`: a goroutine exists only for the entry of `syncMessages`, and a handler at `create` means there is none; `OrderInv`: numbers in the one channel of a pair increase, all lie above `lastRouted` and at or below `sent`, and a handler holds the newest |
| `EnvelopeRoutingProofs!ConservationCorrect` | | `StageInv`: a known envelope is at one of seven stages (hand of a handler, channel of a pair, job of a worker, slow queue, job of the slow loop, succeeded, failed) and at no two; `OnceInv`: no stage has it twice, which is what makes the stage it leaves free of it.  It needs no exclusion of connections: two goroutines may range over one channel |
| `EnvelopeRoutingProofs!PromiseKept` | | the refinement of `Delivery`, one lemma per group of actions.  `CopyInv`, on top of `HeldInv`: a copy leaves once at most by each way, only for a known envelope whose sender is past that send, none is at once on its way and handled, and who waits for a delegate's status has written to it; that an envelope someone holds has no verdict comes from `StageInv`.  Nothing is assumed of the targets: the exceptions are in `Delivery` |
| `EnvelopeRoutingProofs!SlowPathOrderCorrect` | `SingleSource` | `SourceInv`: a worker that routes has the last number taken of its pair; `SlowInv`: the slow queue has the numbers of a pair in ascending order, after the last one taken from it and up to the one being routed |
| `EnvelopeRoutingProofs!OvertakenIsSlowCorrect` | `SingleSource` | `ArrivalInv`: what left by the fast path had been taken up, so that of two such arrivals the later number left later; `OvertakenIsSlow` is then kept by every delivery |
| `DelegateSessionProofs!TypeCorrect`, `!MappedIsServedCorrect` | | an entry in the map belongs to a handler that is live or that a failed announcement ended |
| `DelegateSessionProofs!ServedIsMappedCorrect` | | `SerialInv` holds until connections overlap: the phase of the one live handler determines the entries |
| `DelegateSessionProofs!GaugeDriftCorrect` | | `GaugeInv` carries that the served and the refused connections are finitely many, since every step adds one at most; `Conns` need not be finite |
| `DelegateSessionProofs!OwnStatusUnlessLateCorrect` | | `LateInv`: until deliveries are concurrent one thread waits, for the last envelope written (`TurnInv`); before the first timeout only this envelope or its status is under way, in one of inbox, upstream, hand of the handler or channel, and afterwards nothing older than some envelope whose wait has timed out (`FlowInv`) |
| `AnnouncementProofs!TypeCorrect` | | `wg` is the number of notifications under way; needs the protocol of a call (`CallInv`) |
| `AnnouncementProofs!NoneMissedCorrect` | | genesis peer, `MissedInv`: a client is in its map before it waits, and one that got past the wait was announced by every notification past its loop; joining peer, `JoinInv`: the loop of `New` has announced the stored addresses, and the services start with announcements enabled |
| `MailboxProofs!TypeCorrect`, `!NoOrphanCorrect`, `!FetchOrderCorrect` | | `OrphanInv`: a record is that of an open session; `OrderInv`: handed out, then waiting, in increasing order |
| `MailboxProofs!SessionsServedCorrect`, `!KeptUntilFetchedCorrect` | | `ServedInv`: for careful agents that have repeated no unregister request, registrations in flight, open sessions and records agree, and an unregister request in progress is the only one of a session that is still open, whatever the others do |
| `MailboxProofs!NilOnlyIfClosedCorrect` | | `NilInv`, on top of `ServedInv`: a send, pending or past, is of a session whose registration is over, and a closed session never opens again |
| `LookupProofs!TypeCorrect`, `!FoundIsFreshCorrect` | | one `Inv` for both.  `Maps`: whatever record a peer gives out names somebody the agent is registered with; `SinceInv`: those are in `since`; `Chain`: each frame waits for the peer of the one above, on peers that are up; `Answer`: a record that verifies, on its way to any frame, names a member of `since`, or is an old one that a foreign provider gave.  A crash cuts the chain at the lowest frame on the peer that crashed (`SmallestNat`, the least-number principle) |
| `FramingProofs!TypeCorrect` | | every message has cost the reader a byte of a size or is a record the peer put in itself (`Paid`) |
| `FramingProofs!NothingGarbledCorrect`, `!RecordsSurviveCorrect` | | `FrameInv`: unless a reader is out of step or something follows a frame that is cut, there are offsets at which the frames of `written` lie one behind the other, with nothing behind them or fewer bytes than their header announces (`Layout`), and the reader has consumed exactly the frames it has returned, or these and one header (`At`).  Hence what it reads next is the next frame; there is none to read behind the last; and reading ends cleanly only at the last offset with nothing cut |
| `AgentApiProofs!TypeCorrect` | | the messages of the agent bear the numbers of what it has written (`OwnInv`) |
| `AgentApiProofs!AckedIsKeptCorrect` | | `LineInv`: the pipe, the listener, `out_queue`, the router and what was routed have the agent's envelopes in ascending order, each stage ahead of the one before it; an acknowledged one is at one of the last four |
| `AgentApiProofs!StatusDriftCorrect` | | `DriftInv`: for some t and k the envelopes whose statuses are with the agent, in the pipe, in the listener or in the channel are t + 1 to k in this order (`FlightInv`), t statuses have been taken, and the send loop is through with t plus those it lost (`LoopInv`) |
| `RelayClientProofs!TypeCorrect` | | `reconnecting` is bounded by the losses of the connection, of which `Close` is one |
| `RelayClientProofs!NoErrorCorrect` | | `StatusInv`: a status SUCCESS means that the current envelope is delivered, or that its peer has answered for it |

One condition is about how the code is used, not about its constants: `SingleSource` says
that an agent's envelopes come from one thread at a time, that is, its connections do not
overlap, it has one caller of `RouteEnvelope`, and not both.  It holds in
`RoutingReconnect`, and without it the properties are false.

Every invariant and action property that a passing run checks is a theorem, and so is the
refinement.  Only model-checked are the liveness properties (`EverythingSettles`,
`ClosedIsCleaned`, `RegistrationsEnd`, `AckedIsRouted`, `AgentGoneEndsLoops`,
`Reconnects`, `LookupReturns`, `AllIsRead`): they need fairness and `ENABLED`, which are
beyond the prover, and `LookupReturns` moreover a bound on the depth of a chain.

## 5. What is not modelled

Encodings (protobuf, multiaddresses, keys and signatures) are sequential functions of
data; their outcome, accepted or refused, is a choice in the models.  Configuration,
logging, exporters of metrics, mocks and generated code have no protocol.  Of the metrics
only the gauge of delegate connections is modelled; the one of ongoing routing requests is
not, though `RouteEnvelope` leaves it out of step on some exits: nothing reads it.  Outside
of `Framing` a connection carries whole messages until it breaks, and storage is what a
restart finds.  A relayed node has one entry peer in the model.  The monitoring service,
and the notifee of a peer, which logs, change no state that anything else reads.

## 6. Plan

All components with a protocol are modelled and all their safety properties proved.
What is left:

1. A mailbox as a bounded queue, an abstract specification that `Mailbox` implements for
   careful agents, model-checked and then proved as `PromiseKept` is.
2. What the liveness properties rest on, as theorems: the measure that every step of a
   lookup with at most one stale provider and no silent one decreases, and what each way
   out of `RouteEnvelope` leaves enabled.
