-------------------------- MODULE EnvelopeRouting --------------------------
(***************************************************************************)
(* How one ACN peer (DHTPeer, dht/dhtpeer/dhtpeer.go) moves the envelopes   *)
(* of its local agents: from the handler of a delegate connection, through  *)
(* the channel of the (to, sender) pair and the goroutine that ranges over  *)
(* it, through RouteEnvelope, and, when the DHT does not help in time,      *)
(* through slow_queue and slowEnvelopeSendLoop.  The agent of the node      *)
(* (main) and the mailbox HTTP handlers call RouteEnvelope directly.        *)
(*                                                                          *)
(* Data is abstracted to what ordering and delivery depend on: an envelope  *)
(* is its pair and its number, the position at which the peer accepted it   *)
(* among the envelopes of that pair.  Whether a lookup, a stream or a       *)
(* status succeeds is a nondeterministic choice; the ways in which a target *)
(* can be found are given by Routes.  A step of this module is one lock     *)
(* region, channel operation or network exchange of the code.               *)
(***************************************************************************)
EXTENDS Integers, Sequences, FiniteSets

CONSTANTS
    Addresses,      \* agent addresses
    Pairs,          \* <<to, from>>: the pairs of agents that exchange envelopes
    Conns,          \* delegate TCP connections, one handler goroutine each
    AddrOf,         \* AddrOf[c]: the address registered on connection c
    Callers,        \* threads that call RouteEnvelope themselves; the handler of an
                    \* envelope stream (HandleAeaEnvelope) that writes to a delegate
                    \* client does what a caller does with such a target
    CallerAddr,     \* CallerAddr[k]: the address whose envelopes k routes
    Routes,         \* Routes[a]: the ways RouteEnvelope can find target a
    PairQueueSize,  \* capacity of a channel of syncMessages (1000)
    SlowQueueSize,  \* capacity of slow_queue (100)
    Overlap,        \* may an agent connect again before the handler of its
                    \* previous connection has returned?
    MaxSent,        \* bound: envelopes accepted per pair
    MayClose,       \* bound: is Close called at all?
    NoConn, NoEnv   \* "absent" values

\* "remote": found in the DHT; "remoteAgent", "remoteDelegate": and the agent or a
\* delegate client of the peer found there.
Kinds == {"mailbox", "mine", "delegate", "relay", "remote", "remoteAgent", "remoteDelegate"}

\* The ways a copy leaves RouteEnvelope: on the connection of a delegate client, in any
\* other way at the first attempt, or from the slow loop.
Vias == {"tcp", "fast", "slow"}

Channels == Conns \X Pairs          \* the channel made by a handler for a pair
Goroutines == Channels              \* and the goroutine spawned with it
Workers == Goroutines \cup Callers  \* whoever runs RouteEnvelope

ASSUME PairsAssumption == Pairs \subseteq Addresses \X Addresses
ASSUME AddrAssumption ==
    /\ AddrOf \in [Conns -> Addresses]
    /\ CallerAddr \in [Callers -> Addresses]
    /\ Routes \in [Addresses -> SUBSET Kinds]
ASSUME SizeAssumption ==
    /\ PairQueueSize \in Nat \ {0}
    /\ SlowQueueSize \in Nat \ {0, 1}
    /\ MaxSent \in Nat
    /\ Overlap \in BOOLEAN
    /\ MayClose \in BOOLEAN

Envelopes == [pair : Pairs, n : Nat]

ASSUME AbsentAssumption ==
    /\ NoConn \notin Conns
    /\ NoEnv \notin Envelopes
    /\ Callers \cap Goroutines = {}

VARIABLES
    \* the delegate connections
    hpc,            \* hpc[c]: where the handler of connection c is
    hand,           \* hand[c]: the envelope it has read and not yet queued
    sent,           \* sent[p]: number of envelopes accepted for pair p
    \* the pair channels and the goroutines that range over them
    syncMessages,   \* syncMessages[p]: the handler whose channel serves p
    chan,           \* chan[ch]: numbers buffered in channel ch
    closedChans,    \* the channels Close has closed
    ranging,        \* ranging[g]: maker of the channel goroutine g ranges over
    wpc,            \* wpc[w]: where worker w is in RouteEnvelope
    job,            \* job[w]: the envelope it is routing
    \* the slow path
    slow_queue,     \* buffered envelopes
    spc,            \* where slowEnvelopeSendLoop is
    sjob,           \* the envelope it is routing
    \* the network and the destinations
    wire,           \* copies sent on an envelope stream and not yet handled
    delivered,      \* delivered[p]: copies put where the target reads, in order
    lost,           \* copies gone without that: written to a dead connection, or
                    \* answered with SUCCESS by a peer whose client did not get them
    acks,           \* envelopes a delegate client has got and whose status is still
                    \* under way or in acnStatuses
    \* what the peer believes
    succeeded,      \* envelopes whose routing returned without an error
    failed,         \* envelopes given up: dropped, or an error was logged
    \* the node
    agent,          \* the agent of this node: "connecting", "connected", "set"
    closeStep,      \* progress of Close
    panicked,       \* the process died of a send on a closed channel
    \* history
    lastRouted,     \* lastRouted[p]: number last received from a channel of p
    lastSlow        \* lastSlow[p]: number last received from slow_queue

connVars == <<hpc, hand, sent>>
chanVars == <<syncMessages, chan, closedChans, ranging, lastRouted>>
workVars == <<wpc, job>>
slowVars == <<slow_queue, spc, sjob, lastSlow>>
netVars == <<wire, delivered, lost, acks>>
viewVars == <<succeeded, failed>>
nodeVars == <<agent, closeStep, panicked>>
vars == <<connVars, chanVars, workVars, slowVars, netVars, viewVars, nodeVars>>

Env(p, n) == [pair |-> p, n |-> n]
Copy(e, via) == [env |-> e, via |-> via]
isClosing == closeStep # "open"

\* A handler is live from the registration to the return of its goroutine.
Live(c) == hpc[c] \notin {"new", "gone"}

Init ==
    /\ hpc = [c \in Conns |-> "new"]
    /\ hand = [c \in Conns |-> NoEnv]
    /\ sent = [p \in Pairs |-> 0]
    /\ syncMessages = [p \in Pairs |-> NoConn]
    /\ chan = [ch \in Channels |-> <<>>]
    /\ closedChans = {}
    /\ ranging = [g \in Goroutines |-> NoConn]
    /\ wpc = [w \in Workers |-> IF w \in Callers THEN "idle" ELSE "unborn"]
    /\ job = [w \in Workers |-> NoEnv]
    /\ slow_queue = <<>>
    /\ spc = "recv"
    /\ sjob = NoEnv
    /\ wire = {}
    /\ delivered = [p \in Pairs |-> <<>>]
    /\ lost = {}
    /\ acks = {}
    /\ succeeded = {}
    /\ failed = {}
    /\ agent = "connecting"
    /\ closeStep = "open"
    /\ panicked = FALSE
    /\ lastRouted = [p \in Pairs |-> 0]
    /\ lastSlow = [p \in Pairs |-> 0]

-----------------------------------------------------------------------------
(* The handler of a delegate connection: handleNewDelegationConnection.     *)

\* Registration done: the handler enters its read loop, even when Close has run
\* since the connection was accepted.
Accept(c) ==
    /\ hpc[c] = "new"
    /\ Overlap \/ \A d \in Conns : AddrOf[d] = AddrOf[c] => ~ Live(d)
    /\ hpc' = [hpc EXCEPT ![c] = "read"]
    /\ UNCHANGED <<hand, sent, chanVars, workVars, slowVars, netVars, viewVars, nodeVars>>

\* An envelope is read and acknowledged to the client; one whose sender is not
\* the registered address is ignored, so p[2] = AddrOf[c].
ReadEnvelope(c, p) ==
    /\ hpc[c] = "read"
    /\ p[2] = AddrOf[c]
    /\ sent[p] < MaxSent
    /\ hpc' = [hpc EXCEPT ![c] = "check"]
    /\ sent' = [sent EXCEPT ![p] = @ + 1]
    /\ hand' = [hand EXCEPT ![c] = Env(p, sent[p] + 1)]
    /\ UNCHANGED <<chanVars, workVars, slowVars, netVars, viewVars, nodeVars>>

\* The connection is closed, by the client or by Close: the handler returns.
Disconnect(c) ==
    /\ hpc[c] = "read"
    /\ hpc' = [hpc EXCEPT ![c] = "gone"]
    /\ UNCHANGED <<hand, sent, chanVars, workVars, slowVars, netVars, viewVars, nodeVars>>

\* The map has no channel for the pair.  Mutant: it is not asked.
NoChannelMutant(p) == TRUE
NoChannel(p) == syncMessages[p] = NoConn

\* First lock region: is there a channel for the pair?
CheckPair(c) ==
    /\ hpc[c] = "check"
    /\ hpc' = [hpc EXCEPT
         ![c] = IF NoChannel(hand[c].pair) THEN "create" ELSE "enqueue"]
    /\ UNCHANGED <<hand, sent, chanVars, workVars, slowVars, netVars, viewVars, nodeVars>>

\* Second lock region: make the channel, then spawn the goroutine of the pair.
CreatePair(c) ==
    /\ hpc[c] = "create"
    /\ hpc' = [hpc EXCEPT ![c] = "enqueue"]
    /\ LET p == hand[c].pair
       IN  /\ syncMessages' = [syncMessages EXCEPT ![p] = c]
           /\ wpc' = [wpc EXCEPT ![<<c, p>>] = "start"]
    /\ UNCHANGED <<hand, sent, chan, closedChans, ranging, lastRouted, job,
                   slowVars, netVars, viewVars, nodeVars>>

\* Mutant: the room in the channel is tested off by one.
HasRoomMutant(ch) == Len(chan[ch]) <= PairQueueSize
HasRoom(ch) == Len(chan[ch]) < PairQueueSize

\* Third lock region: a non-blocking send.  A full channel discards the
\* envelope, a closed one panics.
EnqueuePair(c) ==
    /\ hpc[c] = "enqueue"
    /\ LET p == hand[c].pair
           ch == <<syncMessages[p], p>>
       IN  \/ /\ ch \notin closedChans
              /\ HasRoom(ch)
              /\ chan' = [chan EXCEPT ![ch] = Append(@, hand[c].n)]
              /\ UNCHANGED <<failed, panicked>>
           \/ /\ ch \notin closedChans
              /\ ~ HasRoom(ch)
              /\ failed' = failed \cup {hand[c]}
              /\ UNCHANGED <<chan, panicked>>
           \/ /\ ch \in closedChans
              /\ panicked' = TRUE
              /\ failed' = failed \cup {hand[c]}
              /\ UNCHANGED chan
    /\ hpc' = [hpc EXCEPT ![c] = "read"]
    /\ hand' = [hand EXCEPT ![c] = NoEnv]
    /\ UNCHANGED <<sent, syncMessages, closedChans, ranging, lastRouted, workVars,
                   slowVars, netVars, succeeded, agent, closeStep>>

-----------------------------------------------------------------------------
(* The goroutine of a pair, and the other callers of RouteEnvelope.         *)

\* The goroutine looks its channel up in the map, in a lock region of its own.
StartPair(g) ==
    /\ wpc[g] = "start"
    /\ ranging' = [ranging EXCEPT ![g] = syncMessages[g[2]]]
    /\ wpc' = [wpc EXCEPT ![g] = "recv"]
    /\ UNCHANGED <<connVars, syncMessages, chan, closedChans, lastRouted, job,
                   slowVars, netVars, viewVars, nodeVars>>

\* One turn of the range loop: receive, and enter RouteEnvelope.
ReceivePair(g) ==
    LET ch == <<ranging[g], g[2]>>
    IN  /\ wpc[g] = "recv"
        /\ chan[ch] # <<>>
        /\ chan' = [chan EXCEPT ![ch] = Tail(@)]
        /\ job' = [job EXCEPT ![g] = Env(g[2], Head(chan[ch]))]
        /\ wpc' = [wpc EXCEPT ![g] = "route"]
        /\ lastRouted' = [lastRouted EXCEPT ![g[2]] = Head(chan[ch])]
        /\ UNCHANGED <<connVars, syncMessages, closedChans, ranging, slowVars,
                       netVars, succeeded, failed, nodeVars>>

\* The range loop ends when its channel is closed and drained.
RangeEnd(g) ==
    /\ wpc[g] = "recv"
    /\ <<ranging[g], g[2]>> \in closedChans
    /\ chan[<<ranging[g], g[2]>>] = <<>>
    /\ wpc' = [wpc EXCEPT ![g] = "ended"]
    /\ UNCHANGED <<connVars, chanVars, job, slowVars, netVars, viewVars, nodeVars>>

\* main's goroutine over agent.Queue(), or an apiSendEnvelope request.
CallRoute(k, p) ==
    /\ wpc[k] = "idle"
    /\ p[2] = CallerAddr[k]
    /\ sent[p] < MaxSent
    /\ sent' = [sent EXCEPT ![p] = @ + 1]
    /\ job' = [job EXCEPT ![k] = Env(p, sent[p] + 1)]
    /\ wpc' = [wpc EXCEPT ![k] = "route"]
    /\ UNCHANGED <<hpc, hand, chanVars, slowVars, netVars, succeeded, failed, nodeVars>>

-----------------------------------------------------------------------------
(* RouteEnvelope, run by worker w on job[w].                                *)

CanRoute(w, kind) == wpc[w] = "route" /\ kind \in Routes[job[w].pair[1]]

\* RouteEnvelope returns; the worker takes up its next envelope.
Return(w) ==
    /\ wpc' = [wpc EXCEPT ![w] = IF w \in Callers THEN "idle" ELSE "recv"]
    /\ job' = [job EXCEPT ![w] = NoEnv]

Succeed(e) == succeeded' = succeeded \cup {e} /\ UNCHANGED failed
Fail(e) == failed' = failed \cup {e} /\ UNCHANGED succeeded

Deliver(e, via) ==
    delivered' = [delivered EXCEPT ![e.pair] = Append(@, [n |-> e.n, via |-> via])]

Delivered(e, via) ==
    \E i \in 1..Len(delivered[e.pair]) :
        delivered[e.pair][i] = [n |-> e.n, via |-> via]

Send(e, via) == wire' = wire \cup {Copy(e, via)}

\* getEnvelopeAcnRecord finds no record of the sender.  The record of a delegate
\* client is never deleted, so only a direct caller meets this.
RejectSender(w) ==
    /\ wpc[w] = "route"
    /\ w \in Callers
    /\ Fail(job[w])
    /\ Return(w)
    /\ UNCHANGED <<connVars, chanVars, slowVars, netVars, nodeVars>>

\* The target has a mailbox with room.
RouteMailbox(w) ==
    /\ CanRoute(w, "mailbox")
    /\ Deliver(job[w], "fast")
    /\ Succeed(job[w])
    /\ Return(w)
    /\ UNCHANGED <<connVars, chanVars, slowVars, wire, lost, acks, nodeVars>>

\* processEnvelope is unset or returns an error.  Mutant: it is ignored.
ProcessFailedMutant(w) == Succeed(job[w]) /\ UNCHANGED delivered
ProcessFailed(w) == Fail(job[w]) /\ UNCHANGED delivered

\* The target is the agent of this node: wait until it is connected, then call
\* processEnvelope, which may be unset yet and may return an error.
RouteMyAgent(w) ==
    /\ CanRoute(w, "mine")
    /\ agent # "connecting"
    /\ \/ agent = "set" /\ Deliver(job[w], "fast") /\ Succeed(job[w])
       \/ ProcessFailed(w)
    /\ Return(w)
    /\ UNCHANGED <<connVars, chanVars, slowVars, wire, lost, acks, nodeVars>>

\* The write fails.  Mutant: the caller goes on to wait for the status.
WriteFailedMutant(w) ==
    Fail(job[w]) /\ wpc' = [wpc EXCEPT ![w] = "await"] /\ UNCHANGED <<job, delivered, lost, acks>>
WriteFailed(w) == Fail(job[w]) /\ Return(w) /\ UNCHANGED <<delivered, lost, acks>>

\* The target is a delegate client: write to its connection.  The client gets the
\* envelope and answers, or the connection is dead and takes the bytes all the same,
\* or the write fails.
RouteDelegate(w) ==
    /\ CanRoute(w, "delegate")
    /\ \/ /\ Deliver(job[w], "tcp")
          /\ acks' = acks \cup {job[w]}
          /\ wpc' = [wpc EXCEPT ![w] = "await"]
          /\ UNCHANGED <<job, lost, succeeded, failed>>
       \/ /\ lost' = lost \cup {Copy(job[w], "tcp")}
          /\ wpc' = [wpc EXCEPT ![w] = "await"]
          /\ UNCHANGED <<job, delivered, acks, succeeded, failed>>
       \/ WriteFailed(w)
    /\ UNCHANGED <<connVars, chanVars, slowVars, wire, nodeVars>>

\* The status of a wait for the client of e: acnStatuses is keyed by address, so it
\* may be that of another envelope to that client.  Mutant: it stays in the channel.
TakeAckMutant(e) == \E x \in acks : x.pair[1] = e.pair[1] /\ UNCHANGED acks
TakeAck(e) == \E x \in acks : x.pair[1] = e.pair[1] /\ acks' = acks \ {x}

\* AwaitAcnStatus: an acknowledgement, or an error status or the 5s timeout, which
\* leaves a late acknowledgement for the next wait.
AwaitAck(w) ==
    /\ wpc[w] = "await"
    /\ \/ TakeAck(job[w]) /\ Succeed(job[w])
       \/ Fail(job[w]) /\ UNCHANGED acks
    /\ Return(w)
    /\ UNCHANGED <<connVars, chanVars, slowVars, wire, delivered, lost, nodeVars>>

\* The target is a relay client: open a stream to it and send.  No stream:
\* the error is returned and the envelope is not tried again.
RouteRelay(w) ==
    /\ CanRoute(w, "relay")
    /\ \/ /\ Send(job[w], "fast")
          /\ wpc' = [wpc EXCEPT ![w] = "statusRelay"]
          /\ UNCHANGED <<job, succeeded, failed>>
       \/ /\ Fail(job[w])
          /\ Return(w)
          /\ UNCHANGED wire
    /\ UNCHANGED <<connVars, chanVars, slowVars, delivered, lost, acks, nodeVars>>

\* The target is not local: look it up in the DHT for 3s, open a stream, send.
RouteLookup(w) ==
    /\ CanRoute(w, "remote")
    /\ \/ /\ Send(job[w], "fast")
          /\ wpc' = [wpc EXCEPT ![w] = "statusRemote"]
       \/ /\ wpc' = [wpc EXCEPT ![w] = "lookupFailed"]
          /\ UNCHANGED wire
    /\ UNCHANGED <<connVars, chanVars, job, slowVars, delivered, lost, acks, succeeded,
                   failed, nodeVars>>

\* The copy has reached the other end, and the target got it or it was lost there.  On
\* a stream the other end answers SUCCESS: HandleAeaEnvelope returned no error.
Handled(e, via) == Delivered(e, via) \/ Copy(e, via) \in lost

\* ReadAcnStatus on the stream: SUCCESS, or an error: a negative status or a
\* broken stream, whatever the target did.
ReadStatus(w) ==
    /\ wpc[w] \in {"statusRelay", "statusRemote"}
    /\ \/ /\ Handled(job[w], "fast")
          /\ Succeed(job[w])
          /\ Return(w)
       \/ /\ wpc[w] = "statusRelay"
          /\ Fail(job[w])
          /\ Return(w)
       \/ /\ wpc[w] = "statusRemote"
          /\ wpc' = [wpc EXCEPT ![w] = "lookupFailed"]
          /\ UNCHANGED <<job, succeeded, failed>>
    /\ UNCHANGED <<connVars, chanVars, slowVars, netVars, nodeVars>>

\* _routeEnvelopeDHTLookup failed: drop the envelope when the peer is closing or
\* slow_queue is nearly full, else go and send it to slow_queue.
MoveToSlow(w) ==
    /\ wpc[w] = "lookupFailed"
    /\ IF isClosing \/ Len(slow_queue) >= SlowQueueSize - 1
       THEN Fail(job[w]) /\ Return(w)
       ELSE /\ wpc' = [wpc EXCEPT ![w] = "push"]
            /\ UNCHANGED <<job, succeeded, failed>>
    /\ UNCHANGED <<connVars, chanVars, slowVars, netVars, nodeVars>>

\* The blocking send; the length was tested in an earlier step.
PushSlow(w) ==
    /\ wpc[w] = "push"
    /\ \/ /\ closeStep # "closed"
          /\ Len(slow_queue) < SlowQueueSize
          /\ slow_queue' = Append(slow_queue, job[w])
          /\ UNCHANGED <<failed, panicked>>
       \/ /\ closeStep = "closed"
          /\ panicked' = TRUE
          /\ failed' = failed \cup {job[w]}
          /\ UNCHANGED slow_queue
    /\ Return(w)
    /\ UNCHANGED <<connVars, chanVars, spc, sjob, lastSlow, netVars, succeeded,
                   agent, closeStep>>

-----------------------------------------------------------------------------
(* slowEnvelopeSendLoop, the only goroutine that receives from slow_queue.  *)

\* The loop ends.
LoopEnds == isClosing

\* Receive.  A peer that is closing abandons what it has just received.
SlowReceive ==
    /\ spc = "recv"
    /\ slow_queue # <<>>
    /\ slow_queue' = Tail(slow_queue)
    /\ IF LoopEnds
       THEN /\ spc' = "ended"
            /\ Fail(Head(slow_queue))
            /\ UNCHANGED <<sjob, lastSlow>>
       ELSE /\ spc' = "route"
            /\ sjob' = Head(slow_queue)
            /\ lastSlow' = [lastSlow EXCEPT ![Head(slow_queue).pair] = Head(slow_queue).n]
            /\ UNCHANGED <<succeeded, failed>>
    /\ UNCHANGED <<connVars, chanVars, workVars, netVars, nodeVars>>

\* The queue is closed and drained.
SlowEnd ==
    /\ spc = "recv"
    /\ slow_queue = <<>>
    /\ closeStep = "closed"
    /\ spc' = "ended"
    /\ UNCHANGED <<connVars, chanVars, workVars, slow_queue, sjob, lastSlow, netVars,
                   viewVars, nodeVars>>

SlowReturn == spc' = "recv" /\ sjob' = NoEnv

\* An error is logged and the loop goes on.  Mutants: the envelope is put back
\* on the queue; the error ends the loop.
SlowGiveUpRequeue ==
    /\ Len(slow_queue) < SlowQueueSize
    /\ slow_queue' = Append(slow_queue, sjob)
    /\ SlowReturn
    /\ UNCHANGED <<succeeded, failed>>
SlowGiveUpQuit ==
    Fail(sjob) /\ spc' = "ended" /\ sjob' = NoEnv /\ UNCHANGED slow_queue
SlowGiveUp == Fail(sjob) /\ SlowReturn /\ UNCHANGED slow_queue

\* _routeEnvelopeDHTLookup with the 20s timeout; a failure is final.
SlowLookup ==
    /\ spc = "route"
    /\ \/ /\ Send(sjob, "slow")
          /\ spc' = "status"
          /\ UNCHANGED <<slow_queue, sjob, succeeded, failed>>
       \/ SlowGiveUp /\ UNCHANGED wire
    /\ UNCHANGED <<connVars, chanVars, workVars, lastSlow, delivered, lost, acks,
                   nodeVars>>

SlowStatus ==
    /\ spc = "status"
    /\ \/ /\ Handled(sjob, "slow")
          /\ Succeed(sjob)
          /\ SlowReturn
          /\ UNCHANGED slow_queue
       \/ SlowGiveUp
    /\ UNCHANGED <<connVars, chanVars, workVars, lastSlow, netVars, nodeVars>>

-----------------------------------------------------------------------------
(* The other end of an envelope stream: HandleAeaEnvelope of a remote peer  *)
(* or client hands the copy to the target or refuses it.  It may do so after *)
(* the sender has seen its stream break.                                    *)

Arrive(cp) ==
    /\ cp \in wire
    /\ wire' = wire \ {cp}
    /\ Deliver(cp.env, cp.via)
    /\ UNCHANGED <<connVars, chanVars, workVars, slowVars, lost, acks, viewVars, nodeVars>>

Refuse(cp) ==
    /\ cp \in wire
    /\ wire' = wire \ {cp}
    /\ UNCHANGED <<connVars, chanVars, workVars, slowVars, delivered, lost, acks, viewVars,
                   nodeVars>>

\* HandleAeaEnvelope of a peer returns no error though the target does not get the
\* copy: it ignores the error of processEnvelope for its own agent, and for a delegate
\* client it takes any status with the address of the client for that of this envelope.
Ignore(cp) ==
    /\ cp \in wire
    /\ Routes[cp.env.pair[1]] \cap {"remoteAgent", "remoteDelegate"} # {}
    /\ wire' = wire \ {cp}
    /\ lost' = lost \cup {cp}
    /\ UNCHANGED <<connVars, chanVars, workVars, slowVars, delivered, acks, viewVars, nodeVars>>

-----------------------------------------------------------------------------
(* The node: its agent connects, then ProcessEnvelope sets the callback; and *)
(* Close.                                                                   *)

AgentStep ==
    /\ \E x \in Addresses : "mine" \in Routes[x]  \* the node has an agent
    /\ agent # "set"
    /\ agent' = IF agent = "connecting" THEN "connected" ELSE "set"
    /\ UNCHANGED <<connVars, chanVars, workVars, slowVars, netVars, viewVars,
                   closeStep, panicked>>

\* isClosing is set and the delegate connections are closed (Disconnect).
CloseBegin ==
    /\ MayClose
    /\ closeStep = "open"
    /\ closeStep' = "closing"
    /\ UNCHANGED <<connVars, chanVars, workVars, slowVars, netVars, viewVars, agent, panicked>>

\* Every channel of the map is closed, in one lock region.
CloseChannels ==
    /\ closeStep = "closing"
    /\ closeStep' = "drained"
    /\ closedChans' = {ch \in Channels : syncMessages[ch[2]] = ch[1]}
    /\ UNCHANGED <<connVars, syncMessages, chan, ranging, lastRouted, workVars, slowVars,
                   netVars, viewVars, agent, panicked>>

CloseSlowQueue ==
    /\ closeStep = "drained"
    /\ closeStep' = "closed"
    /\ UNCHANGED <<connVars, chanVars, workVars, slowVars, netVars, viewVars, agent, panicked>>

-----------------------------------------------------------------------------

HandlerStep(c) == CheckPair(c) \/ CreatePair(c) \/ EnqueuePair(c)

RouteStep(w) ==
    \/ RejectSender(w) \/ RouteMailbox(w) \/ RouteMyAgent(w)
    \/ RouteDelegate(w) \/ AwaitAck(w) \/ RouteRelay(w)
    \/ RouteLookup(w) \/ ReadStatus(w) \/ MoveToSlow(w) \/ PushSlow(w)

GoroutineStep(g) == StartPair(g) \/ ReceivePair(g) \/ RangeEnd(g)

SlowStep == SlowReceive \/ SlowEnd \/ SlowLookup \/ SlowStatus

CloseStep == CloseBegin \/ CloseChannels \/ CloseSlowQueue

\* A panic ends the process.
Next ==
    /\ ~ panicked
    /\ \/ \E c \in Conns : Accept(c) \/ Disconnect(c) \/ HandlerStep(c)
       \/ \E c \in Conns, p \in Pairs : ReadEnvelope(c, p)
       \/ \E k \in Callers, p \in Pairs : CallRoute(k, p)
       \/ \E g \in Goroutines : GoroutineStep(g)
       \/ \E w \in Workers : RouteStep(w)
       \/ SlowStep
       \/ \E cp \in wire : Arrive(cp) \/ Refuse(cp) \/ Ignore(cp)
       \/ AgentStep
       \/ CloseStep

Spec == Init /\ [][Next]_vars

\* Goroutines that can run do run.  A lookup, a stream and a status read end: a dial
\* has a timeout, but a read of a status from a stream has none, so this assumes
\* that the far end answers or its connection breaks.  The agent of the node
\* connects (main panics otherwise).  Clients need not send anything and nobody
\* needs to call Close.
Fairness ==
    /\ \A c \in Conns : WF_vars(~ panicked /\ HandlerStep(c))
    /\ \A g \in Goroutines : WF_vars(~ panicked /\ GoroutineStep(g))
    /\ \A w \in Workers : WF_vars(~ panicked /\ RouteStep(w))
    /\ WF_vars(~ panicked /\ SlowStep)
    /\ WF_vars(~ panicked /\ AgentStep)

FairSpec == Spec /\ Fairness

-----------------------------------------------------------------------------
(* Properties                                                               *)

HandlerStates == {"new", "read", "check", "create", "enqueue", "gone"}
RouteStates ==
    {"route", "await", "statusRelay", "statusRemote", "lookupFailed", "push"}
WorkerStates == RouteStates \cup {"unborn", "start", "recv", "idle", "ended"}
SlowStates == {"recv", "route", "status", "ended"}

ConnTypeOK ==
    /\ hpc \in [Conns -> HandlerStates]
    /\ hand \in [Conns -> Envelopes \cup {NoEnv}]
    /\ \A c \in Conns : hand[c] = NoEnv <=> hpc[c] \in {"new", "read", "gone"}
    /\ sent \in [Pairs -> 0..MaxSent]

ChanTypeOK ==
    /\ syncMessages \in [Pairs -> Conns \cup {NoConn}]
    /\ chan \in [Channels -> Seq(Nat)]
    /\ \A ch \in Channels : Len(chan[ch]) <= PairQueueSize
    /\ closedChans \subseteq Channels
    /\ ranging \in [Goroutines -> Conns \cup {NoConn}]
    /\ lastRouted \in [Pairs -> Nat]

WorkTypeOK ==
    /\ wpc \in [Workers -> WorkerStates]
    /\ job \in [Workers -> Envelopes \cup {NoEnv}]
    /\ \A w \in Workers : job[w] # NoEnv <=> wpc[w] \in RouteStates

SlowTypeOK ==
    /\ slow_queue \in Seq(Envelopes)
    /\ Len(slow_queue) <= SlowQueueSize
    /\ spc \in SlowStates
    /\ sjob \in Envelopes \cup {NoEnv}
    /\ sjob # NoEnv <=> spc \in {"route", "status"}
    /\ lastSlow \in [Pairs -> Nat]

NetTypeOK ==
    /\ wire \subseteq [env : Envelopes, via : Vias \ {"tcp"}]
    /\ delivered \in [Pairs -> Seq([n : Nat, via : Vias])]
    /\ lost \subseteq [env : Envelopes, via : Vias]
    /\ acks \subseteq Envelopes

ViewTypeOK == succeeded \subseteq Envelopes /\ failed \subseteq Envelopes

NodeTypeOK ==
    /\ agent \in {"connecting", "connected", "set"}
    /\ closeStep \in {"open", "closing", "drained", "closed"}
    /\ panicked \in BOOLEAN

\* The variables have the values their declarations announce, a handler, a
\* worker and the slow loop hold an envelope exactly while their program
\* counter says so, and no buffer exceeds the capacity given to make(chan).
TypeOK ==
    /\ ConnTypeOK /\ ChanTypeOK /\ WorkTypeOK /\ SlowTypeOK
    /\ NetTypeOK /\ ViewTypeOK /\ NodeTypeOK

Accepted == {e \in [pair : Pairs, n : 1..MaxSent] : e.n <= sent[e.pair]}
Settled(e) == e \in succeeded \cup failed

\* The places of the peer that hold e, counted with multiplicity.
Holders(e) ==
    Cardinality({c \in Conns : hand[c] = e})
    + Cardinality({x \in Conns \X (1..PairQueueSize) :
          LET q == chan[<<x[1], e.pair>>] IN x[2] <= Len(q) /\ q[x[2]] = e.n})
    + Cardinality({w \in Workers : job[w] = e})
    + Cardinality({i \in 1..Len(slow_queue) : slow_queue[i] = e})
    + (IF sjob = e THEN 1 ELSE 0)
    + (IF e \in succeeded THEN 1 ELSE 0)
    + (IF e \in failed THEN 1 ELSE 0)

\* Every envelope the peer has acknowledged to its client is in exactly one
\* place: held once by a handler, a channel, a worker, slow_queue or the slow
\* loop, or settled with one verdict.  None vanishes and none is forked, along
\* every path of the delegate handler, RouteEnvelope and the slow loop.
Conservation == \A e \in Accepted : Holders(e) = 1

\* The comment at the creation of a channel: "initializing pairwise channel
\* queues and one go routine per pair".  The goroutines made for a pair by two
\* handlers are one and the same.
OneGoroutinePerPair ==
    \A c, d \in Conns, p \in Pairs :
        wpc[<<c, p>>] # "unborn" /\ wpc[<<d, p>>] # "unborn" => c = d

\* RouteEnvelope is called on the envelopes of a delegate client's pair in the
\* order in which the handlers of its connections read them.
FastPathOrder == [][\A p \in Pairs : lastRouted[p] <= lastRouted'[p]]_vars

\* slowEnvelopeSendLoop retries the envelopes of a pair in that order too.
SlowPathOrder == [][\A p \in Pairs : lastSlow[p] <= lastSlow'[p]]_vars

\* Once its clients pause (at MaxSent), the peer settles all it has accepted,
\* unless it is closed: no channel is abandoned, and no goroutine, blocked in a
\* send to slow_queue perhaps, waits for ever.
EverythingSettles == []<>(isClosing \/ \A e \in Accepted : Settled(e))

\* The envelope has left the order of its pair: it was given up, or the slow path
\* has it or has sent it.
TookSlowPath(e) ==
    \/ e \in failed
    \/ sjob = e \/ \E i \in 1..Len(slow_queue) : slow_queue[i] = e
    \/ Handled(e, "slow")

\* README.md, "Guarantees": "total ordering of messages for all agent pairs".  The
\* code gives it to the envelopes that the first attempt of RouteEnvelope serves,
\* over reconnections too: one that its target gets after a later one was given up
\* or went by slow_queue.
OvertakenIsSlow ==
    \A p \in Pairs : \A i, j \in 1..Len(delivered[p]) :
        i < j /\ delivered[p][i].n > delivered[p][j].n => TookSlowPath(Env(p, delivered[p][j].n))

Promise ==
    INSTANCE Delivery WITH
        Vias <- Vias, Acked <- {"tcp"},
        Careless <- {a \in Addresses : Routes[a] \cap {"remoteAgent", "remoteDelegate"} # {}}

\* The peer keeps the promise of Delivery, whose variables it has among its own,
\* whatever the goroutines, the retries and Close do: there is one verdict for each
\* envelope; no error means that the target has it, that a delegate client with that
\* address has acknowledged one envelope that no other success counts on, or that the
\* peer of a remote agent or delegate client answered for it; a retry after a lost
\* status can duplicate an envelope, but no path delivers it twice.
KeepsPromise == Promise!Spec
=============================================================================
