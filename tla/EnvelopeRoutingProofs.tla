----------------------- MODULE EnvelopeRoutingProofs -----------------------
(***************************************************************************)
(* Proofs about EnvelopeRouting, for any set of connections, callers and    *)
(* pairs, any capacities and any number of envelopes.                       *)
(***************************************************************************)
EXTENDS EnvelopeRouting, SequenceTheorems, FiniteSetTheorems, TLAPS

USE PairsAssumption, AddrAssumption, SizeAssumption, AbsentAssumption

\* A handler about to create a channel has no goroutine for the pair yet.  A
\* handler about to enqueue, and a goroutine once it is born, find a channel in
\* the map; a goroutine past its start has taken one.
MapInv ==
    /\ \A c \in Conns : hpc[c] = "create" => wpc[<<c, hand[c].pair>>] = "unborn"
    /\ \A c \in Conns : hpc[c] = "enqueue" => syncMessages[hand[c].pair] # NoConn
    /\ \A g \in Goroutines : wpc[g] # "unborn" => syncMessages[g[2]] # NoConn
    /\ \A g \in Goroutines : wpc[g] \notin {"unborn", "start"} => ranging[g] # NoConn

TypeInv == TypeOK /\ MapInv

\* The initial state has the types, and no handler or goroutine is running.
LEMMA TypeInit == Init => TypeInv
<1> SUFFICES ASSUME Init PROVE TypeInv OBVIOUS
<1>1. ConnTypeOK BY DEF Init, ConnTypeOK, HandlerStates
<1>2. ChanTypeOK BY DEF Init, ChanTypeOK
<1>3. WorkTypeOK BY DEF Init, WorkTypeOK, WorkerStates, RouteStates
<1>4. SlowTypeOK BY DEF Init, SlowTypeOK, SlowStates
<1>5. NetTypeOK BY DEF Init, NetTypeOK
<1>6. ViewTypeOK BY DEF Init, ViewTypeOK
<1>7. NodeTypeOK BY DEF Init, NodeTypeOK
<1>8. MapInv BY DEF Init, MapInv, Workers
<1> QED BY <1>1, <1>2, <1>3, <1>4, <1>5, <1>6, <1>7, <1>8 DEF TypeInv, TypeOK

\* What a handler past its read, a worker in RouteEnvelope and the slow loop
\* hold is an envelope.
LEMMA HeldIsEnvelope ==
  ASSUME TypeOK
  PROVE  /\ \A c \in Conns : hpc[c] \in {"check", "create", "enqueue"}
               => hand[c] \in Envelopes
         /\ \A w \in Workers : wpc[w] \in RouteStates => job[w] \in Envelopes
         /\ spc \in {"route", "status"} => sjob \in Envelopes
BY DEF TypeOK, ConnTypeOK, WorkTypeOK, SlowTypeOK, RouteStates

\* The steps of a handler before it enqueues keep the types.
LEMMA TypeHandler ==
  ASSUME TypeInv, NEW c \in Conns,
         Accept(c) \/ Disconnect(c) \/ CheckPair(c) \/ (\E p \in Pairs : ReadEnvelope(c, p))
  PROVE  TypeInv'
<1> USE DEF TypeInv, TypeOK
<1>1. CASE Accept(c)
  <2> USE <1>1 DEF Accept
  <2>1. ConnTypeOK' BY DEF ConnTypeOK, HandlerStates
  <2>2. ChanTypeOK' BY DEF ChanTypeOK, chanVars
  <2>3. WorkTypeOK' BY DEF WorkTypeOK, workVars
  <2>4. SlowTypeOK' /\ NetTypeOK' /\ ViewTypeOK' /\ NodeTypeOK'
    BY DEF SlowTypeOK, slowVars, NetTypeOK, netVars, ViewTypeOK, viewVars, NodeTypeOK, nodeVars
  <2>5. MapInv' BY DEF MapInv, chanVars, workVars, ConnTypeOK
  <2> QED BY <2>1, <2>2, <2>3, <2>4, <2>5
<1>2. CASE Disconnect(c)
  <2> USE <1>2 DEF Disconnect
  <2>1. ConnTypeOK' BY DEF ConnTypeOK, HandlerStates
  <2>2. ChanTypeOK' BY DEF ChanTypeOK, chanVars
  <2>3. WorkTypeOK' BY DEF WorkTypeOK, workVars
  <2>4. SlowTypeOK' /\ NetTypeOK' /\ ViewTypeOK' /\ NodeTypeOK'
    BY DEF SlowTypeOK, slowVars, NetTypeOK, netVars, ViewTypeOK, viewVars, NodeTypeOK, nodeVars
  <2>5. MapInv' BY DEF MapInv, chanVars, workVars, ConnTypeOK
  <2> QED BY <2>1, <2>2, <2>3, <2>4, <2>5
<1>3. CASE CheckPair(c)
  <2> USE <1>3 DEF CheckPair
  <2>1. ConnTypeOK' BY DEF ConnTypeOK, HandlerStates
  <2>2. ChanTypeOK' BY DEF ChanTypeOK, chanVars
  <2>3. WorkTypeOK' BY DEF WorkTypeOK, workVars
  <2>4. SlowTypeOK' /\ NetTypeOK' /\ ViewTypeOK' /\ NodeTypeOK'
    BY DEF SlowTypeOK, slowVars, NetTypeOK, netVars, ViewTypeOK, viewVars, NodeTypeOK, nodeVars
  <2>5. <<c, hand[c].pair>> \in Goroutines
    BY HeldIsEnvelope DEF Envelopes, Goroutines, Channels
  <2>6. MapInv' BY <2>5 DEF MapInv, chanVars, workVars, ConnTypeOK, NoChannel
  <2> QED BY <2>1, <2>2, <2>3, <2>4, <2>6
<1>4. ASSUME NEW p \in Pairs, ReadEnvelope(c, p) PROVE TypeInv'
  <2> USE <1>4 DEF ReadEnvelope
  <2>1. ConnTypeOK' BY DEF ConnTypeOK, HandlerStates, Env, Envelopes
  <2>2. ChanTypeOK' BY DEF ChanTypeOK, chanVars
  <2>3. WorkTypeOK' BY DEF WorkTypeOK, workVars
  <2>4. SlowTypeOK' /\ NetTypeOK' /\ ViewTypeOK' /\ NodeTypeOK'
    BY DEF SlowTypeOK, slowVars, NetTypeOK, netVars, ViewTypeOK, viewVars, NodeTypeOK, nodeVars
  <2>5. MapInv' BY DEF MapInv, chanVars, workVars, ConnTypeOK
  <2> QED BY <2>1, <2>2, <2>3, <2>4, <2>5
<1> QED BY <1>1, <1>2, <1>3, <1>4

\* Making the channel of a pair and spawning its goroutine keeps the types.
LEMMA TypeCreate ==
  ASSUME TypeInv, NEW c \in Conns, CreatePair(c)
  PROVE  TypeInv'
<1> USE DEF TypeInv, TypeOK, CreatePair
<1>1. hand[c] \in Envelopes /\ hand[c].pair \in Pairs
  BY HeldIsEnvelope DEF Envelopes
<1>2. <<c, hand[c].pair>> \in Goroutines /\ <<c, hand[c].pair>> \in Workers
  BY <1>1 DEF Goroutines, Channels, Workers
<1>3. ConnTypeOK' BY DEF ConnTypeOK, HandlerStates
<1>4. ChanTypeOK' BY <1>1 DEF ChanTypeOK
<1>5. PICK g \in Workers : g = <<c, hand[c].pair>> BY <1>2
<1>6. WorkTypeOK' BY <1>5 DEF WorkTypeOK, MapInv, WorkerStates, RouteStates
<1>7. SlowTypeOK' /\ NetTypeOK' /\ ViewTypeOK' /\ NodeTypeOK'
  BY DEF SlowTypeOK, slowVars, NetTypeOK, netVars, ViewTypeOK, viewVars, NodeTypeOK, nodeVars
<1>8. MapInv' BY <1>1, <1>5 DEF MapInv, WorkTypeOK, ChanTypeOK, ConnTypeOK
<1> QED BY <1>3, <1>4, <1>6, <1>7, <1>8

\* The non-blocking send keeps the types: it appends only where there is room.
LEMMA TypeEnqueue ==
  ASSUME TypeInv, NEW c \in Conns, EnqueuePair(c)
  PROVE  TypeInv'
<1> DEFINE p == hand[c].pair
           ch == <<syncMessages[p], p>>
<1> USE DEF TypeInv, TypeOK
<1>1. hand[c] \in Envelopes /\ p \in Pairs /\ hand[c].n \in Nat
  BY HeldIsEnvelope DEF Envelopes, EnqueuePair
<1>2. ch \in Channels
  BY <1>1 DEF Channels, MapInv, ChanTypeOK, EnqueuePair
<1>3. ConnTypeOK' BY DEF ConnTypeOK, HandlerStates, EnqueuePair
<1>4. ChanTypeOK'
  <2>1. chan[ch] \in Seq(Nat) BY <1>2 DEF ChanTypeOK
  <2>2. /\ Append(chan[ch], hand[c].n) \in Seq(Nat)
        /\ Len(Append(chan[ch], hand[c].n)) = Len(chan[ch]) + 1
    BY <1>1, <2>1, AppendProperties
  <2>3. CASE ch \notin closedChans /\ HasRoom(ch)
    <3>1. chan' = [chan EXCEPT ![ch] = Append(@, hand[c].n)]
      BY <2>3 DEF EnqueuePair
    <3>2. Len(chan[ch]) + 1 <= PairQueueSize
      BY <2>1, <2>3, LenProperties DEF HasRoom
    <3> QED BY <1>2, <2>2, <3>1, <3>2 DEF ChanTypeOK, EnqueuePair
  <2>4. CASE ~ (ch \notin closedChans /\ HasRoom(ch))
    BY <2>4 DEF ChanTypeOK, EnqueuePair
  <2> QED BY <2>3, <2>4
<1>5. WorkTypeOK' BY DEF WorkTypeOK, workVars, EnqueuePair
<1>6. SlowTypeOK' /\ NetTypeOK' /\ NodeTypeOK'
  BY DEF SlowTypeOK, slowVars, NetTypeOK, netVars, NodeTypeOK, EnqueuePair
<1>7. ViewTypeOK' BY <1>1 DEF ViewTypeOK, EnqueuePair
<1>8. MapInv' BY DEF MapInv, ConnTypeOK, workVars, EnqueuePair
<1> QED BY <1>3, <1>4, <1>5, <1>6, <1>7, <1>8

\* The goroutine of a pair keeps the types, in particular those of the envelope
\* it takes from the channel.
LEMMA TypeGoroutine ==
  ASSUME TypeInv, NEW g \in Goroutines, GoroutineStep(g)
  PROVE  TypeInv'
<1> USE DEF TypeInv, TypeOK
<1>1. g \in Workers /\ g[1] \in Conns /\ g[2] \in Pairs
  BY DEF Workers, Goroutines, Channels
<1>2. CASE StartPair(g)
  <2> USE <1>2 DEF StartPair
  <2>1. ConnTypeOK' BY DEF ConnTypeOK, connVars
  <2>2. ChanTypeOK' BY <1>1 DEF ChanTypeOK
  <2>3. WorkTypeOK' BY <1>1 DEF WorkTypeOK, WorkerStates, RouteStates
  <2>4. SlowTypeOK' /\ NetTypeOK' /\ ViewTypeOK' /\ NodeTypeOK'
    BY DEF SlowTypeOK, slowVars, NetTypeOK, netVars, ViewTypeOK, viewVars, NodeTypeOK, nodeVars
  <2>5. MapInv' BY <1>1 DEF MapInv, connVars, WorkTypeOK, ChanTypeOK
  <2> QED BY <2>1, <2>2, <2>3, <2>4, <2>5
<1>3. CASE ReceivePair(g)
  <2> DEFINE ch == <<ranging[g], g[2]>>
  <2> USE <1>3 DEF ReceivePair
  <2>1. ch \in Channels
    BY <1>1 DEF MapInv, ChanTypeOK, Channels
  <2>2. chan[ch] \in Seq(Nat) /\ chan[ch] # <<>>
    BY <2>1 DEF ChanTypeOK
  <2>3. /\ Head(chan[ch]) \in Nat
        /\ Tail(chan[ch]) \in Seq(Nat)
        /\ Len(Tail(chan[ch])) = Len(chan[ch]) - 1
    BY <2>2, HeadTailProperties
  <2>4. Len(Tail(chan[ch])) <= PairQueueSize
    BY <2>1, <2>2, <2>3, LenProperties DEF ChanTypeOK
  <2>5. ConnTypeOK' BY DEF ConnTypeOK, connVars
  <2>6. ChanTypeOK' BY <1>1, <2>1, <2>3, <2>4 DEF ChanTypeOK
  <2>7. Env(g[2], Head(chan[ch])) \in Envelopes
    BY <1>1, <2>3 DEF Env, Envelopes
  <2>8. WorkTypeOK' BY <1>1, <2>7 DEF WorkTypeOK, WorkerStates, RouteStates
  <2>9. SlowTypeOK' /\ NetTypeOK' /\ ViewTypeOK' /\ NodeTypeOK'
    BY DEF SlowTypeOK, slowVars, NetTypeOK, netVars, ViewTypeOK, NodeTypeOK, nodeVars
  <2>10. MapInv' BY <1>1 DEF MapInv, connVars, WorkTypeOK
  <2> QED BY <2>5, <2>6, <2>8, <2>9, <2>10
<1>4. CASE RangeEnd(g)
  <2> USE <1>4 DEF RangeEnd
  <2>1. ConnTypeOK' BY DEF ConnTypeOK, connVars
  <2>2. ChanTypeOK' BY DEF ChanTypeOK, chanVars
  <2>3. WorkTypeOK' BY <1>1 DEF WorkTypeOK, WorkerStates, RouteStates
  <2>4. SlowTypeOK' /\ NetTypeOK' /\ ViewTypeOK' /\ NodeTypeOK'
    BY DEF SlowTypeOK, slowVars, NetTypeOK, netVars, ViewTypeOK, viewVars, NodeTypeOK, nodeVars
  <2>5. MapInv' BY <1>1 DEF MapInv, connVars, chanVars, WorkTypeOK
  <2> QED BY <2>1, <2>2, <2>3, <2>4, <2>5
<1> QED BY <1>2, <1>3, <1>4 DEF GoroutineStep

\* A direct call of RouteEnvelope keeps the types.
LEMMA TypeCall ==
  ASSUME TypeInv, NEW k \in Callers, NEW p \in Pairs, CallRoute(k, p)
  PROVE  TypeInv'
<1> USE DEF TypeInv, TypeOK, CallRoute
<1>1. k \in Workers /\ k \notin Goroutines BY DEF Workers
<1>2. Env(p, sent[p] + 1) \in Envelopes BY DEF Env, Envelopes, ConnTypeOK
<1>3. ConnTypeOK' BY DEF ConnTypeOK
<1>4. ChanTypeOK' BY DEF ChanTypeOK, chanVars
<1>5. WorkTypeOK' BY <1>1, <1>2 DEF WorkTypeOK, WorkerStates, RouteStates
<1>6. SlowTypeOK' /\ NetTypeOK' /\ ViewTypeOK' /\ NodeTypeOK'
  BY DEF SlowTypeOK, slowVars, NetTypeOK, netVars, ViewTypeOK, NodeTypeOK, nodeVars
<1>7. MapInv' BY <1>1 DEF MapInv, chanVars, WorkTypeOK
<1> QED BY <1>3, <1>4, <1>5, <1>6, <1>7

\* Handing an envelope to its target, or sending a copy of it, keeps the types.
LEMMA TypeDeliver ==
  ASSUME NetTypeOK, NEW e \in Envelopes, NEW via \in Vias
  PROVE  /\ Deliver(e, via) /\ wire' \subseteq wire /\ UNCHANGED lost /\ acks' \subseteq acks \cup {e}
               => NetTypeOK'
         /\ Send(e, via) /\ via # "tcp" /\ UNCHANGED <<delivered, lost, acks>> => NetTypeOK'
         /\ lost' = lost \cup {Copy(e, via)} /\ wire' \subseteq wire /\ UNCHANGED <<delivered, acks>>
               => NetTypeOK'
<1>1. e.pair \in Pairs /\ [n |-> e.n, via |-> via] \in [n : Nat, via : Vias]
  BY DEF Envelopes
<1>2. delivered[e.pair] \in Seq([n : Nat, via : Vias])
  BY <1>1 DEF NetTypeOK
<1>3. Append(delivered[e.pair], [n |-> e.n, via |-> via]) \in Seq([n : Nat, via : Vias])
  BY <1>1, <1>2, AppendProperties
<1>4. ASSUME Deliver(e, via), wire' \subseteq wire, UNCHANGED lost, acks' \subseteq acks \cup {e}
      PROVE  NetTypeOK'
  <2>1. delivered' \in [Pairs -> Seq([n : Nat, via : Vias])]
    BY <1>1, <1>3, <1>4 DEF Deliver, NetTypeOK
  <2> QED BY <1>4, <2>1 DEF NetTypeOK
<1>5. ASSUME Send(e, via), via # "tcp", UNCHANGED <<delivered, lost, acks>> PROVE NetTypeOK'
  <2>1. Copy(e, via) \in [env : Envelopes, via : Vias \ {"tcp"}] BY <1>5 DEF Copy
  <2> QED BY <1>5, <2>1 DEF Send, NetTypeOK
<1>6. ASSUME lost' = lost \cup {Copy(e, via)}, wire' \subseteq wire, UNCHANGED <<delivered, acks>>
      PROVE  NetTypeOK'
  <2>1. Copy(e, via) \in [env : Envelopes, via : Vias] BY DEF Copy
  <2> QED BY <1>6, <2>1 DEF NetTypeOK
<1> QED BY <1>4, <1>5, <1>6

\* A step of RouteEnvelope keeps the types: it starts with an envelope in hand
\* and either goes on with it or returns.
LEMMA TypeRoute ==
  ASSUME TypeInv, NEW w \in Workers, RouteStep(w)
  PROVE  TypeInv'
<1> USE DEF TypeInv, TypeOK
<1> DEFINE GoesOn == \E s \in RouteStates : wpc' = [wpc EXCEPT ![w] = s] /\ UNCHANGED job
           Views == Succeed(job[w]) \/ Fail(job[w]) \/ UNCHANGED viewVars
<1>1. wpc[w] \in RouteStates
  BY DEF RouteStep, RejectSender, RouteMailbox, RouteMyAgent, RouteDelegate, AwaitAck,
         RouteRelay, RouteLookup, ReadStatus, MoveToSlow, PushSlow, CanRoute, RouteStates
<1>2. job[w] \in Envelopes
  BY <1>1, HeldIsEnvelope
<1>3. UNCHANGED <<connVars, chanVars>>
  BY DEF RouteStep, RejectSender, RouteMailbox, RouteMyAgent, RouteDelegate, AwaitAck,
         RouteRelay, RouteLookup, ReadStatus, MoveToSlow, PushSlow
<1>4. Return(w) \/ GoesOn
  BY DEF RouteStep, RejectSender, RouteMailbox, RouteMyAgent, RouteDelegate, AwaitAck,
         RouteRelay, RouteLookup, ReadStatus, MoveToSlow, PushSlow, RouteStates, WriteFailed
<1>5. ConnTypeOK' /\ ChanTypeOK'
  BY <1>3 DEF ConnTypeOK, connVars, ChanTypeOK, chanVars
<1>6. WorkTypeOK'
  BY <1>1, <1>2, <1>4 DEF WorkTypeOK, WorkerStates, RouteStates, Return
<1>7. MapInv'
  <2>1. PICK s : wpc' = [wpc EXCEPT ![w] = s] BY <1>4 DEF Return
  <2>2. wpc[w] \notin {"unborn", "start"} BY <1>1 DEF RouteStates
  <2>3. s \notin {"unborn", "start"}
    BY <1>4, <2>1 DEF Return, RouteStates, WorkTypeOK
  <2> QED BY <1>3, <2>1, <2>2, <2>3 DEF MapInv, connVars, chanVars, WorkTypeOK
<1>8. NodeTypeOK'
  BY DEF RouteStep, RejectSender, RouteMailbox, RouteMyAgent, RouteDelegate, AwaitAck,
         RouteRelay, RouteLookup, ReadStatus, MoveToSlow, PushSlow, NodeTypeOK, nodeVars
<1>9. ViewTypeOK'
  <2>1. Views \/ (UNCHANGED succeeded /\ failed' = failed \cup {job[w]})
    BY DEF RouteStep, RejectSender, RouteMailbox, RouteMyAgent, RouteDelegate, AwaitAck,
           RouteRelay, RouteLookup, ReadStatus, MoveToSlow, PushSlow, ProcessFailed,
           WriteFailed, viewVars
  <2> QED BY <1>2, <2>1 DEF ViewTypeOK, viewVars, Succeed, Fail
<1>10. NetTypeOK'
  <2> DEFINE Del == \E via \in {"tcp", "fast"} :
                      /\ Deliver(job[w], via) /\ UNCHANGED <<wire, lost>>
                      /\ acks' \subseteq acks \cup {job[w]}
             Snd == Send(job[w], "fast") /\ UNCHANGED <<delivered, lost, acks>>
             Los == /\ lost' = lost \cup {Copy(job[w], "tcp")}
                    /\ UNCHANGED <<wire, delivered, acks>>
             Ack == UNCHANGED <<wire, delivered, lost>> /\ acks' \subseteq acks
  <2> DEFINE Any == Del \/ Snd \/ Los \/ Ack
  <2>1. ASSUME RouteDelegate(w) PROVE Any
    BY <2>1 DEF RouteDelegate, WriteFailed
  <2>2. ASSUME AwaitAck(w) PROVE Any BY <2>2 DEF AwaitAck, TakeAck
  <2>3. ASSUME RouteMailbox(w) \/ RouteMyAgent(w) PROVE Any
    BY <2>3 DEF RouteMailbox, RouteMyAgent, ProcessFailed
  <2>4. ASSUME \/ RejectSender(w) \/ RouteRelay(w) \/ RouteLookup(w) \/ ReadStatus(w)
               \/ MoveToSlow(w) \/ PushSlow(w)
        PROVE  Any
    BY <2>4 DEF RejectSender, RouteRelay, RouteLookup, ReadStatus, MoveToSlow, PushSlow, netVars
  <2>5. Any
    <3> HIDE DEF Any
    <3> QED BY <2>1, <2>2, <2>3, <2>4 DEF RouteStep
  <2>6. "fast" \in Vias /\ "tcp" \in Vias BY DEF Vias
  <2>7. CASE Del BY <1>2, <2>6, <2>7, TypeDeliver
  <2>8. CASE Snd BY <1>2, <2>6, <2>8, TypeDeliver
  <2>9. CASE Los BY <1>2, <2>6, <2>9, TypeDeliver
  <2>10. CASE Ack BY <2>10 DEF NetTypeOK
  <2> QED BY <2>5, <2>7, <2>8, <2>9, <2>10
<1>11. SlowTypeOK'
  <2>1. CASE UNCHANGED slowVars BY <2>1 DEF SlowTypeOK, slowVars
  <2>2. CASE /\ Len(slow_queue) < SlowQueueSize
             /\ slow_queue' = Append(slow_queue, job[w])
             /\ UNCHANGED <<spc, sjob, lastSlow>>
    <3>1. slow_queue' \in Seq(Envelopes) /\ Len(slow_queue') = Len(slow_queue) + 1
      BY <1>2, <2>2, AppendProperties DEF SlowTypeOK
    <3>2. Len(slow_queue') <= SlowQueueSize
      BY <2>2, <3>1, LenProperties DEF SlowTypeOK
    <3> QED BY <2>2, <3>1, <3>2 DEF SlowTypeOK
  <2> QED
    BY <2>1, <2>2
       DEF RouteStep, RejectSender, RouteMailbox, RouteMyAgent, RouteDelegate, AwaitAck,
           RouteRelay, RouteLookup, ReadStatus, MoveToSlow, PushSlow, slowVars
<1> QED BY <1>5, <1>6, <1>7, <1>8, <1>9, <1>10, <1>11

\* The slow loop keeps the types.
LEMMA TypeSlow ==
  ASSUME TypeInv, SlowStep
  PROVE  TypeInv'
<1> USE DEF TypeInv, TypeOK
<1>1. UNCHANGED <<connVars, chanVars, workVars, nodeVars>>
  BY DEF SlowStep, SlowReceive, SlowEnd, SlowLookup, SlowStatus
<1>2. ConnTypeOK' /\ ChanTypeOK' /\ WorkTypeOK' /\ NodeTypeOK' /\ MapInv'
  BY <1>1 DEF ConnTypeOK, connVars, ChanTypeOK, chanVars, WorkTypeOK, workVars, NodeTypeOK,
              nodeVars, MapInv
<1>3. CASE SlowReceive
  <2> USE <1>3 DEF SlowReceive
  <2>1. /\ Head(slow_queue) \in Envelopes
        /\ Tail(slow_queue) \in Seq(Envelopes)
        /\ Len(Tail(slow_queue)) = Len(slow_queue) - 1
    BY HeadTailProperties DEF SlowTypeOK
  <2>2. Len(Tail(slow_queue)) <= SlowQueueSize
    BY <2>1, LenProperties DEF SlowTypeOK
  <2>3. Head(slow_queue).pair \in Pairs /\ Head(slow_queue).n \in Nat
    BY <2>1 DEF Envelopes
  <2>4. SlowTypeOK'
    BY <2>1, <2>2, <2>3 DEF SlowTypeOK, SlowStates
  <2>5. ViewTypeOK' BY <2>1 DEF ViewTypeOK, Fail
  <2>6. NetTypeOK' BY DEF NetTypeOK, netVars
  <2> QED BY <1>2, <2>4, <2>5, <2>6
<1>4. CASE SlowEnd
  BY <1>2, <1>4 DEF SlowEnd, SlowTypeOK, SlowStates, ViewTypeOK, viewVars, NetTypeOK, netVars
<1>5. CASE SlowLookup
  <2> USE <1>5 DEF SlowLookup
  <2>1. sjob \in Envelopes BY HeldIsEnvelope
  <2>2. SlowTypeOK' BY DEF SlowTypeOK, SlowStates, SlowGiveUp, SlowReturn
  <2>3. ViewTypeOK' BY <2>1 DEF ViewTypeOK, SlowGiveUp, Fail
  <2>4. "slow" \in Vias BY DEF Vias
  <2>5. NetTypeOK' BY <2>1, <2>4, TypeDeliver DEF NetTypeOK
  <2> QED BY <1>2, <2>2, <2>3, <2>5
<1>6. CASE SlowStatus
  <2> USE <1>6 DEF SlowStatus
  <2>1. sjob \in Envelopes BY HeldIsEnvelope
  <2>2. SlowTypeOK' BY DEF SlowTypeOK, SlowStates, SlowGiveUp, SlowReturn
  <2>3. ViewTypeOK' BY <2>1 DEF ViewTypeOK, SlowGiveUp, Succeed, Fail
  <2>4. NetTypeOK' BY DEF NetTypeOK, netVars
  <2> QED BY <1>2, <2>2, <2>3, <2>4
<1> QED BY <1>3, <1>4, <1>5, <1>6 DEF SlowStep

\* The network, the agent of the node and Close keep the types.
LEMMA TypeRest ==
  ASSUME TypeInv,
         (\E cp \in wire : Arrive(cp) \/ Refuse(cp) \/ Ignore(cp)) \/ AgentStep \/ CloseStep
  PROVE  TypeInv'
<1> USE DEF TypeInv, TypeOK
<1>1. ASSUME NEW cp \in wire, Arrive(cp) \/ Refuse(cp) \/ Ignore(cp) PROVE TypeInv'
  <2>1. UNCHANGED <<connVars, chanVars, workVars, slowVars, viewVars, nodeVars>>
    BY <1>1 DEF Arrive, Refuse, Ignore
  <2>2. ConnTypeOK' /\ ChanTypeOK' /\ WorkTypeOK' /\ NodeTypeOK' /\ MapInv'
    BY <2>1 DEF ConnTypeOK, connVars, ChanTypeOK, chanVars, WorkTypeOK, workVars, NodeTypeOK,
                nodeVars, MapInv
  <2>3. SlowTypeOK' /\ ViewTypeOK'
    BY <2>1 DEF SlowTypeOK, slowVars, ViewTypeOK, viewVars
  <2>4. cp.env \in Envelopes /\ cp.via \in Vias /\ cp = Copy(cp.env, cp.via)
    BY DEF NetTypeOK, Copy
  <2>5. NetTypeOK'
    <3>1. CASE Arrive(cp)
      <4>1. /\ wire' \subseteq wire /\ Deliver(cp.env, cp.via)
            /\ UNCHANGED lost /\ acks' \subseteq acks \cup {cp.env}
        BY <3>1 DEF Arrive
      <4> QED BY <2>4, <4>1, TypeDeliver
    <3>2. CASE Refuse(cp) BY <3>2 DEF Refuse, NetTypeOK
    <3>3. CASE Ignore(cp)
      <4>1. wire' \subseteq wire /\ lost' = lost \cup {cp} /\ UNCHANGED <<delivered, acks>>
        BY <3>3 DEF Ignore
      <4> QED BY <2>4, <4>1, TypeDeliver
    <3> QED BY <1>1, <3>1, <3>2, <3>3
  <2> QED BY <2>2, <2>3, <2>5
<1>2. CASE AgentStep \/ CloseStep
  <2>1. UNCHANGED <<connVars, syncMessages, chan, ranging, lastRouted, workVars, slowVars,
                    netVars, viewVars, panicked>>
    BY <1>2 DEF AgentStep, CloseStep, CloseBegin, CloseChannels, CloseSlowQueue, chanVars
  <2>2. ConnTypeOK' /\ WorkTypeOK' /\ MapInv'
    BY <2>1 DEF ConnTypeOK, connVars, WorkTypeOK, workVars, MapInv
  <2>3. SlowTypeOK' /\ ViewTypeOK' /\ NetTypeOK'
    BY <2>1 DEF SlowTypeOK, slowVars, ViewTypeOK, viewVars, NetTypeOK, netVars
  <2>4. closedChans' \subseteq Channels
    BY <1>2 DEF AgentStep, CloseStep, CloseBegin, CloseChannels, CloseSlowQueue, chanVars,
                ChanTypeOK
  <2>5. ChanTypeOK' BY <2>1, <2>4 DEF ChanTypeOK
  <2>6. NodeTypeOK'
    BY <1>2 DEF AgentStep, CloseStep, CloseBegin, CloseChannels, CloseSlowQueue, NodeTypeOK
  <2> QED BY <2>2, <2>3, <2>5, <2>6
<1> QED BY <1>1, <1>2

\* Every step keeps TypeInv.
LEMMA TypeNext == TypeInv /\ [Next]_vars => TypeInv'
<1> SUFFICES ASSUME TypeInv, [Next]_vars PROVE TypeInv'
  OBVIOUS
<1>1. CASE Next
  BY <1>1, TypeHandler, TypeCreate, TypeEnqueue, TypeGoroutine, TypeCall, TypeRoute, TypeSlow,
     TypeRest DEF Next, HandlerStep
<1>2. CASE UNCHANGED vars
  BY <1>2 DEF TypeInv, TypeOK, MapInv, vars, ConnTypeOK, connVars, ChanTypeOK, chanVars,
     WorkTypeOK, workVars, SlowTypeOK, slowVars, NetTypeOK, netVars, ViewTypeOK, viewVars,
     NodeTypeOK, nodeVars
<1> QED BY <1>1, <1>2

\* The variables of EnvelopeRouting always have their types: every handler,
\* worker and loop holds an envelope exactly while its code does, and no channel
\* ever exceeds the capacity it was made with.
THEOREM TypeCorrect == Spec => []TypeOK
<1>1. TypeInv => TypeOK BY DEF TypeInv
<1> QED BY <1>1, TypeInit, TypeNext, PTL DEF Spec

-----------------------------------------------------------------------------
(* One goroutine per pair, for peers whose connections do not overlap.      *)

\* At most one handler of an address is live, and what it holds was sent by
\* that address.
ExclusiveInv ==
    /\ \A c, d \in Conns : Live(c) /\ Live(d) /\ AddrOf[c] = AddrOf[d] => c = d
    /\ \A c \in Conns : hpc[c] \in {"check", "create", "enqueue"}
           => hand[c].pair[2] = AddrOf[c]

\* A pair whose channel is about to be created has none; the goroutine of a
\* pair is the one of the handler whose channel is in the map, and ranges over
\* that channel.
PairInv ==
    /\ \A c \in Conns : hpc[c] = "create" => syncMessages[hand[c].pair] = NoConn
    /\ \A c \in Conns, p \in Pairs : wpc[<<c, p>>] # "unborn" => syncMessages[p] = c
    /\ \A c \in Conns, p \in Pairs :
           wpc[<<c, p>>] \notin {"unborn", "start"} => ranging[<<c, p>>] = c

\* Only the channel in the map holds envelopes.  It holds them in ascending
\* order, all later than what was routed last and all earlier than what the
\* handler of the sender holds.
OrderInv ==
    /\ \A c \in Conns, p \in Pairs : chan[<<c, p>>] # <<>> => syncMessages[p] = c
    /\ \A ch \in Channels : \A i, j \in 1..Len(chan[ch]) :
           i < j => chan[ch][i] < chan[ch][j]
    /\ \A ch \in Channels : \A i \in 1..Len(chan[ch]) :
           lastRouted[ch[2]] < chan[ch][i] /\ chan[ch][i] <= sent[ch[2]]
    /\ \A c \in Conns : hpc[c] \in {"check", "create", "enqueue"} =>
           /\ lastRouted[hand[c].pair] < hand[c].n
           /\ hand[c].n <= sent[hand[c].pair]
           /\ \A d \in Conns : LET q == chan[<<d, hand[c].pair>>] IN
                  \A i \in 1..Len(q) : q[i] < hand[c].n
    /\ \A p \in Pairs : lastRouted[p] <= sent[p]

\* A step of RouteEnvelope leaves the connections, the map and the channels
\* alone; a goroutine that takes it was born and stays so.
LEMMA RouteFrame ==
  ASSUME TypeInv, NEW w \in Workers, RouteStep(w)
  PROVE  /\ UNCHANGED <<connVars, chanVars>>
         /\ wpc[w] \notin {"unborn", "start"}
         /\ \E s : s \notin {"unborn", "start"} /\ wpc' = [wpc EXCEPT ![w] = s]
<1>1. UNCHANGED <<connVars, chanVars>>
  BY DEF RouteStep, RejectSender, RouteMailbox, RouteMyAgent, RouteDelegate, AwaitAck,
         RouteRelay, RouteLookup, ReadStatus, MoveToSlow, PushSlow
<1>2. wpc[w] \notin {"unborn", "start"}
  BY DEF RouteStep, RejectSender, RouteMailbox, RouteMyAgent, RouteDelegate, AwaitAck,
         RouteRelay, RouteLookup, ReadStatus, MoveToSlow, PushSlow, CanRoute
<1>3. \E s : s \notin {"unborn", "start"} /\ wpc' = [wpc EXCEPT ![w] = s]
  <2>1. ASSUME Return(w)
        PROVE  \E s : s \notin {"unborn", "start"} /\ wpc' = [wpc EXCEPT ![w] = s]
    <3>1. CASE w \in Callers
      <4>1. wpc' = [wpc EXCEPT ![w] = "idle"] BY <2>1, <3>1 DEF Return
      <4> QED BY <4>1
    <3>2. CASE w \notin Callers
      <4>1. wpc' = [wpc EXCEPT ![w] = "recv"] BY <2>1, <3>2 DEF Return
      <4> QED BY <4>1
    <3> QED BY <3>1, <3>2
  <2>2. \/ Return(w)
        \/ \E s \in RouteStates : wpc' = [wpc EXCEPT ![w] = s]
    BY DEF RouteStep, RejectSender, RouteMailbox, RouteMyAgent, RouteDelegate, AwaitAck,
         RouteRelay, RouteLookup, ReadStatus, MoveToSlow, PushSlow, WriteFailed, RouteStates
  <2> QED
    BY <2>1, <2>2 DEF RouteStates
<1> QED BY <1>1, <1>2, <1>3

\* Steps that change neither connections nor map, channels or workers.
Elsewhere ==
    \/ SlowStep
    \/ \E cp \in wire : Arrive(cp) \/ Refuse(cp) \/ Ignore(cp)
    \/ AgentStep
    \/ CloseStep
    \/ UNCHANGED vars

\* They leave what the order of the fast path depends on unchanged.
LEMMA ElsewhereFrame ==
  ASSUME Elsewhere
  PROVE  UNCHANGED <<connVars, syncMessages, chan, ranging, lastRouted, workVars>>
BY DEF Elsewhere, SlowStep, SlowReceive, SlowEnd, SlowLookup, SlowStatus, Arrive, Refuse, Ignore,
       AgentStep, CloseStep, CloseBegin, CloseChannels, CloseSlowQueue, chanVars, vars

\* If connections do not overlap every step keeps ExclusiveInv: Accept waits
\* until no handler of the address is live, and a handler reads only envelopes
\* of its own address.
LEMMA ExclusiveNext ==
  ASSUME ~ Overlap, TypeInv, ExclusiveInv, [Next]_vars
  PROVE  ExclusiveInv'
<1> USE DEF ExclusiveInv, Live, TypeInv, TypeOK, ConnTypeOK
<1>1. ASSUME NEW c \in Conns, Accept(c) PROVE ExclusiveInv'
  BY <1>1 DEF Accept
<1>2. ASSUME NEW c \in Conns, Disconnect(c) PROVE ExclusiveInv'
  BY <1>2 DEF Disconnect
<1>3. ASSUME NEW c \in Conns, NEW p \in Pairs, ReadEnvelope(c, p) PROVE ExclusiveInv'
  BY <1>3 DEF ReadEnvelope, Env
<1>4. ASSUME NEW c \in Conns, CheckPair(c) PROVE ExclusiveInv'
  BY <1>4 DEF CheckPair
<1>5. ASSUME NEW c \in Conns, CreatePair(c) PROVE ExclusiveInv'
  BY <1>5 DEF CreatePair
<1>6. ASSUME NEW c \in Conns, EnqueuePair(c) PROVE ExclusiveInv'
  BY <1>6 DEF EnqueuePair
<1>7. ASSUME UNCHANGED <<hpc, hand>> PROVE ExclusiveInv'
  BY <1>7
<1>8. ASSUME NEW k \in Callers, NEW p \in Pairs, CallRoute(k, p) PROVE UNCHANGED <<hpc, hand>>
  BY <1>8 DEF CallRoute
<1>9. ASSUME NEW g \in Goroutines, GoroutineStep(g) PROVE UNCHANGED <<hpc, hand>>
  BY <1>9 DEF GoroutineStep, StartPair, ReceivePair, RangeEnd, connVars
<1>10. ASSUME NEW w \in Workers, RouteStep(w) PROVE UNCHANGED <<hpc, hand>>
  BY <1>10, RouteFrame DEF connVars
<1>11. ASSUME Elsewhere PROVE UNCHANGED <<hpc, hand>>
  BY <1>11, ElsewhereFrame DEF connVars
<1> HIDE DEF ExclusiveInv, Live, TypeInv, TypeOK, ConnTypeOK
<1> QED
  BY <1>1, <1>2, <1>3, <1>4, <1>5, <1>6, <1>7, <1>8, <1>9, <1>10, <1>11
     DEF Next, HandlerStep, Elsewhere

\* If connections do not overlap every step keeps PairInv: between the check
\* and the creation no other handler can create the channel of the pair.
LEMMA PairNext ==
  ASSUME ~ Overlap, TypeInv, ExclusiveInv, PairInv, [Next]_vars
  PROVE  PairInv'
<1> USE DEF PairInv
<1>1. ASSUME NEW c \in Conns, Accept(c) PROVE PairInv'
  BY <1>1 DEF Accept, chanVars, workVars, TypeInv, TypeOK, ConnTypeOK
<1>2. ASSUME NEW c \in Conns, Disconnect(c) PROVE PairInv'
  BY <1>2 DEF Disconnect, chanVars, workVars, TypeInv, TypeOK, ConnTypeOK
<1>3. ASSUME NEW c \in Conns, NEW p \in Pairs, ReadEnvelope(c, p) PROVE PairInv'
  BY <1>3 DEF ReadEnvelope, chanVars, workVars, TypeInv, TypeOK, ConnTypeOK
<1>4. ASSUME NEW c \in Conns, CheckPair(c) PROVE PairInv'
  BY <1>4 DEF CheckPair, NoChannel, chanVars, workVars, TypeInv, TypeOK, ConnTypeOK
<1>5. ASSUME NEW c \in Conns, CreatePair(c) PROVE PairInv'
  <2> DEFINE q == hand[c].pair
  <2>1. hand[c] \in Envelopes /\ q \in Pairs
    BY <1>5, HeldIsEnvelope DEF Envelopes, CreatePair, TypeInv
  <2>2. /\ hpc' = [hpc EXCEPT ![c] = "enqueue"]
        /\ syncMessages' = [syncMessages EXCEPT ![q] = c]
        /\ wpc' = [wpc EXCEPT ![<<c, q>>] = "start"]
        /\ UNCHANGED <<hand, ranging>>
    BY <1>5 DEF CreatePair
  <2>3. syncMessages[q] = NoConn /\ \A d \in Conns : wpc[<<d, q>>] = "unborn"
    BY <1>5, <2>1 DEF CreatePair
  <2>4. ASSUME NEW d \in Conns, hpc'[d] = "create" PROVE hand[d].pair # q
    <3>1. d # c /\ hpc[d] = "create"
      BY <2>2, <2>4 DEF TypeInv, TypeOK, ConnTypeOK
    <3>2. hand[d].pair[2] = AddrOf[d] /\ q[2] = AddrOf[c]
      BY <1>5, <3>1 DEF ExclusiveInv, CreatePair
    <3> QED BY <1>5, <3>1, <3>2 DEF ExclusiveInv, Live, CreatePair
  <2>5. \A d \in Conns : hpc'[d] = "create" => syncMessages'[hand'[d].pair] = NoConn
    <3> SUFFICES ASSUME NEW d \in Conns, hpc'[d] = "create"
                 PROVE  syncMessages'[hand[d].pair] = NoConn
      BY <2>2
    <3>1. hpc[d] = "create" BY <2>2 DEF TypeInv, TypeOK, ConnTypeOK
    <3>2. hand[d].pair \in Pairs
      BY <3>1, HeldIsEnvelope DEF Envelopes, TypeInv
    <3> QED BY <2>2, <2>4, <3>1, <3>2 DEF TypeInv, TypeOK, ChanTypeOK
  <2>6. \A d \in Conns, p \in Pairs :
          wpc'[<<d, p>>] # "unborn" => syncMessages'[p] = d
    <3> SUFFICES ASSUME NEW d \in Conns, NEW p \in Pairs, wpc'[<<d, p>>] # "unborn"
                 PROVE  syncMessages'[p] = d
      OBVIOUS
    <3>1. <<d, p>> \in Workers /\ <<c, q>> \in Workers
      BY <2>1 DEF Workers, Goroutines, Channels
    <3>2. CASE <<d, p>> = <<c, q>>
      BY <2>1, <2>2, <3>2 DEF TypeInv, TypeOK, ChanTypeOK
    <3>3. CASE <<d, p>> # <<c, q>>
      <4>1. wpc[<<d, p>>] # "unborn"
        BY <2>2, <3>1, <3>3 DEF TypeInv, TypeOK, WorkTypeOK
      <4> QED BY <2>1, <2>2, <2>3, <4>1 DEF TypeInv, TypeOK, ChanTypeOK
    <3> QED BY <3>2, <3>3
  <2>7. \A d \in Conns, p \in Pairs :
          wpc'[<<d, p>>] \notin {"unborn", "start"} => ranging'[<<d, p>>] = d
    <3> SUFFICES ASSUME NEW d \in Conns, NEW p \in Pairs,
                        wpc'[<<d, p>>] \notin {"unborn", "start"}
                 PROVE  ranging[<<d, p>>] = d
      BY <2>2
    <3>1. <<d, p>> \in Workers /\ <<c, q>> \in Workers
      BY <2>1 DEF Workers, Goroutines, Channels
    <3>2. wpc[<<d, p>>] \notin {"unborn", "start"}
      BY <2>2, <3>1 DEF TypeInv, TypeOK, WorkTypeOK
    <3> QED BY <3>2
  <2> QED BY <2>5, <2>6, <2>7
<1>6. ASSUME NEW c \in Conns, EnqueuePair(c) PROVE PairInv'
  BY <1>6, SMTT(30) DEF EnqueuePair, workVars, TypeInv, TypeOK, ConnTypeOK
<1>7. ASSUME NEW k \in Callers, NEW p \in Pairs, CallRoute(k, p) PROVE PairInv'
  <2>1. \A d \in Conns, o \in Pairs : <<d, o>> # k
    BY DEF Goroutines, Channels
  <2> QED BY <1>7, <2>1 DEF CallRoute, chanVars, TypeInv, TypeOK, WorkTypeOK
<1>8. ASSUME NEW w \in Workers, NEW s, w \in Goroutines => wpc[w] # "unborn",
             wpc' = [wpc EXCEPT ![w] = s],
             UNCHANGED <<hpc, hand, syncMessages>>,
             w \in Goroutines /\ s \notin {"unborn", "start"} => ranging'[w] = w[1],
             \A g \in Goroutines \ {w} : ranging'[g] = ranging[g]
      PROVE PairInv'
  <2>1. \A d \in Conns, o \in Pairs : <<d, o>> \in Goroutines /\ <<d, o>> \in Workers
    BY DEF Workers, Goroutines, Channels
  <2>2. ASSUME NEW d \in Conns, NEW p \in Pairs, wpc'[<<d, p>>] # "unborn"
        PROVE  syncMessages'[p] = d
    BY <1>8, <2>1, <2>2 DEF TypeInv, TypeOK, WorkTypeOK
  <2>3. ASSUME NEW d \in Conns, NEW p \in Pairs, wpc'[<<d, p>>] \notin {"unborn", "start"}
        PROVE  ranging'[<<d, p>>] = d
    <3>1. CASE <<d, p>> = w
      BY <1>8, <2>1, <2>3, <3>1 DEF TypeInv, TypeOK, WorkTypeOK
    <3>2. CASE <<d, p>> # w
      BY <1>8, <2>1, <2>3, <3>2 DEF TypeInv, TypeOK, WorkTypeOK
    <3> QED BY <3>1, <3>2
  <2> QED BY <1>8, <2>2, <2>3
<1>9. ASSUME NEW g \in Goroutines, GoroutineStep(g) PROVE PairInv'
  <2>1. PICK c \in Conns, p \in Pairs : g = <<c, p>> BY DEF Goroutines, Channels
  <2>2. g \in Workers BY DEF Workers
  <2>3. CASE StartPair(g)
    <3>1. wpc[g] = "start" /\ syncMessages[p] = c
      BY <2>1, <2>3 DEF StartPair
    <3>2. ranging' = [ranging EXCEPT ![g] = c] /\ UNCHANGED <<hpc, hand, syncMessages>>
      BY <2>1, <2>3, <3>1 DEF StartPair, connVars
    <3>3. ranging'[g] = g[1] /\ \A h \in Goroutines \ {g} : ranging'[h] = ranging[h]
      BY <2>1, <3>2 DEF TypeInv, TypeOK, ChanTypeOK
    <3> QED BY <1>8, <2>2, <2>3, <3>1, <3>2, <3>3 DEF StartPair
  <2>4. CASE ReceivePair(g)
    BY <1>8, <2>1, <2>2, <2>4 DEF ReceivePair, connVars
  <2>5. CASE RangeEnd(g)
    BY <1>8, <2>1, <2>2, <2>5 DEF RangeEnd, connVars, chanVars
  <2> QED BY <1>9, <2>3, <2>4, <2>5 DEF GoroutineStep
<1>10. ASSUME NEW w \in Workers, RouteStep(w) PROVE PairInv'
  <2>1. /\ UNCHANGED <<hpc, hand, syncMessages, ranging>>
        /\ wpc[w] \notin {"unborn", "start"}
    BY <1>10, RouteFrame DEF connVars, chanVars
  <2>2. PICK s : s \notin {"unborn", "start"} /\ wpc' = [wpc EXCEPT ![w] = s]
    BY <1>10, RouteFrame
  <2>3. w \in Goroutines => ranging[w] = w[1]
    BY <2>1 DEF Goroutines, Channels
  <2> QED BY <1>8, <2>1, <2>2, <2>3
<1>11. ASSUME Elsewhere PROVE PairInv'
  BY <1>11, ElsewhereFrame DEF connVars, workVars
<1> HIDE DEF PairInv
<1> QED
  BY <1>1, <1>2, <1>3, <1>4, <1>5, <1>6, <1>7, <1>9, <1>10, <1>11
     DEF Next, HandlerStep, Elsewhere

\* ExclusiveInv and PairInv are invariants of peers whose connections do not
\* overlap.
LEMMA PairCorrect == ASSUME ~ Overlap PROVE Spec => [](TypeInv /\ ExclusiveInv /\ PairInv)
<1>1. Init => ExclusiveInv /\ PairInv
  <2> SUFFICES ASSUME Init PROVE ExclusiveInv /\ PairInv
    OBVIOUS
  <2>1. \A c \in Conns, p \in Pairs : wpc[<<c, p>>] = "unborn"
    BY DEF Init, Workers, Goroutines, Channels
  <2> QED BY <2>1 DEF Init, ExclusiveInv, PairInv, Live
<1>2. TypeInv /\ ExclusiveInv /\ PairInv /\ [Next]_vars => ExclusiveInv' /\ PairInv'
  BY ExclusiveNext, PairNext
<1> QED BY <1>1, <1>2, TypeInit, TypeNext, PTL DEF Spec

-----------------------------------------------------------------------------
(* The order of the fast path, under the same condition.                    *)

\* Only a goroutine that receives moves lastRouted, and it moves it forward.
LEMMA ReceiveOrder ==
  ASSUME TypeInv, OrderInv, NEW g \in Goroutines, ReceivePair(g)
  PROVE  LET ch == <<ranging[g], g[2]>>
         IN  /\ ch \in Channels /\ g[2] \in Pairs
             /\ chan[ch] \in Seq(Nat) /\ chan[ch] # <<>>
             /\ Len(chan[ch]) \in Nat \ {0}
             /\ Head(chan[ch]) = chan[ch][1]
             /\ Len(Tail(chan[ch])) = Len(chan[ch]) - 1
             /\ \A i \in 1..Len(Tail(chan[ch])) :
                    /\ i + 1 \in 1..Len(chan[ch])
                    /\ Tail(chan[ch])[i] = chan[ch][i + 1]
             /\ lastRouted[g[2]] < chan[ch][1]
             /\ chan[ch][1] \in Nat
             /\ chan' = [chan EXCEPT ![ch] = Tail(chan[ch])]
             /\ lastRouted' = [lastRouted EXCEPT ![g[2]] = chan[ch][1]]
<1> DEFINE ch == <<ranging[g], g[2]>>
<1>1. ch \in Channels /\ g[2] \in Pairs
  BY DEF ReceivePair, TypeInv, TypeOK, ChanTypeOK, MapInv, Goroutines, Channels
<1>2. chan[ch] \in Seq(Nat) /\ chan[ch] # <<>>
  BY <1>1 DEF ReceivePair, TypeInv, TypeOK, ChanTypeOK
<1>3. Len(chan[ch]) \in Nat \ {0}
  BY <1>2, LenProperties, EmptySeq
<1>4. /\ Head(chan[ch]) = chan[ch][1] /\ chan[ch][1] \in Nat
      /\ Len(Tail(chan[ch])) = Len(chan[ch]) - 1
      /\ \A i \in 1..Len(Tail(chan[ch])) : Tail(chan[ch])[i] = chan[ch][i + 1]
  BY <1>2, <1>3, HeadTailProperties
<1>5. \A i \in 1..Len(Tail(chan[ch])) : i + 1 \in 1..Len(chan[ch])
  BY <1>3, <1>4
<1>6. 1 \in 1..Len(chan[ch]) BY <1>3
<1>7. lastRouted[g[2]] < chan[ch][1]
  <2>1. \A i \in 1..Len(chan[ch]) : lastRouted[ch[2]] < chan[ch][i]
    BY <1>1 DEF OrderInv
  <2> QED BY <1>6, <2>1
<1>8. /\ chan' = [chan EXCEPT ![ch] = Tail(chan[ch])]
      /\ lastRouted' = [lastRouted EXCEPT ![g[2]] = chan[ch][1]]
  BY <1>4 DEF ReceivePair
<1> QED BY <1>1, <1>2, <1>3, <1>4, <1>5, <1>7, <1>8

\* If connections do not overlap every step keeps OrderInv.
LEMMA OrderNext ==
  ASSUME ~ Overlap, TypeInv, ExclusiveInv, PairInv, OrderInv, [Next]_vars
  PROVE  OrderInv'
<1> DEFINE Busy(c) == hpc[c] \in {"check", "create", "enqueue"}
<1>held. \A c \in Conns : Busy(c) => hand[c] \in Envelopes /\ hand[c].pair \in Pairs /\ hand[c].n \in Nat
  BY HeldIsEnvelope DEF TypeInv, Envelopes
<1>chans. \A ch \in Channels : ch[2] \in Pairs /\ chan[ch] \in Seq(Nat) /\ Len(chan[ch]) \in Nat
                          /\ \A i \in 1..Len(chan[ch]) : chan[ch][i] \in Nat
  BY LenProperties, ElementOfSeq DEF TypeInv, TypeOK, ChanTypeOK, Channels
<1>1. ASSUME NEW c \in Conns, Accept(c) PROVE OrderInv'
  BY <1>1 DEF Accept, chanVars, OrderInv, TypeInv, TypeOK, ConnTypeOK
<1>2. ASSUME NEW c \in Conns, Disconnect(c) PROVE OrderInv'
  BY <1>2 DEF Disconnect, chanVars, OrderInv, TypeInv, TypeOK, ConnTypeOK
<1>4. ASSUME NEW c \in Conns, CheckPair(c) PROVE OrderInv'
  BY <1>4 DEF CheckPair, chanVars, OrderInv, TypeInv, TypeOK, ConnTypeOK
<1>3. ASSUME NEW c \in Conns, NEW p \in Pairs, ReadEnvelope(c, p) PROVE OrderInv'
  <2> USE <1>3 DEF ReadEnvelope, chanVars
  <2>1. /\ sent' = [sent EXCEPT ![p] = sent[p] + 1]
        /\ hand'[c].pair = p /\ hand'[c].n = sent[p] + 1
        /\ \A d \in Conns \ {c} : hand'[d] = hand[d] /\ hpc'[d] = hpc[d]
        /\ \A o \in Pairs : sent[o] \in Nat /\ sent[o] <= sent'[o] /\ sent'[o] \in Nat
    BY DEF Env, TypeInv, TypeOK, ConnTypeOK
  <2>2. UNCHANGED <<syncMessages, chan, lastRouted>> OBVIOUS
  <2>3. \A o \in Pairs : lastRouted[o] \in Nat BY DEF TypeInv, TypeOK, ChanTypeOK
  <2>4. \A d \in Conns, o \in Pairs : chan'[<<d, o>>] # <<>> => syncMessages'[o] = d
    BY <2>2 DEF OrderInv
  <2>5. \A ch \in Channels : \A i, j \in 1..Len(chan'[ch]) :
           i < j => chan'[ch][i] < chan'[ch][j]
    BY <2>2 DEF OrderInv
  <2>6. \A ch \in Channels : \A i \in 1..Len(chan'[ch]) :
           lastRouted'[ch[2]] < chan'[ch][i] /\ chan'[ch][i] <= sent'[ch[2]]
    BY <1>chans, <2>1, <2>2 DEF OrderInv
  <2>7. ASSUME NEW d \in Conns, Busy(d)'
        PROVE  /\ lastRouted'[hand'[d].pair] < hand'[d].n
               /\ hand'[d].n <= sent'[hand'[d].pair]
               /\ \A b \in Conns : LET q == chan'[<<b, hand'[d].pair>>] IN
                      \A i \in 1..Len(q) : q[i] < hand'[d].n
    <3>1. CASE d = c
      <4>1. lastRouted[p] <= sent[p] BY DEF OrderInv
      <4>2. \A b \in Conns : <<b, p>> \in Channels BY DEF Channels
      <4>3. \A b \in Conns : \A i \in 1..Len(chan[<<b, p>>]) : chan[<<b, p>>][i] <= sent[p]
        BY <4>2 DEF OrderInv
      <4>4. lastRouted[p] < sent[p] + 1 /\ sent[p] + 1 <= sent'[p]
        BY <2>1, <2>3, <4>1 DEF TypeInv, TypeOK, ConnTypeOK
      <4>5. \A b \in Conns : \A i \in 1..Len(chan[<<b, p>>]) : chan[<<b, p>>][i] < sent[p] + 1
        BY <1>chans, <2>1, <4>2, <4>3
      <4> QED BY <2>1, <2>2, <3>1, <4>4, <4>5
    <3>2. CASE d # c
      <4>1. Busy(d) /\ hand'[d] = hand[d] BY <2>1, <2>7, <3>2
      <4> QED BY <1>held, <2>1, <2>2, <4>1 DEF OrderInv
    <3> QED BY <3>1, <3>2
  <2>8. \A o \in Pairs : lastRouted'[o] <= sent'[o]
    BY <2>1, <2>2, <2>3 DEF OrderInv
  <2> QED BY <2>4, <2>5, <2>6, <2>7, <2>8 DEF OrderInv
<1>5. ASSUME NEW c \in Conns, CreatePair(c) PROVE OrderInv'
  <2> DEFINE q == hand[c].pair
  <2>1. q \in Pairs /\ syncMessages[q] = NoConn
    BY <1>held, <1>5 DEF CreatePair, PairInv
  <2>2. \A d \in Conns : chan[<<d, q>>] = <<>>
    BY <2>1 DEF OrderInv
  <2>3. /\ syncMessages' = [syncMessages EXCEPT ![q] = c]
        /\ hpc' = [hpc EXCEPT ![c] = "enqueue"]
        /\ hpc[c] = "create"
        /\ UNCHANGED <<hand, sent, chan, lastRouted>>
    BY <1>5 DEF CreatePair
  <2>4. \A d \in Conns, p \in Pairs : chan'[<<d, p>>] # <<>> => syncMessages'[p] = d
    BY <2>1, <2>2, <2>3 DEF OrderInv, TypeInv, TypeOK, ChanTypeOK
  <2>5. \A d \in Conns : Busy(d)' => Busy(d)
    BY <2>3 DEF TypeInv, TypeOK, ConnTypeOK
  <2> QED BY <2>3, <2>4, <2>5 DEF OrderInv
<1>7. ASSUME NEW k \in Callers, NEW p \in Pairs, CallRoute(k, p) PROVE OrderInv'
  <2>1. /\ \A o \in Pairs : sent[o] \in Nat /\ sent'[o] \in Nat /\ sent[o] <= sent'[o]
        /\ \A o \in Pairs : lastRouted[o] \in Nat
    BY <1>7 DEF CallRoute, TypeInv, TypeOK, ConnTypeOK, ChanTypeOK
  <2>2. UNCHANGED <<hpc, hand, syncMessages, chan, lastRouted>>
    BY <1>7 DEF CallRoute, chanVars
  <2>3. \A ch \in Channels : \A i \in 1..Len(chan'[ch]) :
           lastRouted'[ch[2]] < chan'[ch][i] /\ chan'[ch][i] <= sent'[ch[2]]
    <3> SUFFICES ASSUME NEW ch \in Channels, NEW i \in 1..Len(chan[ch])
                 PROVE  lastRouted[ch[2]] < chan[ch][i] /\ chan[ch][i] <= sent'[ch[2]]
      BY <2>2
    <3>1. lastRouted[ch[2]] < chan[ch][i] /\ chan[ch][i] <= sent[ch[2]] BY DEF OrderInv
    <3>2. chan[ch][i] \in Nat /\ ch[2] \in Pairs BY <1>chans
    <3> QED BY <2>1, <3>1, <3>2
  <2>4. \A d \in Conns : Busy(d) => hand[d].n <= sent'[hand[d].pair]
    BY <1>held, <2>1 DEF OrderInv
  <2>5. \A o \in Pairs : lastRouted'[o] <= sent'[o]
    BY <2>1, <2>2 DEF OrderInv
  <2> QED BY <2>2, <2>3, <2>4, <2>5 DEF OrderInv
<1>11. ASSUME UNCHANGED <<hpc, hand, sent, syncMessages, chan, lastRouted>> PROVE OrderInv'
  BY <1>11 DEF OrderInv
<1>6. ASSUME NEW c \in Conns, EnqueuePair(c) PROVE OrderInv'
  <2> DEFINE p == hand[c].pair
             n == hand[c].n
             ch == <<syncMessages[p], p>>
             new == Append(chan[ch], n)
  <2>1. hpc[c] = "enqueue" /\ p \in Pairs /\ n \in Nat
    BY <1>held, <1>6 DEF EnqueuePair
  <2>2. ch \in Channels /\ syncMessages[p] \in Conns
    BY <2>1 DEF TypeInv, TypeOK, ChanTypeOK, MapInv, Channels
  <2>3. /\ \A d \in Conns : Busy(d)' => d # c /\ Busy(d) /\ hand'[d] = hand[d]
        /\ UNCHANGED <<sent, syncMessages, lastRouted>>
    BY <1>6 DEF EnqueuePair, TypeInv, TypeOK, ConnTypeOK
  <2>4. CASE chan' = chan
    BY <2>3, <2>4 DEF OrderInv
  <2>5. CASE chan' = [chan EXCEPT ![ch] = new]
    <3>1. /\ Len(chan[ch]) \in Nat /\ Len(new) = Len(chan[ch]) + 1
          /\ \A i \in 1..Len(chan[ch]) : new[i] = chan[ch][i]
          /\ new[Len(chan[ch]) + 1] = n
      BY <1>chans, <2>1, <2>2, AppendProperties
    <3>2. chan'[ch] = new /\ \A x \in Channels \ {ch} : chan'[x] = chan[x]
      BY <2>2, <2>5 DEF TypeInv, TypeOK, ChanTypeOK
    <3>3. \A i \in 1..Len(chan[ch]) : chan[ch][i] < n
      BY <2>1, <2>2 DEF OrderInv
    <3>4. lastRouted[p] < n /\ n <= sent[p]
      BY <2>1 DEF OrderInv
    <3>5. \A d \in Conns : Busy(d)' => hand[d].pair # p
      <4> SUFFICES ASSUME NEW d \in Conns, Busy(d)', hand[d].pair = p PROVE FALSE
        OBVIOUS
      <4>1. d # c /\ Busy(d) BY <2>3
      <4>2. AddrOf[d] = AddrOf[c] BY <2>1, <4>1 DEF ExclusiveInv
      <4> QED BY <2>1, <4>1, <4>2 DEF ExclusiveInv, Live
    <3>6. \A d \in Conns, o \in Pairs : chan'[<<d, o>>] # <<>> => syncMessages'[o] = d
      <4> SUFFICES ASSUME NEW d \in Conns, NEW o \in Pairs, chan'[<<d, o>>] # <<>>
                   PROVE  syncMessages[o] = d
        BY <2>3
      <4>1. <<d, o>> \in Channels BY DEF Channels
      <4>2. CASE <<d, o>> = ch BY <4>2
      <4>3. CASE <<d, o>> # ch BY <3>2, <4>1, <4>3 DEF OrderInv
      <4> QED BY <4>2, <4>3
    <3>7. ASSUME NEW x \in Channels, NEW i \in 1..Len(chan'[x]), NEW j \in 1..Len(chan'[x]), i < j
          PROVE  chan'[x][i] < chan'[x][j]
      <4>1. CASE x # ch BY <3>2, <3>7, <4>1 DEF OrderInv
      <4>2. CASE x = ch
        <5>1. chan'[x] = new BY <3>2, <4>2
        <5>2. \A k, l \in 1..Len(chan[ch]) : k < l => chan[ch][k] < chan[ch][l]
          BY <2>2 DEF OrderInv
        <5> HIDE DEF ch, new
        <5>3. i \in 1..Len(chan[ch]) /\ (j \in 1..Len(chan[ch]) \/ j = Len(chan[ch]) + 1)
          BY <3>1, <3>7, <5>1
        <5> QED BY <3>1, <3>3, <3>7, <5>1, <5>2, <5>3
      <4> QED BY <4>1, <4>2
    <3>8. ASSUME NEW x \in Channels, NEW i \in 1..Len(chan'[x])
          PROVE  lastRouted'[x[2]] < chan'[x][i] /\ chan'[x][i] <= sent'[x[2]]
      <4>1. CASE x # ch BY <2>3, <3>2, <4>1 DEF OrderInv
      <4>2. CASE x = ch
        <5>1. chan'[x] = new /\ x[2] = p BY <3>2, <4>2
        <5>2. \A k \in 1..Len(chan[ch]) : lastRouted[p] < chan[ch][k] /\ chan[ch][k] <= sent[p]
          BY <2>2 DEF OrderInv
        <5>3. lastRouted'[x[2]] = lastRouted[p] /\ sent'[x[2]] = sent[p] BY <2>3, <5>1
        <5> HIDE DEF ch, new, p, n
        <5>4. i \in 1..Len(chan[ch]) \/ i = Len(chan[ch]) + 1
          BY <3>1, <3>8, <5>1
        <5> QED BY <3>1, <3>4, <5>1, <5>2, <5>3, <5>4
      <4> QED BY <4>1, <4>2
    <3>9. ASSUME NEW d \in Conns, Busy(d)'
          PROVE  /\ lastRouted'[hand'[d].pair] < hand'[d].n
                 /\ hand'[d].n <= sent'[hand'[d].pair]
                 /\ \A b \in Conns : LET q == chan'[<<b, hand'[d].pair>>] IN
                        \A i \in 1..Len(q) : q[i] < hand'[d].n
      <4>1. Busy(d) /\ hand'[d] = hand[d] /\ hand[d].pair # p /\ hand[d].pair \in Pairs
        BY <1>held, <2>3, <3>5, <3>9
      <4>2. \A b \in Conns : chan'[<<b, hand[d].pair>>] = chan[<<b, hand[d].pair>>]
        BY <3>2, <4>1 DEF Channels
      <4> QED BY <2>3, <4>1, <4>2 DEF OrderInv
    <3>10. \A o \in Pairs : lastRouted'[o] <= sent'[o]
      BY <2>3 DEF OrderInv
    <3> QED BY <3>6, <3>7, <3>8, <3>9, <3>10 DEF OrderInv
  <2> QED BY <1>6, <2>4, <2>5 DEF EnqueuePair
<1>8. ASSUME NEW g \in Goroutines, ReceivePair(g) PROVE OrderInv'
  <2> DEFINE p == g[2]
             ch == <<ranging[g], p>>
             t == Tail(chan[ch])
             h == chan[ch][1]
  <2>1. /\ ch \in Channels /\ p \in Pairs /\ h \in Nat /\ lastRouted[p] < h
        /\ chan[ch] # <<>> /\ Len(chan[ch]) \in Nat \ {0}
        /\ Len(t) = Len(chan[ch]) - 1
        /\ \A i \in 1..Len(t) : i + 1 \in 1..Len(chan[ch]) /\ t[i] = chan[ch][i + 1]
        /\ chan' = [chan EXCEPT ![ch] = t]
        /\ lastRouted' = [lastRouted EXCEPT ![p] = h]
    BY <1>8, ReceiveOrder
  <2>2. UNCHANGED <<hpc, hand, sent, syncMessages>> BY <1>8 DEF ReceivePair, connVars
  <2>3. /\ chan'[ch] = t /\ \A x \in Channels \ {ch} : chan'[x] = chan[x]
        /\ lastRouted'[p] = h /\ \A o \in Pairs \ {p} : lastRouted'[o] = lastRouted[o]
    BY <2>1 DEF TypeInv, TypeOK, ChanTypeOK
  <2>4. ranging[g] \in Conns /\ syncMessages[p] = ranging[g]
    BY <2>1 DEF Channels, OrderInv
  <2>5. \A x \in Channels : x # ch /\ x[2] = p => chan[x] = <<>>
    BY <2>1, <2>4 DEF Channels, OrderInv
  <2>6. 1 \in 1..Len(chan[ch]) BY <2>1
  <2>names. ch = <<ranging[g], p>> /\ ch[2] = p /\ Len(t) \in Nat
    BY <2>1
  <2> HIDE DEF ch, t, h, p
  <2>7. \A d \in Conns, o \in Pairs : chan'[<<d, o>>] # <<>> => syncMessages'[o] = d
    <3> SUFFICES ASSUME NEW d \in Conns, NEW o \in Pairs, chan'[<<d, o>>] # <<>>
                 PROVE  syncMessages[o] = d
      BY <2>2
    <3>1. <<d, o>> \in Channels BY DEF Channels
    <3>2. CASE <<d, o>> = ch BY <2>4, <2>names, <3>2
    <3>3. CASE <<d, o>> # ch BY <2>3, <3>1, <3>3 DEF OrderInv
    <3> QED BY <3>2, <3>3
  <2>8. ASSUME NEW x \in Channels, NEW i \in 1..Len(chan'[x]), NEW j \in 1..Len(chan'[x]), i < j
        PROVE  chan'[x][i] < chan'[x][j]
    <3>1. CASE x # ch BY <2>3, <2>8, <3>1 DEF OrderInv
    <3>2. CASE x = ch
      <4>1. /\ i \in 1..Len(t) /\ j \in 1..Len(t) /\ i + 1 < j + 1
        BY <2>3, <2>8, <2>names, <3>2
      <4>2. chan[ch][i + 1] < chan[ch][j + 1]
        BY <2>1, <4>1 DEF OrderInv
      <4> QED BY <2>1, <2>3, <3>2, <4>1, <4>2
    <3> QED BY <3>1, <3>2
  <2>9. ASSUME NEW x \in Channels, NEW i \in 1..Len(chan'[x])
        PROVE  lastRouted'[x[2]] < chan'[x][i] /\ chan'[x][i] <= sent'[x[2]]
    <3>1. CASE x = ch
      <4>0. i \in 1..Len(t) BY <2>3, <3>1
      <4>1. 1 < i + 1 /\ chan'[x][i] = chan[ch][i + 1] /\ i + 1 \in 1..Len(chan[ch])
        BY <2>1, <2>3, <3>1, <4>0
      <4>2. h < chan[ch][i + 1]
        BY <2>1, <2>6, <4>1 DEF OrderInv, h
      <4>3. chan[ch][i + 1] <= sent[p]
        BY <2>1, <2>names, <4>1 DEF OrderInv
      <4> QED BY <2>2, <2>3, <2>names, <3>1, <4>1, <4>2, <4>3
    <3>2. CASE x # ch /\ x[2] = p
      <4>1. chan'[x] = <<>> BY <2>3, <2>5, <3>2
      <4>2. Len(chan'[x]) = 0 BY <4>1, EmptySeq
      <4> QED BY <4>2
    <3>3. CASE x # ch /\ x[2] # p
      BY <1>chans, <2>2, <2>3, <3>3 DEF OrderInv
    <3> QED BY <3>1, <3>2, <3>3
  <2>10. ASSUME NEW d \in Conns, Busy(d)
         PROVE  /\ lastRouted'[hand[d].pair] < hand[d].n
                /\ hand[d].n <= sent[hand[d].pair]
                /\ \A b \in Conns : LET q == chan'[<<b, hand[d].pair>>] IN
                       \A i \in 1..Len(q) : q[i] < hand[d].n
    <3> DEFINE o == hand[d].pair
    <3>1. o \in Pairs /\ hand[d].n <= sent[o] /\ lastRouted[o] < hand[d].n
      BY <1>held, <2>10 DEF OrderInv
    <3>2. \A b \in Conns : \A i \in 1..Len(chan[<<b, o>>]) : chan[<<b, o>>][i] < hand[d].n
      BY <2>10 DEF OrderInv
    <3>3. lastRouted'[o] < hand[d].n
      <4>1. CASE o = p
        BY <2>1, <2>3, <2>4, <2>6, <2>names, <3>2, <4>1 DEF h
      <4>2. CASE o # p BY <2>3, <3>1, <4>2
      <4> QED BY <4>1, <4>2
    <3>4. ASSUME NEW b \in Conns, NEW i \in 1..Len(chan'[<<b, o>>])
          PROVE  chan'[<<b, o>>][i] < hand[d].n
      <4>1. <<b, o>> \in Channels BY <3>1 DEF Channels
      <4>2. CASE <<b, o>> = ch
        <5>1. i \in 1..Len(t) BY <2>3, <3>4, <4>2
        <5>2. chan'[<<b, o>>][i] = chan[<<b, o>>][i + 1] /\ i + 1 \in 1..Len(chan[<<b, o>>])
          <6>1. chan'[ch] = t BY <2>1, <2>3
          <6>2. t[i] = chan[ch][i + 1] /\ i + 1 \in 1..Len(chan[ch]) BY <2>1, <5>1
          <6> QED BY <4>2, <6>1, <6>2, Zenon
        <5> QED BY <3>2, <5>2
      <4>3. CASE <<b, o>> # ch
        BY <2>3, <3>2, <3>4, <4>1, <4>3
      <4> QED BY <4>2, <4>3
    <3> QED BY <3>1, <3>3, <3>4
  <2>11. \A o \in Pairs : lastRouted'[o] <= sent'[o]
    <3>1. h <= sent[p] BY <2>1, <2>6, <2>names DEF OrderInv, h
    <3> QED BY <2>2, <2>3, <3>1 DEF OrderInv
  <2> QED BY <2>2, <2>7, <2>8, <2>9, <2>10, <2>11 DEF OrderInv
<1>9. ASSUME NEW g \in Goroutines, StartPair(g) \/ RangeEnd(g)
      PROVE  UNCHANGED <<hpc, hand, sent, syncMessages, chan, lastRouted>>
  BY <1>9 DEF StartPair, RangeEnd, connVars, chanVars
<1>10. ASSUME NEW w \in Workers, RouteStep(w)
       PROVE  UNCHANGED <<hpc, hand, sent, syncMessages, chan, lastRouted>>
  BY <1>10, RouteFrame DEF connVars, chanVars
<1>12. ASSUME Elsewhere PROVE UNCHANGED <<hpc, hand, sent, syncMessages, chan, lastRouted>>
  BY <1>12, ElsewhereFrame DEF connVars
<1> QED
  BY <1>1, <1>2, <1>3, <1>4, <1>5, <1>6, <1>7, <1>8, <1>9, <1>10, <1>11, <1>12
     DEF Next, HandlerStep, GoroutineStep, Elsewhere

\* Under OrderInv no step moves lastRouted back.
LEMMA RoutedForward ==
  ASSUME TypeInv, OrderInv, [Next]_vars
  PROVE  \A p \in Pairs : lastRouted[p] <= lastRouted'[p]
<1>0. \A p \in Pairs : lastRouted[p] \in Nat BY DEF TypeInv, TypeOK, ChanTypeOK
<1>1. ASSUME NEW g \in Goroutines, ReceivePair(g)
      PROVE  \A p \in Pairs : lastRouted[p] <= lastRouted'[p]
  <2> DEFINE h == chan[<<ranging[g], g[2]>>][1]
  <2>1. h \in Nat /\ lastRouted[g[2]] < h /\ lastRouted' = [lastRouted EXCEPT ![g[2]] = h]
    BY <1>1, ReceiveOrder
  <2> QED BY <1>0, <2>1 DEF TypeInv, TypeOK, ChanTypeOK
<1>2. ASSUME UNCHANGED lastRouted PROVE \A p \in Pairs : lastRouted[p] <= lastRouted'[p]
  BY <1>0, <1>2
<1>3. ASSUME NEW c \in Conns, Accept(c) \/ Disconnect(c) \/ HandlerStep(c)
      PROVE  UNCHANGED lastRouted
  BY <1>3 DEF Accept, Disconnect, HandlerStep, CheckPair, CreatePair, EnqueuePair, chanVars
<1>4. ASSUME NEW c \in Conns, NEW p \in Pairs, ReadEnvelope(c, p) PROVE UNCHANGED lastRouted
  BY <1>4 DEF ReadEnvelope, chanVars
<1>5. ASSUME NEW k \in Callers, NEW p \in Pairs, CallRoute(k, p) PROVE UNCHANGED lastRouted
  BY <1>5 DEF CallRoute, chanVars
<1>6. ASSUME NEW g \in Goroutines, StartPair(g) \/ RangeEnd(g) PROVE UNCHANGED lastRouted
  BY <1>6 DEF StartPair, RangeEnd, chanVars
<1>7. ASSUME NEW w \in Workers, RouteStep(w) PROVE UNCHANGED lastRouted
  BY <1>7, RouteFrame DEF chanVars
<1>8. ASSUME Elsewhere PROVE UNCHANGED lastRouted
  BY <1>8, ElsewhereFrame
<1> QED
  BY <1>1, <1>2, <1>3, <1>4, <1>5, <1>6, <1>7, <1>8 DEF Next, GoroutineStep, Elsewhere

\* The invariant of the fast path.
LaneInv == TypeInv /\ ExclusiveInv /\ PairInv /\ OrderInv

\* It holds for peers whose connections do not overlap.
LEMMA LaneCorrect == ASSUME ~ Overlap PROVE Spec => []LaneInv
<1>1. Init => OrderInv
  <2> SUFFICES ASSUME Init PROVE OrderInv
    OBVIOUS
  <2>1. \A ch \in Channels : chan[ch] = <<>> BY DEF Init
  <2>2. \A ch \in Channels : Len(chan[ch]) = 0 BY <2>1, EmptySeq
  <2>3. \A c \in Conns, p \in Pairs : <<c, p>> \in Channels BY DEF Channels
  <2>4. \A p \in Pairs : lastRouted[p] = 0 /\ sent[p] = 0 BY DEF Init
  <2>5. \A c \in Conns : hpc[c] = "new" BY DEF Init
  <2> QED BY <2>1, <2>2, <2>3, <2>4, <2>5 DEF OrderInv
<1>2. TypeInv /\ ExclusiveInv /\ PairInv /\ OrderInv /\ [Next]_vars => OrderInv'
  BY OrderNext
<1> QED BY <1>1, <1>2, PairCorrect, PTL DEF Spec, LaneInv

\* If an agent connects again only after the handler of its previous connection
\* has returned, RouteEnvelope is called on the envelopes of every pair of a
\* delegate client in the order in which they were read, across reconnections
\* and whatever is discarded because a channel is full.
THEOREM FastPathOrderCorrect == ASSUME ~ Overlap PROVE Spec => FastPathOrder
<1>1. LaneInv /\ [Next]_vars => [\A p \in Pairs : lastRouted[p] <= lastRouted'[p]]_vars
  BY RoutedForward DEF LaneInv
<1> QED BY <1>1, LaneCorrect, PTL DEF Spec, FastPathOrder

-----------------------------------------------------------------------------
(* Where an envelope is: Conservation, with connections that overlap or not. *)

Holds(q, x) == \E i \in 1..Len(q) : q[i] = x
NoRepeat(q) == \A i, j \in 1..Len(q) : q[i] = q[j] => i = j

InHand(e) == \E c \in Conns : hand[c] = e
InChannel(e) == \E c \in Conns : Holds(chan[<<c, e.pair>>], e.n)
InJob(e) == \E w \in Workers : job[w] = e

Stages == {"hand", "chan", "job", "slow", "sjob", "succeeded", "failed"}

At(e, s) ==
    \/ s = "hand" /\ InHand(e)
    \/ s = "chan" /\ InChannel(e)
    \/ s = "job" /\ InJob(e)
    \/ s = "slow" /\ Holds(slow_queue, e)
    \/ s = "sjob" /\ sjob = e
    \/ s = "succeeded" /\ e \in succeeded
    \/ s = "failed" /\ e \in failed

Known(e) == e.n \in 1..sent[e.pair]

\* An envelope is at one stage from the moment it is accepted.
StageInv ==
    /\ \A e \in Envelopes : Known(e) <=> \E s \in Stages : At(e, s)
    /\ \A e \in Envelopes : \A s, t \in Stages : At(e, s) /\ At(e, t) => s = t

\* No stage has it twice.
OnceInv ==
    /\ \A c, d \in Conns : hand[c] = hand[d] /\ hand[c] # NoEnv => c = d
    /\ \A ch \in Channels : NoRepeat(chan[ch])
    /\ \A c, d \in Conns, p \in Pairs, n \in Nat :
           Holds(chan[<<c, p>>], n) /\ Holds(chan[<<d, p>>], n) => c = d
    /\ \A w, v \in Workers : job[w] = job[v] /\ job[w] # NoEnv => w = v
    /\ NoRepeat(slow_queue)

HeldInv == TypeInv /\ StageInv /\ OnceInv

\* What a queue holds after a send, and that nothing is in it twice.
LEMMA AppendHolds ==
  ASSUME NEW S, NEW q \in Seq(S), NEW x \in S
  PROVE  /\ \A y : Holds(Append(q, x), y) <=> Holds(q, y) \/ y = x
         /\ NoRepeat(q) /\ ~ Holds(q, x) => NoRepeat(Append(q, x))
<1> DEFINE r == Append(q, x)
<1>1. /\ Len(q) \in Nat /\ Len(r) = Len(q) + 1
      /\ \A i \in 1..Len(q) : r[i] = q[i]
      /\ r[Len(q) + 1] = x
  BY AppendProperties, LenProperties
<1> HIDE DEF r
<1>2. \A i \in 1..Len(r) : i \in 1..Len(q) \/ i = Len(q) + 1
  BY <1>1
<1>3. (\A i \in 1..Len(q) : i \in 1..Len(r)) /\ Len(q) + 1 \in 1..Len(r)
  BY <1>1
<1>4. ASSUME NEW y PROVE Holds(r, y) <=> Holds(q, y) \/ y = x
  BY <1>1, <1>2, <1>3 DEF Holds
<1>5. ASSUME NoRepeat(q), ~ Holds(q, x) PROVE NoRepeat(r)
  BY <1>1, <1>2, <1>5 DEF Holds, NoRepeat
<1> QED BY <1>4, <1>5 DEF r

\* And after a receive.
LEMMA TailHolds ==
  ASSUME NEW S, NEW q \in Seq(S), q # <<>>, NoRepeat(q)
  PROVE  /\ \A y : Holds(Tail(q), y) <=> Holds(q, y) /\ y # Head(q)
         /\ NoRepeat(Tail(q))
         /\ Holds(q, Head(q))
<1> DEFINE r == Tail(q)
           h == Head(q)
<1>1. /\ Len(q) \in Nat \ {0} /\ Len(r) = Len(q) - 1
      /\ \A i \in 1..Len(r) : r[i] = q[i + 1]
      /\ h = q[1]
  BY HeadTailProperties, EmptySeq
<1> HIDE DEF r, h
<1>2. \A i \in 1..Len(r) : i + 1 \in 1..Len(q) /\ i + 1 # 1
  BY <1>1
<1>3. \A i \in 1..Len(q) : i = 1 \/ (i - 1 \in 1..Len(r) /\ r[i - 1] = q[i])
  <2> SUFFICES ASSUME NEW i \in 1..Len(q), i # 1 PROVE i - 1 \in 1..Len(r) /\ r[i - 1] = q[i]
    OBVIOUS
  <2>1. i - 1 \in 1..Len(r) /\ (i - 1) + 1 = i BY <1>1
  <2> QED BY <1>1, <2>1
<1>4. 1 \in 1..Len(q) BY <1>1
<1>5. \A i \in 1..Len(r) : r[i] # h
  BY <1>1, <1>2, <1>4 DEF NoRepeat
<1>6. ASSUME NEW y PROVE Holds(r, y) <=> Holds(q, y) /\ y # h
  <2>1. ASSUME Holds(r, y) PROVE Holds(q, y) /\ y # h
    BY <1>1, <1>2, <1>5, <2>1 DEF Holds
  <2>2. ASSUME Holds(q, y), y # h PROVE Holds(r, y)
    BY <1>1, <1>3, <2>2 DEF Holds
  <2> QED BY <2>1, <2>2
<1>7. NoRepeat(r)
  <2> SUFFICES ASSUME NEW i \in 1..Len(r), NEW j \in 1..Len(r), r[i] = r[j] PROVE i = j
    BY DEF NoRepeat
  <2>1. q[i + 1] = q[j + 1] /\ i + 1 \in 1..Len(q) /\ j + 1 \in 1..Len(q)
    BY <1>1, <1>2
  <2>2. i + 1 = j + 1 BY <2>1 DEF NoRepeat
  <2> QED BY <1>1, <2>2
<1>8. Holds(q, h) BY <1>1, <1>4 DEF Holds
<1> QED BY <1>6, <1>7, <1>8 DEF r, h

\* An envelope goes from one stage to another, and the others stay where they are.
LEMMA StageMoves ==
  ASSUME StageInv, NEW e \in Envelopes, NEW s \in Stages, At(e, s), NEW t \in Stages,
         \A f \in Envelopes : \A r \in Stages : f # e => (At(f, r)' <=> At(f, r)),
         \A r \in Stages : At(e, r)' <=> r = t,
         UNCHANGED sent
  PROVE  StageInv'
<1>1. \A f \in Envelopes : Known(f)' <=> Known(f) BY DEF Known
<1>2. Known(e) BY DEF StageInv
<1>3. \A f \in Envelopes : Known(f)' <=> \E r \in Stages : At(f, r)'
  <2> SUFFICES ASSUME NEW f \in Envelopes PROVE Known(f)' <=> \E r \in Stages : At(f, r)'
    OBVIOUS
  <2>1. CASE f = e BY <1>1, <1>2, <2>1
  <2>2. CASE f # e BY <1>1, <2>2 DEF StageInv
  <2> QED BY <2>1, <2>2
<1>4. \A f \in Envelopes : \A r, q \in Stages : At(f, r)' /\ At(f, q)' => r = q
  <2> SUFFICES ASSUME NEW f \in Envelopes, NEW r \in Stages, NEW q \in Stages, At(f, r)', At(f, q)'
               PROVE  r = q
    OBVIOUS
  <2>1. CASE f = e BY <2>1
  <2>2. CASE f # e BY <2>2 DEF StageInv
  <2> QED BY <2>1, <2>2
<1> QED BY <1>3, <1>4 DEF StageInv

\* A new envelope enters at a stage.
LEMMA StageEnters ==
  ASSUME TypeInv, StageInv, NEW p \in Pairs, NEW e, e = Env(p, sent[p] + 1), NEW t \in Stages,
         sent' = [sent EXCEPT ![p] = @ + 1],
         \A f \in Envelopes : \A r \in Stages : f # e => (At(f, r)' <=> At(f, r)),
         \A r \in Stages : At(e, r)' <=> r = t
  PROVE  StageInv'
<1>1. e \in Envelopes /\ e.pair = p /\ e.n = sent[p] + 1 /\ sent[p] \in Nat
  BY DEF Env, Envelopes, TypeInv, TypeOK, ConnTypeOK
<1>2. Known(e)'
  <2>1. sent'[p] = sent[p] + 1 BY DEF TypeInv, TypeOK, ConnTypeOK
  <2>2. e.n \in 1..sent'[e.pair] BY <1>1, <2>1
  <2> QED BY <2>2 DEF Known
<1>3. ASSUME NEW f \in Envelopes, f # e PROVE Known(f)' <=> Known(f)
  <2>1. f = [pair |-> f.pair, n |-> f.n] /\ f.pair \in Pairs /\ f.n \in Nat BY DEF Envelopes
  <2>2. CASE f.pair = p
    <3>1. f.n # sent[p] + 1 BY <1>3, <2>1, <2>2 DEF Env
    <3>2. sent'[p] = sent[p] + 1 BY DEF TypeInv, TypeOK, ConnTypeOK
    <3>3. f.n \in 1..sent'[p] <=> f.n \in 1..sent[p] BY <1>1, <2>1, <3>1, <3>2
    <3> QED BY <2>2, <3>3 DEF Known
  <2>3. CASE f.pair # p
    BY <2>1, <2>3 DEF Known, TypeInv, TypeOK, ConnTypeOK
  <2> QED BY <2>2, <2>3
<1>4. \A f \in Envelopes : Known(f)' <=> \E r \in Stages : At(f, r)'
  <2> SUFFICES ASSUME NEW f \in Envelopes PROVE Known(f)' <=> \E r \in Stages : At(f, r)'
    OBVIOUS
  <2>1. CASE f = e BY <1>2, <2>1
  <2>2. CASE f # e BY <1>3, <2>2 DEF StageInv
  <2> QED BY <2>1, <2>2
<1>5. \A f \in Envelopes : \A r, q \in Stages : At(f, r)' /\ At(f, q)' => r = q
  <2> SUFFICES ASSUME NEW f \in Envelopes, NEW r \in Stages, NEW q \in Stages, At(f, r)', At(f, q)'
               PROVE  r = q
    OBVIOUS
  <2>1. CASE f = e BY <2>1
  <2>2. CASE f # e BY <2>2 DEF StageInv
  <2> QED BY <2>1, <2>2
<1> QED BY <1>4, <1>5 DEF StageInv

\* An envelope that was not accepted is nowhere.
LEMMA NewIsNowhere ==
  ASSUME TypeInv, StageInv, NEW p \in Pairs, NEW e, e = Env(p, sent[p] + 1)
  PROVE  e \in Envelopes /\ \A s \in Stages : ~ At(e, s)
<1>1. e \in Envelopes /\ ~ Known(e)
  BY DEF Env, Envelopes, Known, TypeInv, TypeOK, ConnTypeOK
<1> QED BY <1>1 DEF StageInv

\* Where envelopes are when a handler or a worker takes one up or puts it down.
LEMMA HandSet ==
  ASSUME HeldInv, NEW c \in Conns, NEW e \in Envelopes,
         \/ hand[c] = e /\ hand' = [hand EXCEPT ![c] = NoEnv]
         \/ hand[c] = NoEnv /\ hand' = [hand EXCEPT ![c] = e]
  PROVE  /\ \A f \in Envelopes : f # e => (InHand(f)' <=> InHand(f))
         /\ hand[c] = e => ~ InHand(e)'
         /\ hand[c] = NoEnv => InHand(e)'
         /\ hand[c] = e \/ ~ InHand(e) =>
                \A b, d \in Conns : hand'[b] = hand'[d] /\ hand'[b] # NoEnv => b = d
<1>1. NoEnv # e /\ \A d \in Conns : d # c => hand'[d] = hand[d]
  BY DEF HeldInv, TypeInv, TypeOK, ConnTypeOK
<1>2. hand'[c] = IF hand[c] = e THEN NoEnv ELSE e
  BY <1>1 DEF HeldInv, TypeInv, TypeOK, ConnTypeOK
<1>3. hand[c] \in {e, NoEnv} /\ \A f \in Envelopes : f # NoEnv
  BY DEF HeldInv, TypeInv, TypeOK, ConnTypeOK
<1>4. \A b, d \in Conns : hand[b] = hand[d] /\ hand[b] # NoEnv => b = d BY DEF HeldInv, OnceInv
<1>5. ASSUME NEW f \in Envelopes, f # e PROVE InHand(f)' <=> InHand(f)
  <2>1. hand[c] # f /\ hand'[c] # f BY <1>1, <1>2, <1>3, <1>5
  <2> QED BY <1>1, <2>1 DEF InHand
<1>6. hand[c] = e => ~ InHand(e)' BY <1>1, <1>2, <1>4 DEF InHand
<1>7. hand[c] = NoEnv => InHand(e)' BY <1>1, <1>2 DEF InHand
<1>8. ASSUME hand[c] = e \/ ~ InHand(e), NEW b \in Conns, NEW d \in Conns,
             hand'[b] = hand'[d], hand'[b] # NoEnv
      PROVE  b = d
  <2>1. CASE hand[c] = e BY <1>1, <1>2, <1>4, <1>8, <2>1
  <2>2. CASE hand[c] = NoEnv
    <3>1. \A x \in Conns : hand[x] # e BY <1>1, <1>8, <2>2 DEF InHand
    <3> QED BY <1>1, <1>2, <1>4, <1>8, <2>2, <3>1
  <2> QED BY <1>3, <2>1, <2>2
<1> QED BY <1>5, <1>6, <1>7, <1>8

\* What the workers route after one of them takes up or leaves an envelope.
LEMMA JobSet ==
  ASSUME HeldInv, NEW w \in Workers, NEW e \in Envelopes,
         \/ job[w] = e /\ job' = [job EXCEPT ![w] = NoEnv]
         \/ job[w] = NoEnv /\ job' = [job EXCEPT ![w] = e]
  PROVE  /\ \A f \in Envelopes : f # e => (InJob(f)' <=> InJob(f))
         /\ job[w] = e => ~ InJob(e)'
         /\ job[w] = NoEnv => InJob(e)'
         /\ job[w] = e \/ ~ InJob(e) =>
                \A v, u \in Workers : job'[v] = job'[u] /\ job'[v] # NoEnv => v = u
<1>1. NoEnv # e /\ \A d \in Workers : d # w => job'[d] = job[d]
  BY DEF HeldInv, TypeInv, TypeOK, WorkTypeOK
<1>2. job'[w] = IF job[w] = e THEN NoEnv ELSE e
  BY <1>1 DEF HeldInv, TypeInv, TypeOK, WorkTypeOK
<1>3. job[w] \in {e, NoEnv} /\ \A f \in Envelopes : f # NoEnv
  BY DEF HeldInv, TypeInv, TypeOK, WorkTypeOK
<1>4. \A b, d \in Workers : job[b] = job[d] /\ job[b] # NoEnv => b = d BY DEF HeldInv, OnceInv
<1>5. ASSUME NEW f \in Envelopes, f # e PROVE InJob(f)' <=> InJob(f)
  <2>1. job[w] # f /\ job'[w] # f BY <1>1, <1>2, <1>3, <1>5
  <2> QED BY <1>1, <2>1 DEF InJob
<1>6. job[w] = e => ~ InJob(e)' BY <1>1, <1>2, <1>4 DEF InJob
<1>7. job[w] = NoEnv => InJob(e)' BY <1>1, <1>2 DEF InJob
<1>8. ASSUME job[w] = e \/ ~ InJob(e), NEW b \in Workers, NEW d \in Workers,
             job'[b] = job'[d], job'[b] # NoEnv
      PROVE  b = d
  <2>1. CASE job[w] = e BY <1>1, <1>2, <1>4, <1>8, <2>1
  <2>2. CASE job[w] = NoEnv
    <3>1. \A x \in Workers : job[x] # e BY <1>1, <1>8, <2>2 DEF InJob
    <3> QED BY <1>1, <1>2, <1>4, <1>8, <2>2, <3>1
  <2> QED BY <1>3, <2>1, <2>2
<1> QED BY <1>5, <1>6, <1>7, <1>8

\* Where envelopes are when one is sent to a channel, and when one is received.
LEMMA ChannelSends ==
  ASSUME HeldInv, NEW ch \in Channels, NEW n \in Nat, ~ InChannel(Env(ch[2], n)),
         chan' = [chan EXCEPT ![ch] = Append(@, n)]
  PROVE  /\ \A f \in Envelopes : f # Env(ch[2], n) => (InChannel(f)' <=> InChannel(f))
         /\ InChannel(Env(ch[2], n))'
         /\ \A x \in Channels : NoRepeat(chan'[x])
         /\ \A c, d \in Conns, p \in Pairs, k \in Nat :
               Holds(chan'[<<c, p>>], k) /\ Holds(chan'[<<d, p>>], k) => c = d
<1>0. ch[1] \in Conns /\ ch[2] \in Pairs /\ ch = <<ch[1], ch[2]>> BY DEF Channels
<1>1. chan[ch] \in Seq(Nat) /\ NoRepeat(chan[ch])
  BY DEF HeldInv, OnceInv, TypeInv, TypeOK, ChanTypeOK
<1>2. chan'[ch] = Append(chan[ch], n) /\ \A x \in Channels : x # ch => chan'[x] = chan[x]
  BY DEF HeldInv, TypeInv, TypeOK, ChanTypeOK
<1>3. \A c \in Conns : ~ Holds(chan[<<c, ch[2]>>], n) BY DEF InChannel, Env
<1>4. \A y : Holds(chan'[ch], y) <=> Holds(chan[ch], y) \/ y = n BY <1>1, <1>2, AppendHolds
<1>5. \A c \in Conns, p \in Pairs : <<c, p>> \in Channels BY DEF Channels
<1>6. \A f \in Envelopes : f # Env(ch[2], n) => (InChannel(f)' <=> InChannel(f))
  <2> SUFFICES ASSUME NEW f \in Envelopes, f # Env(ch[2], n) PROVE InChannel(f)' <=> InChannel(f)
    OBVIOUS
  <2>1. f.pair \in Pairs /\ (f.pair # ch[2] \/ f.n # n) BY DEF Envelopes, Env
  <2>2. ASSUME NEW c \in Conns
        PROVE  Holds(chan'[<<c, f.pair>>], f.n) <=> Holds(chan[<<c, f.pair>>], f.n)
    <3>1. CASE <<c, f.pair>> = ch BY <1>4, <2>1, <3>1
    <3>2. CASE <<c, f.pair>> # ch BY <1>2, <1>5, <2>1, <3>2
    <3> QED BY <3>1, <3>2
  <2> QED BY <2>2 DEF InChannel
<1>7. InChannel(Env(ch[2], n))' BY <1>0, <1>4 DEF InChannel, Env
<1>8. \A x \in Channels : NoRepeat(chan'[x])
  <2>1. ~ Holds(chan[ch], n) BY <1>0, <1>3
  <2>2. NoRepeat(chan'[ch]) BY <1>1, <1>2, <2>1, AppendHolds
  <2> QED BY <1>2, <2>2 DEF HeldInv, OnceInv
<1>9. ASSUME NEW c \in Conns, NEW d \in Conns, NEW p \in Pairs, NEW k \in Nat,
             Holds(chan'[<<c, p>>], k), Holds(chan'[<<d, p>>], k)
      PROVE  c = d
  <2>1. CASE p = ch[2] /\ k = n
    <3>1. \A b \in Conns : Holds(chan'[<<b, p>>], k) => b = ch[1]
      <4> SUFFICES ASSUME NEW b \in Conns, Holds(chan'[<<b, p>>], k), b # ch[1] PROVE FALSE
        OBVIOUS
      <4>1. chan'[<<b, p>>] = chan[<<b, p>>] BY <1>0, <1>2, <1>5
      <4> QED BY <1>3, <2>1, <4>1
    <3> QED BY <1>9, <3>1
  <2>2. CASE ~ (p = ch[2] /\ k = n)
    <3>1. \A b \in Conns : Holds(chan'[<<b, p>>], k) => Holds(chan[<<b, p>>], k)
      <4> SUFFICES ASSUME NEW b \in Conns, Holds(chan'[<<b, p>>], k) PROVE Holds(chan[<<b, p>>], k)
        OBVIOUS
      <4>1. CASE <<b, p>> = ch BY <1>4, <2>2, <4>1
      <4>2. CASE <<b, p>> # ch BY <1>2, <1>5, <4>2
      <4> QED BY <4>1, <4>2
    <3> QED BY <1>9, <3>1 DEF HeldInv, OnceInv
  <2> QED BY <2>1, <2>2
<1> QED BY <1>6, <1>7, <1>8, <1>9

\* What the channels hold after a receive.
LEMMA ChannelReceives ==
  ASSUME HeldInv, NEW ch \in Channels, chan[ch] # <<>>, NEW n, n = Head(chan[ch]),
         chan' = [chan EXCEPT ![ch] = Tail(@)]
  PROVE  /\ \A f \in Envelopes : f # Env(ch[2], n) => (InChannel(f)' <=> InChannel(f))
         /\ InChannel(Env(ch[2], n))
         /\ ~ InChannel(Env(ch[2], n))'
         /\ \A x \in Channels : NoRepeat(chan'[x])
         /\ \A c, d \in Conns, p \in Pairs, k \in Nat :
               Holds(chan'[<<c, p>>], k) /\ Holds(chan'[<<d, p>>], k) => c = d
<1>0. ch[1] \in Conns /\ ch[2] \in Pairs /\ ch = <<ch[1], ch[2]>> BY DEF Channels
<1>1. chan[ch] \in Seq(Nat) /\ NoRepeat(chan[ch]) /\ n \in Nat
  BY HeadTailProperties DEF HeldInv, OnceInv, TypeInv, TypeOK, ChanTypeOK
<1>2. chan'[ch] = Tail(chan[ch]) /\ \A x \in Channels : x # ch => chan'[x] = chan[x]
  BY DEF HeldInv, TypeInv, TypeOK, ChanTypeOK
<1>3. /\ \A y : Holds(chan'[ch], y) <=> Holds(chan[ch], y) /\ y # n
      /\ NoRepeat(chan'[ch])
      /\ Holds(chan[ch], n)
  BY <1>1, <1>2, TailHolds
<1>4. \A c \in Conns, p \in Pairs : <<c, p>> \in Channels BY DEF Channels
<1>5. \A c \in Conns, p \in Pairs : \A k : Holds(chan'[<<c, p>>], k) => Holds(chan[<<c, p>>], k)
  <2> SUFFICES ASSUME NEW c \in Conns, NEW p \in Pairs, NEW k, Holds(chan'[<<c, p>>], k)
               PROVE  Holds(chan[<<c, p>>], k)
    OBVIOUS
  <2>1. CASE <<c, p>> = ch BY <1>3, <2>1
  <2>2. CASE <<c, p>> # ch BY <1>2, <1>4, <2>2
  <2> QED BY <2>1, <2>2
<1>6. \A f \in Envelopes : f # Env(ch[2], n) => (InChannel(f)' <=> InChannel(f))
  <2> SUFFICES ASSUME NEW f \in Envelopes, f # Env(ch[2], n) PROVE InChannel(f)' <=> InChannel(f)
    OBVIOUS
  <2>1. f.pair \in Pairs /\ (f.pair # ch[2] \/ f.n # n) BY DEF Envelopes, Env
  <2>2. ASSUME NEW c \in Conns
        PROVE  Holds(chan'[<<c, f.pair>>], f.n) <=> Holds(chan[<<c, f.pair>>], f.n)
    <3>1. CASE <<c, f.pair>> = ch BY <1>3, <2>1, <3>1
    <3>2. CASE <<c, f.pair>> # ch BY <1>2, <1>4, <2>1, <3>2
    <3> QED BY <3>1, <3>2
  <2> QED BY <2>2 DEF InChannel
<1>7. InChannel(Env(ch[2], n)) BY <1>0, <1>3 DEF InChannel, Env
<1>8. ~ InChannel(Env(ch[2], n))'
  <2> SUFFICES ASSUME NEW c \in Conns, Holds(chan'[<<c, ch[2]>>], n) PROVE FALSE
    BY DEF InChannel, Env
  <2>1. Holds(chan[<<c, ch[2]>>], n) /\ Holds(chan[<<ch[1], ch[2]>>], n) BY <1>0, <1>3, <1>5
  <2>2. c = ch[1] BY <1>0, <1>1, <2>1 DEF HeldInv, OnceInv
  <2> QED BY <1>0, <1>3, <2>2
<1>9. \A x \in Channels : NoRepeat(chan'[x]) BY <1>2, <1>3 DEF HeldInv, OnceInv
<1>10. \A c, d \in Conns, p \in Pairs, k \in Nat :
               Holds(chan'[<<c, p>>], k) /\ Holds(chan'[<<d, p>>], k) => c = d
  BY <1>5 DEF HeldInv, OnceInv
<1> QED BY <1>6, <1>7, <1>8, <1>9, <1>10

\* The steps keep the stages and the single copies.
LEMMA HeldSame ==
  ASSUME HeldInv, UNCHANGED <<hand, chan, job, slow_queue, sjob, succeeded, failed, sent>>
  PROVE  StageInv' /\ OnceInv'
<1>1. \A f : /\ InHand(f)' <=> InHand(f)
             /\ InChannel(f)' <=> InChannel(f)
             /\ InJob(f)' <=> InJob(f)
             /\ Known(f)' <=> Known(f)
  BY DEF InHand, InChannel, InJob, Known
<1>2. \A f, s : At(f, s)' <=> At(f, s) BY <1>1 DEF At
<1>3. StageInv' BY <1>1, <1>2 DEF HeldInv, StageInv
<1>4. OnceInv' BY DEF HeldInv, OnceInv
<1> QED BY <1>3, <1>4

\* A handler reads an envelope: it is in hand.
LEMMA HeldRead ==
  ASSUME HeldInv, NEW c \in Conns, NEW p \in Pairs, ReadEnvelope(c, p)
  PROVE  StageInv' /\ OnceInv'
<1>1. PICK e : e = Env(p, sent[p] + 1) OBVIOUS
<1>2. e \in Envelopes /\ \A s \in Stages : ~ At(e, s) BY <1>1, NewIsNowhere DEF HeldInv
<1>3. /\ hand[c] = NoEnv /\ hand' = [hand EXCEPT ![c] = e]
      /\ sent' = [sent EXCEPT ![p] = @ + 1]
      /\ UNCHANGED <<chan, job, slow_queue, sjob, succeeded, failed>>
  BY <1>1
     DEF ReadEnvelope, HeldInv, TypeInv, TypeOK, ConnTypeOK, chanVars, workVars, slowVars, viewVars
<1>4. ~ InHand(e) BY <1>2 DEF At, Stages
<1>5. /\ \A f \in Envelopes : f # e => (InHand(f)' <=> InHand(f))
      /\ InHand(e)'
      /\ \A b, d \in Conns : hand'[b] = hand'[d] /\ hand'[b] # NoEnv => b = d
  BY <1>2, <1>3, <1>4, HandSet
<1>6. \A f : (InChannel(f)' <=> InChannel(f)) /\ (InJob(f)' <=> InJob(f))
  BY <1>3 DEF InChannel, InJob
<1>7. \A f \in Envelopes : \A r \in Stages : f # e => (At(f, r)' <=> At(f, r))
  BY <1>3, <1>5, <1>6 DEF At
<1>8. "hand" \in Stages /\ \A r \in Stages : At(e, r)' <=> r = "hand"
  BY <1>2, <1>3, <1>5, <1>6 DEF At, Stages
<1>9. StageInv' BY <1>1, <1>3, <1>7, <1>8, StageEnters DEF HeldInv
<1>10. OnceInv' BY <1>3, <1>5 DEF HeldInv, OnceInv
<1> QED BY <1>9, <1>10

\* A handler sends to a channel, or gives the envelope up: from hand to channel or failed.
LEMMA HeldEnqueue ==
  ASSUME HeldInv, NEW c \in Conns, EnqueuePair(c)
  PROVE  StageInv' /\ OnceInv'
<1>1. PICK e : e = hand[c] OBVIOUS
<1>2. e \in Envelopes /\ e.pair \in Pairs /\ e.n \in Nat /\ e = Env(e.pair, e.n) /\ InHand(e)
  BY <1>1, HeldIsEnvelope DEF EnqueuePair, HeldInv, TypeInv, Envelopes, Env, InHand
<1>3. /\ hand[c] = e /\ hand' = [hand EXCEPT ![c] = NoEnv]
      /\ UNCHANGED <<sent, job, slow_queue, sjob, succeeded>>
  BY <1>1 DEF EnqueuePair, workVars, slowVars
<1>4. \A s \in Stages : At(e, s) <=> s = "hand"
  <2>1. At(e, "hand") /\ "hand" \in Stages BY <1>2 DEF At, Stages
  <2> QED BY <1>2, <2>1 DEF HeldInv, StageInv
<1>5. /\ \A f \in Envelopes : f # e => (InHand(f)' <=> InHand(f))
      /\ ~ InHand(e)'
      /\ \A b, d \in Conns : hand'[b] = hand'[d] /\ hand'[b] # NoEnv => b = d
  BY <1>2, <1>3, HandSet
<1>6. \A f : InJob(f)' <=> InJob(f) BY <1>3 DEF InJob
<1>7. CASE failed' = failed \cup {e} /\ UNCHANGED chan
  <2>1. \A f : InChannel(f)' <=> InChannel(f) BY <1>7 DEF InChannel
  <2>2. \A f \in Envelopes : \A r \in Stages : f # e => (At(f, r)' <=> At(f, r))
    BY <1>3, <1>5, <1>6, <1>7, <2>1 DEF At
  <2>3. \A r \in Stages : At(e, r)' <=> r = "failed"
    BY <1>3, <1>4, <1>5, <1>6, <1>7, <2>1 DEF At, Stages
  <2>4. StageInv' BY <1>2, <1>3, <1>4, <2>2, <2>3, StageMoves DEF HeldInv, Stages
  <2>5. OnceInv' BY <1>3, <1>5, <1>7 DEF HeldInv, OnceInv
  <2> QED BY <2>4, <2>5
<1>8. CASE chan' = [chan EXCEPT ![<<syncMessages[e.pair], e.pair>>] = Append(@, e.n)]
           /\ UNCHANGED failed
  <2>1. PICK ch \in Channels : ch = <<syncMessages[e.pair], e.pair>>
    BY <1>1, <1>2 DEF Channels, MapInv, ChanTypeOK, EnqueuePair, HeldInv, TypeInv, TypeOK
  <2>2. ~ InChannel(Env(ch[2], e.n))
    BY <1>2, <1>4, <2>1 DEF At, Stages
  <2>3. /\ \A f \in Envelopes : f # e => (InChannel(f)' <=> InChannel(f))
        /\ InChannel(e)'
        /\ \A x \in Channels : NoRepeat(chan'[x])
        /\ \A b, d \in Conns, p \in Pairs, k \in Nat :
              Holds(chan'[<<b, p>>], k) /\ Holds(chan'[<<d, p>>], k) => b = d
    <3>1. chan' = [chan EXCEPT ![ch] = Append(@, e.n)] /\ Env(ch[2], e.n) = e
      BY <1>2, <1>8, <2>1
    <3>2. PICK n : n = e.n OBVIOUS
    <3>3. PICK x : x = Env(ch[2], n) OBVIOUS
    <3> QED BY <1>2, <2>2, <3>1, <3>2, ChannelSends
  <2>4. \A f \in Envelopes : \A r \in Stages : f # e => (At(f, r)' <=> At(f, r))
    BY <1>3, <1>5, <1>6, <1>8, <2>3 DEF At
  <2>5. \A r \in Stages : At(e, r)' <=> r = "chan"
    BY <1>3, <1>4, <1>5, <1>6, <1>8, <2>3 DEF At, Stages
  <2>6. StageInv' BY <1>2, <1>3, <1>4, <2>4, <2>5, StageMoves DEF HeldInv, Stages
  <2>7. OnceInv' BY <1>3, <1>5, <2>3 DEF HeldInv, OnceInv
  <2> QED BY <2>6, <2>7
<1> QED BY <1>1, <1>7, <1>8 DEF EnqueuePair

\* The goroutine of a pair receives: from channel to worker.
LEMMA HeldReceive ==
  ASSUME HeldInv, NEW g \in Goroutines, ReceivePair(g)
  PROVE  StageInv' /\ OnceInv'
<1>0. g \in Workers /\ g[2] \in Pairs BY DEF Workers, Goroutines, Channels
<1>1. PICK ch \in Channels : ch = <<ranging[g], g[2]>>
  BY <1>0 DEF ReceivePair, MapInv, ChanTypeOK, Channels, HeldInv, TypeInv, TypeOK
<1>2. PICK n : n = Head(chan[ch]) OBVIOUS
<1>3. n \in Nat
  BY <1>1, <1>2, HeadTailProperties DEF ReceivePair, HeldInv, TypeInv, TypeOK, ChanTypeOK
<1>4. PICK e \in Envelopes : e = Env(ch[2], n) BY <1>0, <1>1, <1>3 DEF Env, Envelopes
<1>5. /\ chan[ch] # <<>> /\ chan' = [chan EXCEPT ![ch] = Tail(@)]
      /\ job[g] = NoEnv /\ job' = [job EXCEPT ![g] = e]
      /\ UNCHANGED <<hand, sent, slow_queue, sjob, succeeded, failed>>
  BY <1>0, <1>1, <1>2, <1>4
     DEF ReceivePair, connVars, slowVars, HeldInv, TypeInv, TypeOK, WorkTypeOK, RouteStates
<1>6. /\ \A f \in Envelopes : f # e => (InChannel(f)' <=> InChannel(f))
      /\ InChannel(e) /\ ~ InChannel(e)'
      /\ \A x \in Channels : NoRepeat(chan'[x])
      /\ \A c, d \in Conns, p \in Pairs, k \in Nat :
            Holds(chan'[<<c, p>>], k) /\ Holds(chan'[<<d, p>>], k) => c = d
  BY <1>2, <1>4, <1>5, ChannelReceives
<1>7. \A s \in Stages : At(e, s) <=> s = "chan"
  <2>1. At(e, "chan") /\ "chan" \in Stages BY <1>6 DEF At, Stages
  <2> QED BY <2>1 DEF HeldInv, StageInv
<1>8. ~ InJob(e) BY <1>7 DEF At, Stages
<1>9. /\ \A f \in Envelopes : f # e => (InJob(f)' <=> InJob(f))
      /\ InJob(e)'
      /\ \A v, u \in Workers : job'[v] = job'[u] /\ job'[v] # NoEnv => v = u
  BY <1>0, <1>5, <1>8, JobSet
<1>10. \A f : InHand(f)' <=> InHand(f) BY <1>5 DEF InHand
<1>11. \A f \in Envelopes : \A r \in Stages : f # e => (At(f, r)' <=> At(f, r))
  BY <1>5, <1>6, <1>9, <1>10 DEF At
<1>12. \A r \in Stages : At(e, r)' <=> r = "job"
  BY <1>5, <1>6, <1>7, <1>9, <1>10 DEF At, Stages
<1>13. StageInv' BY <1>5, <1>7, <1>11, <1>12, StageMoves DEF HeldInv, Stages
<1>14. OnceInv' BY <1>5, <1>6, <1>9 DEF HeldInv, OnceInv
<1> QED BY <1>13, <1>14

\* A caller enters RouteEnvelope with a new envelope.
LEMMA HeldCall ==
  ASSUME HeldInv, NEW w \in Callers, NEW p \in Pairs, CallRoute(w, p)
  PROVE  StageInv' /\ OnceInv'
<1>1. PICK e : e = Env(p, sent[p] + 1) OBVIOUS
<1>2. e \in Envelopes /\ \A s \in Stages : ~ At(e, s) BY <1>1, NewIsNowhere DEF HeldInv
<1>3. /\ w \in Workers
      /\ job[w] = NoEnv /\ job' = [job EXCEPT ![w] = e]
      /\ sent' = [sent EXCEPT ![p] = @ + 1]
      /\ UNCHANGED <<hand, chan, slow_queue, sjob, succeeded, failed>>
  BY <1>1
     DEF CallRoute, HeldInv, TypeInv, TypeOK, WorkTypeOK, RouteStates, Workers, chanVars, slowVars
<1>4. ~ InJob(e) BY <1>2 DEF At, Stages
<1>5. /\ \A f \in Envelopes : f # e => (InJob(f)' <=> InJob(f))
      /\ InJob(e)'
      /\ \A v, u \in Workers : job'[v] = job'[u] /\ job'[v] # NoEnv => v = u
  BY <1>2, <1>3, <1>4, JobSet
<1>6. \A f : (InChannel(f)' <=> InChannel(f)) /\ (InHand(f)' <=> InHand(f))
  BY <1>3 DEF InChannel, InHand
<1>7. \A f \in Envelopes : \A r \in Stages : f # e => (At(f, r)' <=> At(f, r))
  BY <1>3, <1>5, <1>6 DEF At
<1>8. "job" \in Stages /\ \A r \in Stages : At(e, r)' <=> r = "job"
  BY <1>2, <1>3, <1>5, <1>6 DEF At, Stages
<1>9. StageInv' BY <1>1, <1>3, <1>7, <1>8, StageEnters DEF HeldInv
<1>10. OnceInv' BY <1>3, <1>5 DEF HeldInv, OnceInv
<1> QED BY <1>9, <1>10

\* What a step of RouteEnvelope does with the envelope it has: it keeps it, or returns
\* with a verdict, or after the send to slow_queue.
LEMMA RouteEffect ==
  ASSUME TypeInv, NEW w \in Workers, RouteStep(w)
  PROVE  /\ job[w] \in Envelopes
         /\ UNCHANGED <<hand, chan, sent, sjob>>
         /\ \/ UNCHANGED <<job, slow_queue, succeeded, failed>>
            \/ /\ job' = [job EXCEPT ![w] = NoEnv]
               /\ \/ succeeded' = succeeded \cup {job[w]} /\ UNCHANGED <<failed, slow_queue>>
                  \/ failed' = failed \cup {job[w]} /\ UNCHANGED <<succeeded, slow_queue>>
                  \/ slow_queue' = Append(slow_queue, job[w]) /\ UNCHANGED <<succeeded, failed>>
<1>1. wpc[w] \in RouteStates
  BY DEF RouteStep, RejectSender, RouteMailbox, RouteMyAgent, RouteDelegate, AwaitAck,
         RouteRelay, RouteLookup, ReadStatus, MoveToSlow, PushSlow, CanRoute, RouteStates
<1>2. job[w] \in Envelopes BY <1>1, HeldIsEnvelope DEF TypeInv
<1>3. UNCHANGED <<hand, chan, sent>> BY RouteFrame DEF connVars, chanVars
<1>4. UNCHANGED sjob
  BY DEF RouteStep, RejectSender, RouteMailbox, RouteMyAgent, RouteDelegate, AwaitAck,
         RouteRelay, RouteLookup, ReadStatus, MoveToSlow, PushSlow, slowVars
<1>5. ASSUME RejectSender(w) \/ RouteMailbox(w) \/ AwaitAck(w) \/ RouteMyAgent(w)
      PROVE  /\ job' = [job EXCEPT ![w] = NoEnv]
             /\ UNCHANGED slow_queue
             /\ Succeed(job[w]) \/ Fail(job[w])
  BY <1>5 DEF RejectSender, RouteMailbox, RouteMyAgent, ProcessFailed, AwaitAck, Return, slowVars
<1>6. ASSUME RouteDelegate(w) \/ RouteRelay(w) \/ RouteLookup(w) \/ ReadStatus(w) \/ MoveToSlow(w)
      PROVE  /\ UNCHANGED slow_queue
             /\ \/ UNCHANGED <<job, succeeded, failed>>
                \/ /\ job' = [job EXCEPT ![w] = NoEnv]
                   /\ Succeed(job[w]) \/ Fail(job[w])
  BY <1>6 DEF RouteDelegate, WriteFailed, RouteRelay, RouteLookup, ReadStatus, MoveToSlow,
              Return, slowVars
<1>7. ASSUME PushSlow(w)
      PROVE  /\ job' = [job EXCEPT ![w] = NoEnv]
             /\ UNCHANGED succeeded
             /\ \/ failed' = failed \cup {job[w]} /\ UNCHANGED slow_queue
                \/ slow_queue' = Append(slow_queue, job[w]) /\ UNCHANGED failed
  BY <1>7 DEF PushSlow, Return
<1> QED BY <1>2, <1>3, <1>4, <1>5, <1>6, <1>7 DEF RouteStep, Succeed, Fail

\* A step of RouteEnvelope keeps the envelope, settles it or puts it on slow_queue.
LEMMA HeldRoute ==
  ASSUME HeldInv, NEW w \in Workers, RouteStep(w)
  PROVE  StageInv' /\ OnceInv'
<1>1. PICK e \in Envelopes : e = job[w] BY RouteEffect DEF HeldInv
<1>2. UNCHANGED <<hand, chan, sent, sjob>> BY RouteEffect DEF HeldInv
<1>3. CASE UNCHANGED <<job, slow_queue, succeeded, failed>> BY <1>2, <1>3, HeldSame
<1>4. CASE job' = [job EXCEPT ![w] = NoEnv]
  <2>1. /\ \A f \in Envelopes : f # e => (InJob(f)' <=> InJob(f))
        /\ ~ InJob(e)'
        /\ \A v, u \in Workers : job'[v] = job'[u] /\ job'[v] # NoEnv => v = u
    BY <1>1, <1>4, JobSet
  <2>2. \A s \in Stages : At(e, s) <=> s = "job"
    <3>1. At(e, "job") /\ "job" \in Stages BY <1>1 DEF At, Stages, InJob
    <3> QED BY <3>1 DEF HeldInv, StageInv
  <2>3. \A f : (InHand(f)' <=> InHand(f)) /\ (InChannel(f)' <=> InChannel(f))
    BY <1>2 DEF InHand, InChannel
  <2>4. CASE succeeded' = succeeded \cup {e} /\ UNCHANGED <<failed, slow_queue>>
    <3>1. \A f \in Envelopes : \A r \in Stages : f # e => (At(f, r)' <=> At(f, r))
      BY <1>2, <2>1, <2>3, <2>4 DEF At
    <3>2. "succeeded" \in Stages /\ \A r \in Stages : At(e, r)' <=> r = "succeeded"
      BY <1>2, <2>1, <2>2, <2>3, <2>4 DEF At, Stages
    <3>3. StageInv' BY <1>2, <2>2, <3>1, <3>2, StageMoves DEF HeldInv, Stages
    <3>4. OnceInv' BY <1>2, <2>1, <2>4 DEF HeldInv, OnceInv
    <3> QED BY <3>3, <3>4
  <2>5. CASE failed' = failed \cup {e} /\ UNCHANGED <<succeeded, slow_queue>>
    <3>1. \A f \in Envelopes : \A r \in Stages : f # e => (At(f, r)' <=> At(f, r))
      BY <1>2, <2>1, <2>3, <2>5 DEF At
    <3>2. "failed" \in Stages /\ \A r \in Stages : At(e, r)' <=> r = "failed"
      BY <1>2, <2>1, <2>2, <2>3, <2>5 DEF At, Stages
    <3>3. StageInv' BY <1>2, <2>2, <3>1, <3>2, StageMoves DEF HeldInv, Stages
    <3>4. OnceInv' BY <1>2, <2>1, <2>5 DEF HeldInv, OnceInv
    <3> QED BY <3>3, <3>4
  <2>6. CASE slow_queue' = Append(slow_queue, e) /\ UNCHANGED <<succeeded, failed>>
    <3>1. slow_queue \in Seq(Envelopes) /\ NoRepeat(slow_queue) /\ ~ Holds(slow_queue, e)
      BY <2>2 DEF At, Stages, HeldInv, OnceInv, TypeInv, TypeOK, SlowTypeOK
    <3>2. /\ \A y : Holds(slow_queue', y) <=> Holds(slow_queue, y) \/ y = e
          /\ NoRepeat(slow_queue')
      BY <2>6, <3>1, AppendHolds
    <3>3. \A f \in Envelopes : \A r \in Stages : f # e => (At(f, r)' <=> At(f, r))
      BY <1>2, <2>1, <2>3, <2>6, <3>2 DEF At
    <3>4. "slow" \in Stages /\ \A r \in Stages : At(e, r)' <=> r = "slow"
      BY <1>2, <2>1, <2>2, <2>3, <2>6, <3>2 DEF At, Stages
    <3>5. StageInv' BY <1>2, <2>2, <3>3, <3>4, StageMoves DEF HeldInv, Stages
    <3>6. OnceInv' BY <1>2, <2>1, <3>2 DEF HeldInv, OnceInv
    <3> QED BY <3>5, <3>6
  <2> QED BY <1>1, <1>3, <2>4, <2>5, <2>6, RouteEffect DEF HeldInv
<1> QED BY <1>3, <1>4, RouteEffect DEF HeldInv

\* The slow loop takes an envelope from slow_queue, and settles it.
LEMMA HeldSlow ==
  ASSUME HeldInv, SlowStep
  PROVE  StageInv' /\ OnceInv'
<1>1. UNCHANGED <<hand, chan, sent, job>>
  BY DEF SlowStep, SlowReceive, SlowEnd, SlowLookup, SlowStatus, connVars, chanVars, workVars
<1>2. \A f : /\ InHand(f)' <=> InHand(f)
             /\ InChannel(f)' <=> InChannel(f)
             /\ InJob(f)' <=> InJob(f)
  BY <1>1 DEF InHand, InChannel, InJob
<1>3. CASE SlowReceive
  <2>1. PICK e \in Envelopes : e = Head(slow_queue)
    BY <1>3, HeadTailProperties DEF SlowReceive, HeldInv, TypeInv, TypeOK, SlowTypeOK
  <2>2. /\ \A y : Holds(slow_queue', y) <=> Holds(slow_queue, y) /\ y # e
        /\ NoRepeat(slow_queue')
        /\ Holds(slow_queue, e)
    BY <1>3, <2>1, TailHolds DEF SlowReceive, HeldInv, OnceInv, TypeInv, TypeOK, SlowTypeOK
  <2>3. \A s \in Stages : At(e, s) <=> s = "slow"
    <3>1. At(e, "slow") /\ "slow" \in Stages BY <2>2 DEF At, Stages
    <3> QED BY <3>1 DEF HeldInv, StageInv
  <2>4. OnceInv' BY <1>1, <2>2 DEF HeldInv, OnceInv
  <2>5. CASE UNCHANGED <<sjob, succeeded>> /\ failed' = failed \cup {e}
    <3>1. \A f \in Envelopes : \A r \in Stages : f # e => (At(f, r)' <=> At(f, r))
      BY <1>2, <2>2, <2>5 DEF At
    <3>2. "failed" \in Stages /\ \A r \in Stages : At(e, r)' <=> r = "failed"
      BY <1>2, <2>2, <2>3, <2>5 DEF At, Stages
    <3>3. StageInv' BY <1>1, <2>3, <3>1, <3>2, StageMoves DEF HeldInv, Stages
    <3> QED BY <2>4, <3>3
  <2>6. CASE sjob = NoEnv /\ sjob' = e /\ UNCHANGED <<succeeded, failed>>
    <3>1. \A f \in Envelopes : sjob # f BY <2>6
    <3>2. \A f \in Envelopes : \A r \in Stages : f # e => (At(f, r)' <=> At(f, r))
      BY <1>2, <2>2, <2>6, <3>1 DEF At
    <3>3. "sjob" \in Stages /\ \A r \in Stages : At(e, r)' <=> r = "sjob"
      BY <1>2, <2>2, <2>3, <2>6 DEF At, Stages
    <3>4. StageInv' BY <1>1, <2>3, <3>2, <3>3, StageMoves DEF HeldInv, Stages
    <3> QED BY <2>4, <3>4
  <2>7. sjob = NoEnv BY <1>3 DEF SlowReceive, HeldInv, TypeInv, TypeOK, SlowTypeOK
  <2> QED BY <1>3, <2>1, <2>5, <2>6, <2>7 DEF SlowReceive, Fail
<1>4. CASE SlowLookup \/ SlowStatus
  <2>1. PICK e \in Envelopes : e = sjob
    BY <1>4, HeldIsEnvelope DEF SlowLookup, SlowStatus, HeldInv, TypeInv
  <2>2. UNCHANGED slow_queue BY <1>4 DEF SlowLookup, SlowStatus, SlowGiveUp
  <2>3. OnceInv' BY <1>1, <2>2 DEF HeldInv, OnceInv
  <2>4. \A s \in Stages : At(e, s) <=> s = "sjob"
    <3>1. At(e, "sjob") /\ "sjob" \in Stages BY <2>1 DEF At, Stages
    <3> QED BY <3>1 DEF HeldInv, StageInv
  <2>5. CASE UNCHANGED <<sjob, succeeded, failed>> BY <1>1, <2>2, <2>5, HeldSame
  <2>6. CASE sjob' = NoEnv /\ succeeded' = succeeded \cup {e} /\ UNCHANGED failed
    <3>1. \A f \in Envelopes : sjob' # f BY <2>6
    <3>2. \A f \in Envelopes : \A r \in Stages : f # e => (At(f, r)' <=> At(f, r))
      BY <1>2, <2>1, <2>2, <2>6, <3>1 DEF At
    <3>3. "succeeded" \in Stages /\ \A r \in Stages : At(e, r)' <=> r = "succeeded"
      BY <1>2, <2>2, <2>4, <2>6, <3>1 DEF At, Stages
    <3>4. StageInv' BY <1>1, <2>4, <3>2, <3>3, StageMoves DEF HeldInv, Stages
    <3> QED BY <2>3, <3>4
  <2>7. CASE sjob' = NoEnv /\ failed' = failed \cup {e} /\ UNCHANGED succeeded
    <3>1. \A f \in Envelopes : sjob' # f BY <2>7
    <3>2. \A f \in Envelopes : \A r \in Stages : f # e => (At(f, r)' <=> At(f, r))
      BY <1>2, <2>1, <2>2, <2>7, <3>1 DEF At
    <3>3. "failed" \in Stages /\ \A r \in Stages : At(e, r)' <=> r = "failed"
      BY <1>2, <2>2, <2>4, <2>7, <3>1 DEF At, Stages
    <3>4. StageInv' BY <1>1, <2>4, <3>2, <3>3, StageMoves DEF HeldInv, Stages
    <3> QED BY <2>3, <3>4
  <2> QED
    BY <1>4, <2>1, <2>5, <2>6, <2>7
       DEF SlowLookup, SlowStatus, SlowGiveUp, SlowReturn, Succeed, Fail
<1>5. CASE SlowEnd
  BY <1>1, <1>5, HeldSame DEF SlowEnd, viewVars
<1> QED BY <1>3, <1>4, <1>5 DEF SlowStep

\* Every step keeps HeldInv.
LEMMA HeldNext == HeldInv /\ [Next]_vars => HeldInv'
<1> SUFFICES ASSUME HeldInv, [Next]_vars PROVE HeldInv' OBVIOUS
<1>1. TypeInv' BY TypeNext DEF HeldInv
<1>2. ASSUME \/ \E c \in Conns : Accept(c) \/ Disconnect(c) \/ CheckPair(c) \/ CreatePair(c)
             \/ \E g \in Goroutines : StartPair(g) \/ RangeEnd(g)
             \/ \E cp \in wire : Arrive(cp) \/ Refuse(cp) \/ Ignore(cp)
             \/ AgentStep \/ CloseStep \/ UNCHANGED vars
      PROVE  UNCHANGED <<hand, chan, job, slow_queue, sjob, succeeded, failed, sent>>
  BY <1>2 DEF Accept, Disconnect, CheckPair, CreatePair, StartPair, RangeEnd, Arrive, Refuse,
              Ignore, AgentStep, CloseStep, CloseBegin, CloseChannels, CloseSlowQueue, vars,
              connVars, chanVars, workVars, slowVars, viewVars
<1>3. StageInv' /\ OnceInv'
  BY <1>2, HeldSame, HeldRead, HeldEnqueue, HeldReceive, HeldCall, HeldRoute, HeldSlow
     DEF Next, HandlerStep, GoroutineStep
<1> QED BY <1>1, <1>3 DEF HeldInv

\* At the start no envelope was accepted and no stage has one.
LEMMA HeldInit == Init => HeldInv
<1> SUFFICES ASSUME Init PROVE HeldInv OBVIOUS
<1>1. \A q, x : q = <<>> => ~ Holds(q, x) /\ NoRepeat(q)
  <2> SUFFICES ASSUME NEW q, NEW x, q = <<>> PROVE ~ Holds(q, x) /\ NoRepeat(q) OBVIOUS
  <2>1. Len(q) = 0 BY EmptySeq
  <2> QED BY <2>1 DEF Holds, NoRepeat
<1>2. \A e \in Envelopes : ~ InHand(e) /\ ~ InChannel(e) /\ ~ InJob(e)
  <2> SUFFICES ASSUME NEW e \in Envelopes PROVE ~ InHand(e) /\ ~ InChannel(e) /\ ~ InJob(e)
    OBVIOUS
  <2>1. e # NoEnv /\ e.pair \in Pairs BY DEF Envelopes
  <2>2. ~ InHand(e) /\ ~ InJob(e) BY <2>1 DEF Init, InHand, InJob
  <2>3. \A c \in Conns : chan[<<c, e.pair>>] = <<>> BY <2>1 DEF Init, Channels
  <2> QED BY <1>1, <2>2, <2>3 DEF InChannel
<1>3. \A e \in Envelopes, s \in Stages : ~ At(e, s) BY <1>1, <1>2 DEF Init, At, Stages
<1>4. \A e \in Envelopes : ~ Known(e) BY DEF Init, Known, Envelopes
<1>5. StageInv BY <1>3, <1>4 DEF StageInv
<1>6. OnceInv
  <2>1. \A ch \in Channels : chan[ch] = <<>> BY DEF Init
  <2>2. \A c \in Conns, p \in Pairs : chan[<<c, p>>] = <<>> BY <2>1 DEF Channels
  <2> QED BY <1>1, <2>1, <2>2 DEF Init, OnceInv
<1> QED BY <1>5, <1>6, TypeInit DEF HeldInv

\* The invariant holds, on no condition.
LEMMA HeldCorrect == Spec => []HeldInv
BY HeldInit, HeldNext, PTL DEF Spec

\* A set of which any two members are equal has one member or none.
LEMMA AtMostOne ==
  ASSUME NEW S, \A x, y \in S : x = y
  PROVE  Cardinality(S) = IF S = {} THEN 0 ELSE 1
<1>1. CASE S = {} BY <1>1, FS_EmptySet
<1>2. CASE S # {}
  <2>1. PICK x : S = {x} BY <1>2
  <2> QED BY <1>2, <2>1, FS_Singleton
<1> QED BY <1>1, <1>2

\* The invariant says what Conservation counts.
LEMMA ConservationHolds == HeldInv => Conservation
<1> SUFFICES ASSUME HeldInv, NEW e \in Accepted PROVE Holders(e) = 1 BY DEF Conservation
<1> DEFINE H == {c \in Conns : hand[c] = e}
           C == {x \in Conns \X (1..PairQueueSize) :
                   LET q == chan[<<x[1], e.pair>>] IN x[2] <= Len(q) /\ q[x[2]] = e.n}
           J == {w \in Workers : job[w] = e}
           Q == {i \in 1..Len(slow_queue) : slow_queue[i] = e}
<1>1. e \in Envelopes /\ e.pair \in Pairs /\ e.n \in Nat /\ e # NoEnv /\ Known(e)
  BY DEF Accepted, Envelopes, Known, HeldInv, TypeInv, TypeOK, ConnTypeOK
<1>2. Cardinality(H) = IF InHand(e) THEN 1 ELSE 0
  <2>1. \A x, y \in H : x = y BY <1>1 DEF HeldInv, OnceInv
  <2>2. H = {} <=> ~ InHand(e) BY DEF InHand
  <2> QED BY <2>1, <2>2, AtMostOne
<1>3. Cardinality(J) = IF InJob(e) THEN 1 ELSE 0
  <2>1. \A x, y \in J : x = y BY <1>1 DEF HeldInv, OnceInv
  <2>2. J = {} <=> ~ InJob(e) BY DEF InJob
  <2> QED BY <2>1, <2>2, AtMostOne
<1>4. Cardinality(Q) = IF Holds(slow_queue, e) THEN 1 ELSE 0
  <2>1. \A x, y \in Q : x = y BY DEF HeldInv, OnceInv, NoRepeat
  <2>2. Q = {} <=> ~ Holds(slow_queue, e) BY DEF Holds
  <2> QED BY <2>1, <2>2, AtMostOne
<1>5. Cardinality(C) = IF InChannel(e) THEN 1 ELSE 0
  <2>0. \A c \in Conns : /\ <<c, e.pair>> \in Channels
                         /\ Len(chan[<<c, e.pair>>]) \in Nat
                         /\ Len(chan[<<c, e.pair>>]) <= PairQueueSize
                         /\ NoRepeat(chan[<<c, e.pair>>])
    BY <1>1, LenProperties DEF Channels, HeldInv, OnceInv, TypeInv, TypeOK, ChanTypeOK
  <2>1. ASSUME NEW x \in C
        PROVE  /\ x = <<x[1], x[2]>> /\ x[1] \in Conns
               /\ x[2] \in 1..Len(chan[<<x[1], e.pair>>])
               /\ chan[<<x[1], e.pair>>][x[2]] = e.n
    BY <2>0
  <2>2. ASSUME NEW x \in C, NEW y \in C PROVE x = y
    <3>1. Holds(chan[<<x[1], e.pair>>], e.n) /\ Holds(chan[<<y[1], e.pair>>], e.n)
      BY <2>1 DEF Holds
    <3>2. x[1] = y[1] BY <1>1, <2>1, <3>1 DEF HeldInv, OnceInv
    <3>3. x[2] = y[2] BY <2>0, <2>1, <3>2 DEF NoRepeat
    <3> QED BY <2>1, <3>2, <3>3
  <2>3. ASSUME InChannel(e) PROVE C # {}
    <3>1. PICK c \in Conns : Holds(chan[<<c, e.pair>>], e.n) BY <2>3 DEF InChannel
    <3>2. PICK i \in 1..Len(chan[<<c, e.pair>>]) : chan[<<c, e.pair>>][i] = e.n
      BY <3>1 DEF Holds
    <3>3. <<c, i>> \in C BY <2>0, <3>2
    <3> QED BY <3>3
  <2>4. ASSUME NEW x \in C PROVE InChannel(e) BY <2>1 DEF InChannel, Holds
  <2> QED BY <2>2, <2>3, <2>4, AtMostOne
<1>6. PICK s \in Stages : At(e, s) BY <1>1 DEF HeldInv, StageInv
<1>7. \A t \in Stages : At(e, t) <=> t = s BY <1>1, <1>6 DEF HeldInv, StageInv
<1>8. Holders(e) = Cardinality(H) + Cardinality(C) + Cardinality(J) + Cardinality(Q)
                   + (IF sjob = e THEN 1 ELSE 0) + (IF e \in succeeded THEN 1 ELSE 0)
                   + (IF e \in failed THEN 1 ELSE 0)
  BY DEF Holders
<1> HIDE DEF H, C, J, Q
<1> QED BY <1>2, <1>3, <1>4, <1>5, <1>7, <1>8 DEF At, Stages

\* Whatever the connections, callers, capacities and outcomes, overlapping
\* connections and Close included, an acknowledged envelope is always in exactly one
\* place of the peer or settled with exactly one verdict.
THEOREM ConservationCorrect == Spec => []Conservation
BY HeldCorrect, ConservationHolds, PTL

-----------------------------------------------------------------------------
(* The refinement of Delivery.                                              *)

\* The copy has left the peer.
Out(e, via) == Handled(e, via) \/ Copy(e, via) \in wire

\* RouteEnvelope, the slow loop, will not send the envelope any more.
PastRoute(e) ==
    /\ ~ InHand(e) /\ ~ InChannel(e)
    /\ \A w \in Workers : job[w] = e => wpc[w] # "route"
PastSlow(e) ==
    /\ ~ InHand(e) /\ ~ InChannel(e) /\ ~ InJob(e) /\ ~ Holds(slow_queue, e)
    /\ sjob = e => spc = "status"

\* A copy has left once at most, and only for an envelope that was accepted and
\* whose sender is past that send; the first attempt sends one copy, on a delegate
\* connection or in another way; a worker that waits for the acknowledgement of a
\* delegate client has written to its connection.
CopyInv ==
    /\ \A e \in Envelopes, via \in Vias : Out(e, via) => Known(e)
    /\ \A e \in Envelopes, via \in Vias : Copy(e, via) \in wire => ~ Handled(e, via)
    /\ \A e \in Envelopes : Out(e, "fast") \/ Out(e, "tcp") => PastRoute(e)
    /\ \A e \in Envelopes : Out(e, "slow") => PastSlow(e)
    /\ \A e \in Envelopes : ~ (Out(e, "fast") /\ Out(e, "tcp"))
    /\ \A w \in Workers : wpc[w] = "await" => Handled(job[w], "tcp")

\* What the target has after a delivery.
LEMMA DeliverHas ==
  ASSUME TypeInv, NEW e \in Envelopes, NEW v \in Vias, Deliver(e, v)
  PROVE  \A f \in Envelopes : \A u \in Vias :
            Delivered(f, u)' <=> Delivered(f, u) \/ (f = e /\ u = v)
<1> SUFFICES ASSUME NEW f \in Envelopes, NEW u \in Vias
             PROVE  Delivered(f, u)' <=> Delivered(f, u) \/ (f = e /\ u = v)
  OBVIOUS
<1>1. \A g \in Envelopes : g = [pair |-> g.pair, n |-> g.n] /\ g.pair \in Pairs /\ g.n \in Nat
  BY DEF Envelopes
<1>2. /\ delivered \in [Pairs -> Seq([n : Nat, via : Vias])]
      /\ [n |-> e.n, via |-> v] \in [n : Nat, via : Vias]
  BY <1>1 DEF TypeInv, TypeOK, NetTypeOK
<1>3. /\ delivered'[e.pair] = Append(delivered[e.pair], [n |-> e.n, via |-> v])
      /\ \A p \in Pairs : p # e.pair => delivered'[p] = delivered[p]
  <2>1. delivered' = [delivered EXCEPT
                        ![e.pair] = Append(delivered[e.pair], [n |-> e.n, via |-> v])]
    BY DEF Deliver
  <2>2. e.pair \in Pairs BY <1>1
  <2> QED BY <1>2, <2>1, <2>2
<1>4. \A y : Holds(delivered'[e.pair], y) <=>
             Holds(delivered[e.pair], y) \/ y = [n |-> e.n, via |-> v]
  <2>1. PICK S : S = [n : Nat, via : Vias] OBVIOUS
  <2>2. PICK x : x = [n |-> e.n, via |-> v] OBVIOUS
  <2>3. delivered[e.pair] \in Seq(S) /\ x \in S BY <1>1, <1>2, <2>1, <2>2
  <2>4. \A y : Holds(Append(delivered[e.pair], x), y) <=> Holds(delivered[e.pair], y) \/ y = x
    BY <2>3, AppendHolds
  <2> QED BY <1>3, <2>2, <2>4
<1>5. /\ Delivered(f, u) <=> Holds(delivered[f.pair], [n |-> f.n, via |-> u])
      /\ Delivered(f, u)' <=> Holds(delivered'[f.pair], [n |-> f.n, via |-> u])
  BY DEF Delivered, Holds
<1>6. CASE f.pair = e.pair
  <2>1. f = e <=> f.n = e.n BY <1>1, <1>6
  <2>2. [n |-> f.n, via |-> u] = [n |-> e.n, via |-> v] <=> f.n = e.n /\ u = v OBVIOUS
  <2> QED BY <1>4, <1>5, <1>6, <2>1, <2>2
<1>7. CASE f.pair # e.pair
  BY <1>1, <1>3, <1>5, <1>7
<1> QED BY <1>6, <1>7

\* What the other ends have handled, then.
LEMMA DeliverHandled ==
  ASSUME TypeInv, NEW e \in Envelopes, NEW v \in Vias, Deliver(e, v), UNCHANGED lost
  PROVE  \A f \in Envelopes : \A u \in Vias :
            Handled(f, u)' <=> Handled(f, u) \/ (f = e /\ u = v)
BY DeliverHas DEF Handled

\* ... and after a loss.
LEMMA LoseHandled ==
  ASSUME NEW e, NEW v, lost' = lost \cup {Copy(e, v)}, UNCHANGED delivered
  PROVE  \A f, u : Handled(f, u)' <=> Handled(f, u) \/ (f = e /\ u = v)
<1>1. \A f, u : Copy(f, u) \in lost' <=> Copy(f, u) \in lost \/ (f = e /\ u = v) BY DEF Copy
<1>2. \A f, u : Delivered(f, u)' <=> Delivered(f, u) BY DEF Delivered
<1> QED BY <1>1, <1>2 DEF Handled

\* What is on the wire after a send.
LEMMA SendHas ==
  ASSUME NEW e, NEW v, Send(e, v)
  PROVE  \A f, u : Copy(f, u) \in wire' <=> Copy(f, u) \in wire \/ (f = e /\ u = v)
BY DEF Send, Copy

\* A step that sends and delivers nothing.
LEMMA CopyQuiet ==
  ASSUME CopyInv, UNCHANGED <<wire, delivered, lost, acks>>,
         \A e \in Envelopes : Known(e) => Known(e)',
         \A e \in Envelopes : Known(e) /\ PastRoute(e) => PastRoute(e)',
         \A e \in Envelopes : Known(e) /\ PastSlow(e) => PastSlow(e)',
         \A w \in Workers : wpc'[w] = "await" => wpc[w] = "await" /\ job'[w] = job[w]
  PROVE  CopyInv'
<1>1. \A e, via : /\ Handled(e, via)' <=> Handled(e, via)
                  /\ Out(e, via)' <=> Out(e, via)
  BY DEF Handled, Delivered, Out
<1>2. \A w \in Workers : wpc'[w] = "await" => Handled(job[w], "tcp")'
  BY DEF CopyInv, Handled, Delivered
<1>3. "fast" \in Vias /\ "slow" \in Vias /\ "tcp" \in Vias BY DEF Vias
<1> QED BY <1>1, <1>2, <1>3 DEF CopyInv

\* What a step of RouteEnvelope does on the network, to the statuses and to its
\* verdicts: nothing, except a verdict perhaps; it takes an acknowledgement; or it
\* delivers, writes to a connection, living or dead, or sends.
QuietStep(w) ==
    /\ UNCHANGED <<wire, delivered, lost, acks>>
    /\ \/ UNCHANGED succeeded
       \/ Handled(job[w], "fast") /\ Succeed(job[w])
AckStep(w) ==
    /\ UNCHANGED <<wire, delivered, lost>>
    /\ wpc[w] = "await" /\ TakeAck(job[w]) /\ Succeed(job[w])
HandStep(w) ==
    /\ Deliver(job[w], "fast") /\ Succeed(job[w])
    /\ UNCHANGED <<wire, lost, acks, slow_queue>>
WriteStep(w) ==
    /\ Deliver(job[w], "tcp") /\ acks' = acks \cup {job[w]}
    /\ UNCHANGED <<wire, lost, job, slow_queue, succeeded, failed>>
LoseStep(w) ==
    /\ lost' = lost \cup {Copy(job[w], "tcp")}
    /\ UNCHANGED <<wire, delivered, acks, job, slow_queue, succeeded, failed>>
SendStep(w) ==
    /\ Send(job[w], "fast")
    /\ UNCHANGED <<delivered, lost, acks, job, slow_queue, succeeded, failed>>
LeaveStep(w) == HandStep(w) \/ WriteStep(w) \/ LoseStep(w) \/ SendStep(w)

LEMMA RouteNet ==
  ASSUME TypeInv, NEW w \in Workers, RouteStep(w)
  PROVE  /\ UNCHANGED spc
         /\ \E s : wpc' = [wpc EXCEPT ![w] = s] /\ s # "route"
                   /\ (s = "await" => WriteStep(w) \/ LoseStep(w))
         /\ QuietStep(w) \/ AckStep(w) \/ (wpc[w] = "route" /\ LeaveStep(w))
<1> DEFINE Pc == \E s : wpc' = [wpc EXCEPT ![w] = s] /\ s # "route"
                        /\ (s = "await" => WriteStep(w) \/ LoseStep(w))
           Leave == wpc[w] = "route" /\ LeaveStep(w)
<1>1. UNCHANGED spc
  BY DEF RouteStep, RejectSender, RouteMailbox, RouteMyAgent, RouteDelegate, AwaitAck,
         RouteRelay, RouteLookup, ReadStatus, MoveToSlow, PushSlow, slowVars
<1>2. ASSUME NEW s, wpc' = [wpc EXCEPT ![w] = s], s # "route", s # "await" PROVE Pc
  BY <1>2
<1>3. ASSUME Return(w) PROVE Pc
  <2>1. CASE w \in Callers
    <3>1. wpc' = [wpc EXCEPT ![w] = "idle"] BY <1>3, <2>1 DEF Return
    <3> QED BY <1>2, <3>1
  <2>2. CASE w \notin Callers
    <3>1. wpc' = [wpc EXCEPT ![w] = "recv"] BY <1>3, <2>2 DEF Return
    <3> QED BY <1>2, <3>1
  <2> QED BY <2>1, <2>2
<1>4. CASE RejectSender(w)
  <2>1. QuietStep(w) BY <1>4 DEF RejectSender, Fail, netVars, QuietStep
  <2> QED BY <1>1, <1>3, <1>4, <2>1 DEF RejectSender
<1>5. CASE RouteMailbox(w)
  <2>1. HandStep(w) BY <1>5 DEF RouteMailbox, slowVars, HandStep
  <2>2. Leave BY <1>5, <2>1 DEF RouteMailbox, CanRoute, LeaveStep
  <2> QED BY <1>1, <1>3, <1>5, <2>2 DEF RouteMailbox
<1>6. CASE RouteMyAgent(w)
  <2>1. HandStep(w) \/ QuietStep(w)
    BY <1>6 DEF RouteMyAgent, ProcessFailed, Fail, slowVars, HandStep, QuietStep
  <2>2. Leave \/ QuietStep(w) BY <1>6, <2>1 DEF RouteMyAgent, CanRoute, LeaveStep
  <2> QED BY <1>1, <1>3, <1>6, <2>2 DEF RouteMyAgent
<1>7. CASE RouteDelegate(w)
  <2>0. wpc[w] = "route" BY <1>7 DEF RouteDelegate, CanRoute
  <2>1. CASE wpc' = [wpc EXCEPT ![w] = "await"] /\ (WriteStep(w) \/ LoseStep(w))
    <3>1. Leave BY <2>0, <2>1 DEF LeaveStep
    <3>2. Pc BY <2>1
    <3> QED BY <1>1, <3>1, <3>2
  <2>2. CASE WriteFailed(w)
    <3>1. QuietStep(w) BY <1>7, <2>2 DEF RouteDelegate, WriteFailed, Fail, QuietStep
    <3> QED BY <1>1, <1>3, <2>2, <3>1 DEF WriteFailed
  <2> QED BY <1>7, <2>1, <2>2 DEF RouteDelegate, slowVars, WriteStep, LoseStep
<1>8. CASE AwaitAck(w)
  <2>1. QuietStep(w) \/ AckStep(w) BY <1>8 DEF AwaitAck, Fail, QuietStep, AckStep
  <2> QED BY <1>1, <1>3, <1>8, <2>1 DEF AwaitAck
<1>9. CASE RouteRelay(w)
  <2>1. CASE Send(job[w], "fast") /\ wpc' = [wpc EXCEPT ![w] = "statusRelay"]
              /\ UNCHANGED <<job, succeeded, failed>>
    <3>1. SendStep(w) BY <1>9, <2>1 DEF RouteRelay, slowVars, SendStep
    <3>2. Leave BY <1>9, <3>1 DEF RouteRelay, CanRoute, LeaveStep
    <3>3. Pc BY <1>2, <2>1
    <3> QED BY <1>1, <3>2, <3>3
  <2>2. CASE Fail(job[w]) /\ Return(w) /\ UNCHANGED wire
    <3>1. QuietStep(w) BY <1>9, <2>2 DEF RouteRelay, Fail, QuietStep
    <3> QED BY <1>1, <1>3, <2>2, <3>1
  <2> QED BY <1>9, <2>1, <2>2 DEF RouteRelay
<1>10. CASE RouteLookup(w)
  <2>1. SendStep(w) \/ QuietStep(w) BY <1>10 DEF RouteLookup, slowVars, SendStep, QuietStep
  <2>2. Leave \/ QuietStep(w) BY <1>10, <2>1 DEF RouteLookup, CanRoute, LeaveStep
  <2>3. \/ wpc' = [wpc EXCEPT ![w] = "statusRemote"]
        \/ wpc' = [wpc EXCEPT ![w] = "lookupFailed"]
    BY <1>10 DEF RouteLookup
  <2>4. Pc BY <1>2, <2>3
  <2> QED BY <1>1, <2>2, <2>4
<1>11. CASE ReadStatus(w)
  <2>1. QuietStep(w) BY <1>11 DEF ReadStatus, Fail, netVars, QuietStep
  <2>2. Return(w) \/ wpc' = [wpc EXCEPT ![w] = "lookupFailed"] BY <1>11 DEF ReadStatus
  <2>3. Pc BY <1>3, <1>2, <2>2
  <2> QED BY <1>1, <2>1, <2>3
<1>12. CASE MoveToSlow(w)
  <2>1. QuietStep(w) BY <1>12 DEF MoveToSlow, Fail, netVars, QuietStep
  <2>2. Return(w) \/ wpc' = [wpc EXCEPT ![w] = "push"] BY <1>12 DEF MoveToSlow
  <2>3. Pc BY <1>3, <1>2, <2>2
  <2> QED BY <1>1, <2>1, <2>3
<1>13. CASE PushSlow(w)
  <2>1. QuietStep(w) BY <1>13 DEF PushSlow, netVars, QuietStep
  <2> QED BY <1>1, <1>3, <1>13, <2>1 DEF PushSlow
<1> QED
  BY <1>4, <1>5, <1>6, <1>7, <1>8, <1>9, <1>10, <1>11, <1>12, <1>13 DEF RouteStep

\* The steps of Delivery, in terms of this module.
LEMMA PromiseAccept ==
  ASSUME NEW p \in Pairs, sent' = [sent EXCEPT ![p] = @ + 1],
         UNCHANGED <<delivered, lost, acks, succeeded, failed>>
  PROVE  Promise!Next
BY DEF Promise!Next, Promise!Accept

\* What Delivery says of an envelope, in terms of this module.
LEMMA PromiseTerms ==
  ASSUME NEW e \in Envelopes, NEW via
  PROVE  /\ e.pair \in Pairs
         /\ Promise!Envelope(e.pair, e.n) = e
         /\ Promise!Copied(e.pair, e.n, via) = Copy(e, via)
         /\ Promise!Fresh(e.pair, e.n, via) <=> ~ Handled(e, via)
<1>1. e.pair \in Pairs /\ Promise!Envelope(e.pair, e.n) = e
  BY DEF Envelopes, Promise!Envelope
<1>2. Promise!Copied(e.pair, e.n, via) = Copy(e, via) BY <1>1 DEF Promise!Copied, Copy
<1> QED BY <1>1, <1>2 DEF Promise!Fresh, Promise!Has, Handled, Delivered

\* A delivery the target has not had by that way is a Deliver of Delivery.
LEMMA PromiseDeliver ==
  ASSUME NEW e \in Envelopes, Known(e), NEW via \in Vias, ~ Handled(e, via), Deliver(e, via),
         acks' = IF via = "tcp" THEN acks \cup {e} ELSE acks,
         UNCHANGED <<sent, lost, succeeded, failed>>
  PROVE  Promise!Next
<1>1. e.pair \in Pairs /\ e.n \in 1..sent[e.pair] BY DEF Envelopes, Known
<1>2. Promise!Hand(e.pair, e.n, via) BY PromiseTerms DEF Promise!Hand, Deliver
<1>3. Promise!Deliver(e.pair, e.n, via) BY <1>2, PromiseTerms DEF Promise!Deliver
<1> QED BY <1>1, <1>3 DEF Promise!Next

\* A loss on a delegate connection, or at the peer of a careless target, is a Lose.
LEMMA PromiseLose ==
  ASSUME NEW e \in Envelopes, Known(e), NEW via \in Vias, ~ Handled(e, via),
         via = "tcp" \/ Routes[e.pair[1]] \cap {"remoteAgent", "remoteDelegate"} # {},
         lost' = lost \cup {Copy(e, via)},
         UNCHANGED <<sent, delivered, acks, succeeded, failed>>
  PROVE  Promise!Next
<1>1. e.pair \in Pairs /\ e.n \in 1..sent[e.pair] BY DEF Envelopes, Known
<1>2. e.pair[1] \in Addresses BY <1>1
<1>3. Promise!Lose(e.pair, e.n, via) BY <1>2, PromiseTerms DEF Promise!Lose
<1> QED BY <1>1, <1>3 DEF Promise!Next

\* An envelope that the peer holds is accepted and has no verdict.
LEMMA HeldHasNoVerdict ==
  ASSUME StageInv, NEW e \in Envelopes, NEW s \in Stages \ {"succeeded", "failed"}, At(e, s)
  PROVE  e.pair \in Pairs /\ e.n \in 1..sent[e.pair] /\ Promise!NoVerdict(e.pair, e.n)
         /\ Promise!Envelope(e.pair, e.n) = e
<1>1. Known(e) BY DEF StageInv
<1>2. e \notin succeeded /\ e \notin failed
  <2>1. ~ At(e, "succeeded") /\ ~ At(e, "failed") BY DEF StageInv, Stages
  <2> QED BY <2>1 DEF At
<1>3. e.pair \in Pairs /\ Promise!Envelope(e.pair, e.n) = e BY PromiseTerms
<1> QED BY <1>1, <1>2, <1>3 DEF Known, Promise!NoVerdict

\* An error for an envelope that is held is a Fail of Delivery.
LEMMA PromiseFail ==
  ASSUME StageInv, NEW e \in Envelopes, NEW s \in Stages \ {"succeeded", "failed"}, At(e, s),
         failed' = failed \cup {e}, UNCHANGED <<sent, delivered, lost, acks, succeeded>>
  PROVE  Promise!Next
<1>1. Promise!Fail(e.pair, e.n) BY HeldHasNoVerdict DEF Promise!Fail
<1> QED BY <1>1, HeldHasNoVerdict DEF Promise!Next

\* No error for an envelope that is held and was handled, or for which the target has
\* acknowledged an envelope, is a Succeed of Delivery.
LEMMA PromiseSucceed ==
  ASSUME StageInv, NEW e \in Envelopes, NEW s \in Stages \ {"succeeded", "failed"}, At(e, s),
         Succeed(e), UNCHANGED <<sent, lost>>,
         \/ /\ UNCHANGED acks
            /\ \E via \in Vias \ {"tcp"} :
                  (Handled(e, via) /\ UNCHANGED delivered) \/ (~ Handled(e, via) /\ Deliver(e, via))
         \/ TakeAck(e) /\ UNCHANGED delivered
  PROVE  Promise!Next
<1>1. \/ /\ \E via \in Vias \ {"tcp"} :
               \/ Promise!Hand(e.pair, e.n, via)
               \/ ~ Promise!Fresh(e.pair, e.n, via) /\ UNCHANGED delivered
         /\ UNCHANGED acks
      \/ /\ \E x \in acks : x.pair[1] = e.pair[1] /\ acks' = acks \ {x}
         /\ UNCHANGED delivered
  BY PromiseTerms DEF Promise!Hand, Deliver, TakeAck
<1>2. Promise!Succeed(e.pair, e.n) BY <1>1, HeldHasNoVerdict DEF Promise!Succeed, Succeed
<1> QED BY <1>2, HeldHasNoVerdict DEF Promise!Next

PromiseStep == Promise!Next \/ UNCHANGED <<sent, delivered, lost, acks, succeeded, failed>>

\* The steps keep CopyInv, and each is a step of Delivery or none.
LEMMA CopyHandler ==
  ASSUME HeldInv, CopyInv, NEW c \in Conns, NEW p \in Pairs, ReadEnvelope(c, p)
  PROVE  CopyInv' /\ PromiseStep
<1>1. PICK e : e = Env(p, sent[p] + 1) OBVIOUS
<1>2. e \in Envelopes /\ ~ Known(e)
  BY <1>1 DEF Env, Envelopes, Known, HeldInv, TypeInv, TypeOK, ConnTypeOK
<1>3. /\ hand[c] = NoEnv /\ hand' = [hand EXCEPT ![c] = e]
      /\ sent' = [sent EXCEPT ![p] = @ + 1]
      /\ UNCHANGED <<chan, wpc, job, slow_queue, spc, sjob, wire, delivered, lost, acks, succeeded, failed>>
  BY <1>1 DEF ReadEnvelope, HeldInv, TypeInv, TypeOK, ConnTypeOK, chanVars, workVars, slowVars,
              netVars, viewVars
<1>4. \A f \in Envelopes : f # e => (InHand(f)' <=> InHand(f)) BY <1>2, <1>3, HandSet
<1>5. \A f : (InChannel(f)' <=> InChannel(f)) /\ (InJob(f)' <=> InJob(f))
  BY <1>3 DEF InChannel, InJob
<1>6. \A f \in Envelopes : Known(f) => Known(f)'
  <2>1. \A q \in Pairs : sent[q] \in Nat /\ sent'[q] \in Nat /\ sent[q] <= sent'[q]
    BY <1>3 DEF HeldInv, TypeInv, TypeOK, ConnTypeOK
  <2>2. \A f \in Envelopes : f.pair \in Pairs /\ f.n \in Nat BY DEF Envelopes
  <2> QED BY <2>1, <2>2 DEF Known
<1>7. \A f \in Envelopes : Known(f) /\ PastRoute(f) => PastRoute(f)'
  BY <1>2, <1>3, <1>4, <1>5 DEF PastRoute
<1>8. \A f \in Envelopes : Known(f) /\ PastSlow(f) => PastSlow(f)'
  BY <1>2, <1>3, <1>4, <1>5 DEF PastSlow
<1>9. CopyInv' BY <1>3, <1>6, <1>7, <1>8, CopyQuiet
<1>10. Promise!Next BY <1>3, PromiseAccept
<1> QED BY <1>9, <1>10 DEF PromiseStep

\* A call of RouteEnvelope accepts an envelope of which no copy has left.
LEMMA CopyCall ==
  ASSUME HeldInv, CopyInv, NEW w \in Callers, NEW p \in Pairs, CallRoute(w, p)
  PROVE  CopyInv' /\ PromiseStep
<1>1. PICK e : e = Env(p, sent[p] + 1) OBVIOUS
<1>2. e \in Envelopes /\ ~ Known(e)
  BY <1>1 DEF Env, Envelopes, Known, HeldInv, TypeInv, TypeOK, ConnTypeOK
<1>3. /\ w \in Workers
      /\ job[w] = NoEnv /\ job' = [job EXCEPT ![w] = e]
      /\ wpc' = [wpc EXCEPT ![w] = "route"]
      /\ sent' = [sent EXCEPT ![p] = @ + 1]
      /\ UNCHANGED <<hand, chan, slow_queue, spc, sjob, wire, delivered, lost, acks, succeeded, failed>>
  BY <1>1 DEF CallRoute, HeldInv, TypeInv, TypeOK, WorkTypeOK, RouteStates, Workers, chanVars,
              slowVars, netVars
<1>4. \A f \in Envelopes : f # e => (InJob(f)' <=> InJob(f)) BY <1>2, <1>3, JobSet
<1>5. \A f : (InChannel(f)' <=> InChannel(f)) /\ (InHand(f)' <=> InHand(f))
  BY <1>3 DEF InChannel, InHand
<1>6. \A f \in Envelopes : Known(f) => Known(f)'
  <2>1. \A q \in Pairs : sent[q] \in Nat /\ sent'[q] \in Nat /\ sent[q] <= sent'[q]
    BY <1>3 DEF HeldInv, TypeInv, TypeOK, ConnTypeOK
  <2>2. \A f \in Envelopes : f.pair \in Pairs /\ f.n \in Nat BY DEF Envelopes
  <2> QED BY <2>1, <2>2 DEF Known
<1>0. job'[w] = e /\ \A v \in Workers : v # w => job'[v] = job[v] /\ wpc'[v] = wpc[v]
  BY <1>3 DEF HeldInv, TypeInv, TypeOK, WorkTypeOK
<1>7. \A f \in Envelopes : Known(f) /\ PastRoute(f) => PastRoute(f)'
  BY <1>0, <1>2, <1>5 DEF PastRoute
<1>8. \A f \in Envelopes : Known(f) /\ PastSlow(f) => PastSlow(f)'
  BY <1>2, <1>3, <1>4, <1>5 DEF PastSlow
<1>9. \A v \in Workers : wpc'[v] = "await" => wpc[v] = "await" /\ job'[v] = job[v]
  BY <1>0, <1>3 DEF HeldInv, TypeInv, TypeOK, WorkTypeOK
<1>10. CopyInv' BY <1>3, <1>6, <1>7, <1>8, <1>9, CopyQuiet
<1>11. Promise!Next BY <1>3, PromiseAccept
<1> QED BY <1>10, <1>11 DEF PromiseStep

\* A handler that enqueues sends no copy, and may give up what it has.
LEMMA CopyEnqueue ==
  ASSUME HeldInv, CopyInv, NEW c \in Conns, EnqueuePair(c)
  PROVE  CopyInv' /\ PromiseStep
<1>1. PICK e : e = hand[c] OBVIOUS
<1>2. e \in Envelopes /\ e.pair \in Pairs /\ e.n \in Nat /\ e = Env(e.pair, e.n) /\ InHand(e)
  BY <1>1, HeldIsEnvelope DEF EnqueuePair, HeldInv, TypeInv, Envelopes, Env, InHand
<1>3. /\ hand[c] = e /\ hand' = [hand EXCEPT ![c] = NoEnv]
      /\ UNCHANGED <<sent, wpc, job, slow_queue, spc, sjob, wire, delivered, lost, acks, succeeded>>
  BY <1>1 DEF EnqueuePair, workVars, slowVars, netVars
<1>4. At(e, "hand") /\ "hand" \in Stages \ {"succeeded", "failed"} BY <1>2 DEF At, Stages
<1>5. \A f \in Envelopes : f # e => (InHand(f)' <=> InHand(f)) BY <1>2, <1>3, HandSet
<1>6. \A f \in Envelopes : f # e => (InChannel(f)' <=> InChannel(f))
  <2>1. CASE UNCHANGED chan BY <2>1 DEF InChannel
  <2>2. CASE chan' = [chan EXCEPT ![<<syncMessages[e.pair], e.pair>>] = Append(@, e.n)]
    <3>1. PICK ch \in Channels : ch = <<syncMessages[e.pair], e.pair>>
      BY <1>1, <1>2 DEF Channels, MapInv, ChanTypeOK, EnqueuePair, HeldInv, TypeInv, TypeOK
    <3>2. ~ InChannel(Env(ch[2], e.n))
      <4>1. ~ At(e, "chan") BY <1>2, <1>4 DEF HeldInv, StageInv, Stages
      <4> QED BY <1>2, <3>1, <4>1 DEF At
    <3>3. chan' = [chan EXCEPT ![ch] = Append(@, e.n)] /\ Env(ch[2], e.n) = e
      BY <1>2, <2>2, <3>1
    <3>4. PICK n : n = e.n OBVIOUS
    <3> QED BY <1>2, <3>2, <3>3, <3>4, ChannelSends
  <2> QED BY <1>1, <2>1, <2>2 DEF EnqueuePair
<1>7. \A f : (InJob(f)' <=> InJob(f)) /\ (Known(f)' <=> Known(f)) BY <1>3 DEF InJob, Known
<1>8. \A f \in Envelopes : Known(f) /\ PastRoute(f) => PastRoute(f)'
  BY <1>2, <1>3, <1>5, <1>6 DEF PastRoute
<1>9. \A f \in Envelopes : Known(f) /\ PastSlow(f) => PastSlow(f)'
  BY <1>2, <1>3, <1>5, <1>6, <1>7 DEF PastSlow
<1>10. CopyInv' BY <1>3, <1>7, <1>8, <1>9, CopyQuiet
<1>11. CASE failed' = failed \cup {e}
  <2>1. Promise!Next BY <1>2, <1>3, <1>4, <1>11, PromiseFail DEF HeldInv
  <2> QED BY <1>10, <2>1 DEF PromiseStep
<1>12. CASE UNCHANGED failed BY <1>3, <1>10, <1>12 DEF PromiseStep
<1> QED BY <1>1, <1>11, <1>12 DEF EnqueuePair

\* The goroutine of a pair receives an envelope of which no copy has left.
LEMMA CopyReceive ==
  ASSUME HeldInv, CopyInv, NEW g \in Goroutines, ReceivePair(g)
  PROVE  CopyInv' /\ PromiseStep
<1>0. g \in Workers /\ g[2] \in Pairs BY DEF Workers, Goroutines, Channels
<1>1. PICK ch \in Channels : ch = <<ranging[g], g[2]>>
  BY <1>0 DEF ReceivePair, MapInv, ChanTypeOK, Channels, HeldInv, TypeInv, TypeOK
<1>2. PICK n : n = Head(chan[ch]) OBVIOUS
<1>3. n \in Nat
  BY <1>1, <1>2, HeadTailProperties DEF ReceivePair, HeldInv, TypeInv, TypeOK, ChanTypeOK
<1>4. PICK e \in Envelopes : e = Env(ch[2], n) BY <1>0, <1>1, <1>3 DEF Env, Envelopes
<1>5. /\ chan[ch] # <<>> /\ chan' = [chan EXCEPT ![ch] = Tail(@)]
      /\ job[g] = NoEnv /\ job' = [job EXCEPT ![g] = e] /\ wpc' = [wpc EXCEPT ![g] = "route"]
      /\ UNCHANGED <<hand, sent, slow_queue, spc, sjob, wire, delivered, lost, acks, succeeded, failed>>
  BY <1>0, <1>1, <1>2, <1>4
     DEF ReceivePair, connVars, slowVars, netVars, HeldInv, TypeInv, TypeOK, WorkTypeOK, RouteStates
<1>6. /\ \A f \in Envelopes : f # e => (InChannel(f)' <=> InChannel(f))
      /\ InChannel(e) 
  BY <1>2, <1>4, <1>5, ChannelReceives
<1>7. job'[g] = e /\ \A v \in Workers : v # g => job'[v] = job[v] /\ wpc'[v] = wpc[v]
  BY <1>0, <1>5 DEF HeldInv, TypeInv, TypeOK, WorkTypeOK
<1>8. \A f \in Envelopes : f # e => (InJob(f)' <=> InJob(f)) BY <1>0, <1>5, JobSet
<1>9. \A f : (InHand(f)' <=> InHand(f)) /\ (Known(f)' <=> Known(f)) BY <1>5 DEF InHand, Known
<1>10. \A f \in Envelopes : Known(f) /\ PastRoute(f) => PastRoute(f)'
  BY <1>6, <1>7, <1>9 DEF PastRoute
<1>11. \A f \in Envelopes : Known(f) /\ PastSlow(f) => PastSlow(f)'
  BY <1>5, <1>6, <1>8, <1>9 DEF PastSlow
<1>12. \A v \in Workers : wpc'[v] = "await" => wpc[v] = "await" /\ job'[v] = job[v]
  BY <1>0, <1>5, <1>7 DEF HeldInv, TypeInv, TypeOK, WorkTypeOK
<1>13. CopyInv' BY <1>5, <1>9, <1>10, <1>11, <1>12, CopyQuiet
<1> QED BY <1>5, <1>13 DEF PromiseStep

\* RouteEnvelope sends its only fast copy, or waits for the answer, or settles.
LEMMA CopyRoute ==
  ASSUME HeldInv, CopyInv, NEW w \in Workers, RouteStep(w)
  PROVE  CopyInv' /\ PromiseStep
<1>0. TypeInv /\ StageInv /\ OnceInv BY DEF HeldInv
<1>1. PICK e \in Envelopes : e = job[w] BY <1>0, RouteEffect
<1>2. UNCHANGED <<hand, chan, sent, sjob, spc>> BY <1>0, RouteEffect, RouteNet
<1>3. PICK s : /\ wpc' = [wpc EXCEPT ![w] = s] /\ s # "route"
               /\ s = "await" => WriteStep(w) \/ LoseStep(w)
  BY <1>0, <1>1, RouteNet
<1>4. /\ wpc'[w] # "route" /\ (wpc'[w] = "await" => s = "await")
      /\ job'[w] \in {e, NoEnv}
      /\ \A v \in Workers : v # w => wpc'[v] = wpc[v] /\ job'[v] = job[v] /\ job[v] # e
  <2>1. wpc'[w] = s /\ \A v \in Workers : v # w => wpc'[v] = wpc[v]
    BY <1>3 DEF HeldInv, TypeInv, TypeOK, WorkTypeOK
  <2>2. job'[w] \in {e, NoEnv} /\ \A v \in Workers : v # w => job'[v] = job[v]
    BY <1>0, <1>1, RouteEffect DEF TypeInv, TypeOK, WorkTypeOK
  <2>3. \A v \in Workers : v # w => job[v] # e BY <1>0, <1>1 DEF OnceInv
  <2> QED BY <1>3, <2>1, <2>2, <2>3
<1>5. At(e, "job") /\ "job" \in Stages \ {"succeeded", "failed"} BY <1>1 DEF At, Stages, InJob
<1>6. ~ InHand(e) /\ ~ InChannel(e)
  <2>1. ~ At(e, "hand") /\ ~ At(e, "chan") BY <1>0, <1>5 DEF StageInv, Stages
  <2> QED BY <2>1 DEF At
<1>7. \A f : /\ InHand(f)' <=> InHand(f)
             /\ InChannel(f)' <=> InChannel(f)
             /\ Known(f)' <=> Known(f)
  BY <1>2 DEF InHand, InChannel, Known
<1>8. \A f \in Envelopes : InJob(f)' => InJob(f) BY <1>1, <1>4 DEF InJob
<1>9. \A f \in Envelopes : PastRoute(f) => PastRoute(f)' BY <1>4, <1>7 DEF PastRoute
<1>10. PastRoute(e)' BY <1>4, <1>6, <1>7 DEF PastRoute
<1>11. \A f \in Envelopes : PastSlow(f) => PastSlow(f)'
  <2>1. \A f \in Envelopes : Holds(slow_queue', f) => Holds(slow_queue, f) \/ f = e
    <3>1. CASE UNCHANGED slow_queue BY <3>1
    <3>2. CASE slow_queue' = Append(slow_queue, e)
      <4>1. slow_queue \in Seq(Envelopes) BY <1>0 DEF TypeInv, TypeOK, SlowTypeOK
      <4> QED BY <3>2, <4>1, AppendHolds
    <3> QED BY <1>0, <1>1, <3>1, <3>2, RouteEffect
  <2>2. InJob(e) BY <1>1 DEF InJob
  <2> QED BY <1>2, <1>7, <1>8, <2>1, <2>2 DEF PastSlow
<1>12. "fast" \in Vias /\ "slow" \in Vias /\ "tcp" \in Vias BY DEF Vias
<1>14. Known(e) BY <1>0, <1>5 DEF StageInv
<1>15. ASSUME NEW v \in Workers, wpc'[v] = "await",
              \A f \in Envelopes : \A u \in Vias : Handled(f, u) => Handled(f, u)'
       PROVE  Handled(job[v], "tcp")'
  <2>1. PICK j : j = job[v] OBVIOUS
  <2>2. CASE v = w
    <3>1. job' = job /\ (WriteStep(w) \/ LoseStep(w))
      BY <1>3, <1>4, <1>15, <2>2 DEF WriteStep, LoseStep
    <3>2. Handled(e, "tcp")'
      <4>1. CASE WriteStep(w)
        <5>1. Deliver(e, "tcp") /\ UNCHANGED lost BY <1>1, <4>1 DEF WriteStep
        <5> QED BY <1>0, <1>12, <5>1, DeliverHandled
      <4>2. CASE LoseStep(w)
        <5>1. lost' = lost \cup {Copy(e, "tcp")} BY <1>1, <4>2 DEF LoseStep
        <5> QED BY <5>1 DEF Handled
      <4> QED BY <3>1, <4>1, <4>2
    <3>3. job'[v] = e BY <1>1, <2>2, <3>1
    <3> QED BY <3>2, <3>3 DEF Handled, Delivered
  <2>3. CASE v # w
    <3>1. wpc[v] = "await" /\ job'[v] = j BY <1>4, <1>15, <2>1, <2>3
    <3>2. j \in Envelopes BY <1>0, <2>1, <3>1, HeldIsEnvelope DEF TypeInv, RouteStates
    <3>3. Handled(j, "tcp") BY <2>1, <3>1 DEF CopyInv
    <3>4. Handled(j, "tcp")' BY <1>12, <1>15, <3>2, <3>3
    <3> QED BY <3>1, <3>4 DEF Handled, Delivered
  <2> QED BY <2>2, <2>3
<1>16. e \notin succeeded
  <2>1. ~ At(e, "succeeded") BY <1>0, <1>5 DEF StageInv, Stages
  <2> QED BY <2>1 DEF At
<1>17. ASSUME UNCHANGED <<wire, delivered, lost>> PROVE CopyInv'
  <2>1. \A f, u : /\ Handled(f, u)' <=> Handled(f, u)
                  /\ Out(f, u)' <=> Out(f, u)
    BY <1>17 DEF Delivered, Handled, Out
  <2>2. \A v \in Workers : wpc'[v] = "await" => Handled(job[v], "tcp")' BY <1>15, <2>1
  <2> QED BY <1>7, <1>9, <1>11, <1>12, <1>17, <2>1, <2>2 DEF CopyInv
<1>18. ASSUME wpc[w] = "route" PROVE ~ Out(e, "fast") /\ ~ Out(e, "tcp")
  BY <1>1, <1>18 DEF CopyInv, PastRoute
<1>19. ASSUME NEW via \in {"fast", "tcp"}, wpc[w] = "route",
              \A f \in Envelopes : \A u \in Vias :
                 /\ Handled(f, u) => Handled(f, u)'
                 /\ Out(f, u)' <=> Out(f, u) \/ (f = e /\ u = via)
                 /\ Copy(f, u) \in wire' => ~ Handled(f, u)'
       PROVE  CopyInv'
  <2>1. \A v \in Workers : wpc'[v] = "await" => Handled(job[v], "tcp")' BY <1>15, <1>19
  <2>2. \A f \in Envelopes, u \in Vias : Out(f, u)' => Known(f)'
    BY <1>7, <1>14, <1>19 DEF CopyInv
  <2>3. \A f \in Envelopes : Out(f, "fast")' \/ Out(f, "tcp")' => PastRoute(f)'
    BY <1>9, <1>10, <1>12, <1>19 DEF CopyInv
  <2>4. \A f \in Envelopes : Out(f, "slow")' => PastSlow(f)'
    BY <1>11, <1>12, <1>19 DEF CopyInv
  <2>5. \A f \in Envelopes : ~ (Out(f, "fast")' /\ Out(f, "tcp")')
    BY <1>12, <1>18, <1>19 DEF CopyInv
  <2> QED BY <1>19, <2>1, <2>2, <2>3, <2>4, <2>5 DEF CopyInv
<1>20. CASE QuietStep(w)
  <2>1. CopyInv' BY <1>17, <1>20 DEF QuietStep
  <2>2. CASE UNCHANGED <<succeeded, failed>> BY <1>2, <1>20, <2>1, <2>2 DEF PromiseStep, QuietStep
  <2>3. CASE failed' = failed \cup {e} /\ UNCHANGED succeeded
    <3>1. Promise!Next BY <1>0, <1>2, <1>5, <1>20, <2>3, PromiseFail DEF QuietStep
    <3> QED BY <2>1, <3>1 DEF PromiseStep
  <2>4. CASE Handled(e, "fast") /\ Succeed(e)
    <3>1. UNCHANGED <<acks, delivered, lost>> BY <1>20 DEF QuietStep
    <3>2. Promise!Next BY <1>0, <1>2, <1>5, <1>12, <2>4, <3>1, PromiseSucceed
    <3> QED BY <2>1, <3>2 DEF PromiseStep
  <2>5. UNCHANGED succeeded => UNCHANGED failed \/ failed' = failed \cup {e}
    BY <1>0, <1>1, <1>16, RouteEffect
  <2> QED BY <1>1, <1>20, <2>2, <2>3, <2>4, <2>5 DEF QuietStep
<1>21. CASE AckStep(w)
  <2>1. CopyInv' BY <1>17, <1>21 DEF AckStep
  <2>2. TakeAck(e) /\ Succeed(e) /\ UNCHANGED <<lost, delivered>> BY <1>1, <1>21 DEF AckStep
  <2>3. Promise!Next BY <1>0, <1>2, <1>5, <2>2, PromiseSucceed
  <2> QED BY <2>1, <2>3 DEF PromiseStep
<1>22. CASE wpc[w] = "route" /\ (HandStep(w) \/ WriteStep(w))
  <2>1. PICK via \in {"fast", "tcp"} :
           /\ Deliver(e, via) /\ UNCHANGED <<wire, lost>>
           /\ via = "fast" => HandStep(w)
           /\ via = "tcp" => WriteStep(w)
    BY <1>1, <1>22 DEF HandStep, WriteStep
  <2>2. via \in Vias /\ ~ Handled(e, via) /\ Copy(e, via) \notin wire
    BY <1>12, <1>18, <1>22, <2>1 DEF Out
  <2>3. \A f \in Envelopes : \A u \in Vias :
            Handled(f, u)' <=> Handled(f, u) \/ (f = e /\ u = via)
    BY <1>0, <2>1, <2>2, DeliverHandled
  <2>4. \A f \in Envelopes : \A u \in Vias :
           /\ Out(f, u)' <=> Out(f, u) \/ (f = e /\ u = via)
           /\ Copy(f, u) \in wire' => ~ Handled(f, u)'
    BY <2>1, <2>2, <2>3 DEF Out, CopyInv
  <2>5. CopyInv' BY <1>19, <1>22, <2>3, <2>4
  <2>6. CASE via = "fast"
    <3>1. Succeed(e) /\ UNCHANGED <<lost, acks>> BY <1>1, <2>1, <2>6 DEF HandStep
    <3>2. Promise!Next BY <1>0, <1>2, <1>5, <1>12, <2>1, <2>2, <2>6, <3>1, PromiseSucceed
    <3> QED BY <2>5, <3>2 DEF PromiseStep
  <2>7. CASE via = "tcp"
    <3>1. acks' = acks \cup {e} /\ UNCHANGED <<lost, succeeded, failed>>
      BY <1>1, <2>1, <2>7 DEF WriteStep
    <3>2. Promise!Next BY <1>2, <1>14, <2>1, <2>2, <2>7, <3>1, PromiseDeliver
    <3> QED BY <2>5, <3>2 DEF PromiseStep
  <2> QED BY <2>6, <2>7
<1>23. CASE wpc[w] = "route" /\ LoseStep(w)
  <2>1. /\ lost' = lost \cup {Copy(e, "tcp")}
        /\ UNCHANGED <<wire, delivered, acks, succeeded, failed>>
    BY <1>1, <1>23 DEF LoseStep
  <2>2. ~ Handled(e, "tcp") /\ Copy(e, "tcp") \notin wire BY <1>18, <1>23 DEF Out
  <2>3. \A f, u : Handled(f, u)' <=> Handled(f, u) \/ (f = e /\ u = "tcp")
    BY <2>1, LoseHandled
  <2>4. \A f \in Envelopes : \A u \in Vias :
           /\ Out(f, u)' <=> Out(f, u) \/ (f = e /\ u = "tcp")
           /\ Copy(f, u) \in wire' => ~ Handled(f, u)'
    BY <2>1, <2>2, <2>3 DEF Out, CopyInv
  <2>5. CopyInv' BY <1>19, <1>23, <2>3, <2>4
  <2>6. Promise!Next BY <1>2, <1>12, <1>14, <2>1, <2>2, PromiseLose
  <2> QED BY <2>5, <2>6 DEF PromiseStep
<1>24. CASE wpc[w] = "route" /\ SendStep(w)
  <2>1. Send(e, "fast") /\ UNCHANGED <<delivered, lost, acks, succeeded, failed>>
    BY <1>1, <1>24 DEF SendStep
  <2>2. ~ Handled(e, "fast") BY <1>18, <1>24 DEF Out
  <2>3. \A f, u : Handled(f, u)' <=> Handled(f, u) BY <2>1 DEF Delivered, Handled
  <2>4. \A f, u : Copy(f, u) \in wire' <=> Copy(f, u) \in wire \/ (f = e /\ u = "fast")
    BY <2>1, SendHas
  <2>5. \A f \in Envelopes : \A u \in Vias :
           /\ Out(f, u)' <=> Out(f, u) \/ (f = e /\ u = "fast")
           /\ Copy(f, u) \in wire' => ~ Handled(f, u)'
    BY <2>2, <2>3, <2>4 DEF Out, CopyInv
  <2>6. CopyInv' BY <1>19, <1>24, <2>3, <2>5
  <2> QED BY <1>2, <2>1, <2>6 DEF PromiseStep
<1> QED BY <1>0, <1>20, <1>21, <1>22, <1>23, <1>24, RouteNet DEF LeaveStep

\* The slow loop sends its only slow copy, or settles.
LEMMA CopySlow ==
  ASSUME HeldInv, CopyInv, SlowStep
  PROVE  CopyInv' /\ PromiseStep
<1>0. TypeInv /\ StageInv /\ OnceInv BY DEF HeldInv
<1>1. UNCHANGED <<hand, chan, sent, wpc, job, delivered, lost, acks>>
  BY
     DEF SlowStep, SlowReceive, SlowEnd, SlowLookup, SlowStatus, connVars, chanVars, workVars, netVars
<1>2. \A f : /\ InHand(f)' <=> InHand(f)
             /\ InChannel(f)' <=> InChannel(f)
             /\ InJob(f)' <=> InJob(f)
             /\ Known(f)' <=> Known(f)
  BY <1>1 DEF InHand, InChannel, InJob, Known
<1>3. \A f : PastRoute(f)' <=> PastRoute(f) BY <1>1, <1>2 DEF PastRoute
<1>4. \A f, u : Handled(f, u)' <=> Handled(f, u)
  BY <1>1 DEF Handled, Delivered
<1>5. CASE SlowReceive
  <2>1. PICK e \in Envelopes : e = Head(slow_queue)
    BY <1>0, <1>5, HeadTailProperties DEF SlowReceive, TypeInv, TypeOK, SlowTypeOK
  <2>2. /\ \A y : Holds(slow_queue', y) <=> Holds(slow_queue, y) /\ y # e
        /\ Holds(slow_queue, e)
    BY <1>0, <1>5, <2>1, TailHolds DEF SlowReceive, OnceInv, TypeInv, TypeOK, SlowTypeOK
  <2>3. UNCHANGED wire /\ spc = "recv" /\ sjob = NoEnv /\ sjob' \in {NoEnv, e}
    BY <1>0, <1>5, <2>1 DEF SlowReceive, netVars, TypeInv, TypeOK, SlowTypeOK
  <2>4. \A f \in Envelopes : PastSlow(f) => PastSlow(f)'
    BY <1>2, <2>2, <2>3 DEF PastSlow
  <2>5. CopyInv' BY <1>1, <1>2, <1>3, <2>3, <2>4, CopyQuiet
  <2>6. CASE UNCHANGED <<succeeded, failed>> BY <1>1, <2>5, <2>6 DEF PromiseStep
  <2>7. CASE failed' = failed \cup {e} /\ UNCHANGED succeeded
    <3>1. At(e, "slow") /\ "slow" \in Stages \ {"succeeded", "failed"} BY <2>2 DEF At, Stages
    <3>2. Promise!Next BY <1>0, <1>1, <2>7, <3>1, PromiseFail
    <3> QED BY <2>5, <3>2 DEF PromiseStep
  <2> QED BY <1>5, <2>1, <2>6, <2>7 DEF SlowReceive, Fail
<1>6. CASE SlowLookup \/ SlowStatus
  <2>1. PICK e \in Envelopes : e = sjob
    BY <1>0, <1>6, HeldIsEnvelope DEF SlowLookup, SlowStatus, TypeInv
  <2>2. UNCHANGED slow_queue BY <1>6 DEF SlowLookup, SlowStatus, SlowGiveUp
  <2>3. At(e, "sjob") /\ "sjob" \in Stages \ {"succeeded", "failed"} BY <2>1 DEF At, Stages
  <2>4. \A f \in Envelopes : f # NoEnv OBVIOUS
  <2>5. ASSUME sjob' = NoEnv, UNCHANGED wire PROVE CopyInv'
    <3>1. \A f \in Envelopes : PastSlow(f) => PastSlow(f)'
      BY <1>2, <2>2, <2>4, <2>5 DEF PastSlow
    <3> QED BY <1>1, <1>2, <1>3, <2>5, <3>1, CopyQuiet
  <2>6. CASE SlowGiveUp /\ UNCHANGED wire
    <3>1. CopyInv' BY <2>5, <2>6 DEF SlowGiveUp, SlowReturn
    <3>2. Promise!Next
      BY <1>0, <1>1, <2>1, <2>3, <2>6, PromiseFail DEF SlowGiveUp, Fail
    <3> QED BY <3>1, <3>2 DEF PromiseStep
  <2>7. CASE Handled(e, "slow") /\ Succeed(e) /\ SlowReturn /\ UNCHANGED wire
    <3>1. CopyInv' BY <2>5, <2>7 DEF SlowReturn
    <3>2. Handled(e, "slow") /\ "slow" \in Vias \ {"tcp"} BY <2>7 DEF Vias
    <3>3. Promise!Next BY <1>0, <1>1, <2>3, <2>7, <3>2, PromiseSucceed
    <3> QED BY <3>1, <3>3 DEF PromiseStep
  <2>8. CASE spc = "route" /\ Send(e, "slow") /\ spc' = "status" /\ UNCHANGED <<sjob, succeeded, failed>>
    <3>1. ~ Out(e, "slow") BY <2>1, <2>8 DEF CopyInv, PastSlow
    <3>2. \A f, u : Copy(f, u) \in wire' <=> Copy(f, u) \in wire \/ (f = e /\ u = "slow")
      BY <2>8, SendHas
    <3>3. \A f, u : Out(f, u)' <=> Out(f, u) \/ (f = e /\ u = "slow") BY <1>4, <3>2 DEF Out
    <3>4. \A f \in Envelopes, u \in Vias : Copy(f, u) \in wire' => ~ Handled(f, u)'
      BY <1>4, <3>1, <3>2 DEF CopyInv, Out
    <3>5. \A f \in Envelopes : PastSlow(f) => PastSlow(f)'
      BY <1>2, <2>2, <2>8 DEF PastSlow
    <3>6. PastSlow(e)' /\ Known(e)
      <4>1. ~ At(e, "hand") /\ ~ At(e, "chan") /\ ~ At(e, "job") /\ ~ At(e, "slow")
        BY <1>0, <2>3 DEF StageInv, Stages
      <4>2. Known(e) BY <1>0, <2>3 DEF StageInv
      <4> QED BY <1>2, <2>2, <2>8, <4>1, <4>2 DEF PastSlow, At
    <3>7. \A v \in Workers : wpc'[v] = "await" => Handled(job[v], "tcp")'
      BY <1>1 DEF CopyInv, Handled, Delivered
    <3>8. "fast" \in Vias /\ "slow" \in Vias /\ "tcp" \in Vias BY DEF Vias
    <3>9. CopyInv'
      BY <1>1, <1>2, <1>3, <3>3, <3>4, <3>5, <3>6, <3>7, <3>8 DEF CopyInv
    <3> QED BY <1>1, <2>8, <3>9 DEF PromiseStep
  <2> QED BY <1>6, <2>1, <2>6, <2>7, <2>8 DEF SlowLookup, SlowStatus, netVars
<1>7. CASE SlowEnd
  <2>1. UNCHANGED <<slow_queue, sjob, wire, succeeded, failed>> /\ spc = "recv"
    BY <1>7 DEF SlowEnd, netVars, viewVars
  <2>2. sjob = NoEnv BY <1>0, <2>1 DEF TypeInv, TypeOK, SlowTypeOK
  <2>3. \A f \in Envelopes : PastSlow(f) => PastSlow(f)' BY <1>2, <2>1, <2>2 DEF PastSlow
  <2>4. CopyInv' BY <1>1, <1>2, <1>3, <2>1, <2>3, CopyQuiet
  <2> QED BY <1>1, <2>1, <2>4 DEF PromiseStep
<1> QED BY <1>5, <1>6, <1>7 DEF SlowStep

\* The other end handles a copy, once.
LEMMA CopyNet ==
  ASSUME HeldInv, CopyInv, NEW cp \in wire, Arrive(cp) \/ Refuse(cp) \/ Ignore(cp)
  PROVE  CopyInv' /\ PromiseStep
<1>0. TypeInv BY DEF HeldInv
<1>1. PICK e \in Envelopes, v \in Vias \ {"tcp"} : cp = Copy(e, v) /\ cp.env = e /\ cp.via = v
  BY <1>0 DEF TypeInv, TypeOK, NetTypeOK, Copy
<1>3. UNCHANGED <<hand, chan, sent, wpc, job, slow_queue, spc, sjob, succeeded, failed>>
  BY DEF Arrive, Refuse, Ignore, connVars, chanVars, workVars, slowVars, viewVars
<1>4. \A f : /\ PastRoute(f)' <=> PastRoute(f)
             /\ PastSlow(f)' <=> PastSlow(f)
             /\ Known(f)' <=> Known(f)
  BY <1>3 DEF PastRoute, PastSlow, InHand, InChannel, InJob, Known
<1>5. wire' = wire \ {Copy(e, v)} /\ Copy(e, v) \in wire BY <1>1 DEF Arrive, Refuse, Ignore
<1>6. \A f, u : Copy(f, u) \in wire' <=> Copy(f, u) \in wire /\ ~ (f = e /\ u = v)
  BY <1>5 DEF Copy
<1>7. "fast" \in Vias /\ "slow" \in Vias /\ "tcp" \in Vias BY DEF Vias
<1>8. CASE Arrive(cp)
  <2>1. Deliver(e, v) /\ UNCHANGED <<lost, acks>> BY <1>1, <1>8 DEF Arrive
  <2>2. \A f \in Envelopes : \A u \in Vias :
           Handled(f, u)' <=> Handled(f, u) \/ (f = e /\ u = v)
    BY <1>0, <2>1, DeliverHandled
  <2>3. \A f \in Envelopes : \A u \in Vias : Out(f, u)' <=> Out(f, u)
    BY <1>5, <1>6, <2>2 DEF Out
  <2>4. \A f \in Envelopes, u \in Vias : Copy(f, u) \in wire' => ~ Handled(f, u)'
    BY <1>6, <2>2 DEF CopyInv
  <2>5. ASSUME NEW w \in Workers, wpc'[w] = "await" PROVE Handled(job[w], "tcp")'
    <3>1. PICK j : j = job[w] OBVIOUS
    <3>2. wpc[w] = "await" /\ job'[w] = j BY <1>3, <2>5, <3>1
    <3>3. j \in Envelopes BY <1>0, <3>1, <3>2, HeldIsEnvelope DEF TypeInv, RouteStates
    <3>4. Handled(j, "tcp")' BY <1>7, <2>2, <3>1, <3>2, <3>3 DEF CopyInv
    <3> QED BY <3>2, <3>4 DEF Handled, Delivered
  <2>6. CopyInv' BY <1>4, <1>7, <2>3, <2>4, <2>5 DEF CopyInv
  <2>7. Known(e) /\ ~ Handled(e, v) BY <1>5 DEF CopyInv, Out
  <2>8. Promise!Next BY <1>3, <2>1, <2>7, PromiseDeliver
  <2> QED BY <2>6, <2>8 DEF PromiseStep
<1>9. CASE Refuse(cp) \/ Ignore(cp)
  <2>1. UNCHANGED <<delivered, acks>> BY <1>9 DEF Refuse, Ignore
  <2>2. lost' = lost \/ lost' = lost \cup {Copy(e, v)} BY <1>1, <1>9 DEF Refuse, Ignore
  <2>3. \A f, u : Copy(f, u) \in lost' => Copy(f, u) \in lost \/ (f = e /\ u = v)
    BY <2>2 DEF Copy
  <2>4. \A f, u : Handled(f, u)' => Handled(f, u) \/ (f = e /\ u = v)
    BY <2>1, <2>3 DEF Handled, Delivered
  <2>5. \A f, u : Out(f, u)' => Out(f, u) BY <1>5, <1>6, <2>4 DEF Out
  <2>6. \A f \in Envelopes, u \in Vias : Copy(f, u) \in wire' => ~ Handled(f, u)'
    BY <1>6, <2>4 DEF CopyInv
  <2>7. \A w \in Workers : wpc'[w] = "await" => Handled(job[w], "tcp")'
    BY <1>3, <2>1, <2>2 DEF CopyInv, Handled, Delivered
  <2>8. CopyInv' BY <1>4, <1>7, <2>5, <2>6, <2>7 DEF CopyInv
  <2>9. CASE Refuse(cp) BY <1>3, <2>1, <2>8, <2>9 DEF PromiseStep, Refuse
  <2>10. CASE Ignore(cp)
    <3>1. /\ Routes[e.pair[1]] \cap {"remoteAgent", "remoteDelegate"} # {}
          /\ lost' = lost \cup {Copy(e, v)}
      BY <1>1, <2>10 DEF Ignore
    <3>2. Known(e) /\ ~ Handled(e, v) BY <1>5 DEF CopyInv, Out
    <3>3. Promise!Next BY <1>3, <2>1, <3>1, <3>2, PromiseLose
    <3> QED BY <2>8, <3>3 DEF PromiseStep
  <2> QED BY <1>9, <2>9, <2>10
<1> QED BY <1>8, <1>9

\* The other steps leave the copies alone.
LEMMA CopyRest ==
  ASSUME HeldInv, CopyInv,
         UNCHANGED <<hand, chan, sent, job, slow_queue, spc, sjob, wire, delivered, lost, acks,
                     succeeded, failed>>,
         \A w \in Workers : wpc'[w] \in {"route", "await"} => wpc'[w] = wpc[w]
  PROVE  CopyInv' /\ PromiseStep
<1>1. \A f : /\ InHand(f)' <=> InHand(f)
             /\ InChannel(f)' <=> InChannel(f)
             /\ InJob(f)' <=> InJob(f)
             /\ Known(f)' <=> Known(f)
  BY DEF InHand, InChannel, InJob, Known
<1>2. \A f \in Envelopes : (PastRoute(f) => PastRoute(f)') /\ (PastSlow(f) => PastSlow(f)')
  BY <1>1 DEF PastRoute, PastSlow
<1>3. CopyInv' BY <1>1, <1>2, CopyQuiet
<1> QED BY <1>3 DEF PromiseStep

\* Every step keeps CopyInv and implements Delivery.
LEMMA CopyNext ==
  ASSUME HeldInv, CopyInv, [Next]_vars
  PROVE  CopyInv' /\ PromiseStep
<1>0. wpc \in [Workers -> WorkerStates] BY DEF HeldInv, TypeInv, TypeOK, WorkTypeOK
<1>1. ASSUME \/ \E c \in Conns : Accept(c) \/ Disconnect(c) \/ CheckPair(c)
             \/ AgentStep \/ CloseStep \/ UNCHANGED vars
      PROVE  CopyInv' /\ PromiseStep
  <2>1. UNCHANGED <<hand, chan, sent, wpc, job, slow_queue, spc, sjob, wire, delivered, lost, acks,
                    succeeded, failed>>
    BY <1>1 DEF Accept, Disconnect, CheckPair, AgentStep, CloseStep, CloseBegin, CloseChannels,
                CloseSlowQueue, vars, connVars, chanVars, workVars, slowVars, netVars, viewVars
  <2> QED BY <2>1, CopyRest
<1>2. ASSUME \/ \E c \in Conns : CreatePair(c)
             \/ \E g \in Goroutines : StartPair(g) \/ RangeEnd(g)
      PROVE  CopyInv' /\ PromiseStep
  <2>1. UNCHANGED <<hand, chan, sent, job, slow_queue, spc, sjob, wire, delivered, lost, acks,
                    succeeded, failed>>
    BY <1>2 DEF CreatePair, StartPair, RangeEnd, connVars, chanVars, workVars, slowVars, netVars,
                viewVars
  <2>2. \E x : \E s \in {"start", "recv", "ended"} : wpc' = [wpc EXCEPT ![x] = s]
    BY <1>2 DEF CreatePair, StartPair, RangeEnd
  <2>3. \A w \in Workers : wpc'[w] \in {"route", "await"} => wpc'[w] = wpc[w]
    BY <1>0, <2>2
  <2> QED BY <2>1, <2>3, CopyRest
<1> QED
  BY <1>1, <1>2, CopyHandler, CopyCall, CopyEnqueue, CopyReceive, CopyRoute, CopySlow, CopyNet
     DEF Next, HandlerStep, GoroutineStep

\* The invariant holds, on no condition.
LEMMA CopyCorrect == Spec => []CopyInv
<1>1. Init => CopyInv
  <2> SUFFICES ASSUME Init PROVE CopyInv OBVIOUS
  <2>1. \A p \in Pairs : Len(delivered[p]) = 0 BY EmptySeq DEF Init
  <2>2. \A e \in Envelopes : \A via : ~ Out(e, via)
    BY <2>1 DEF Init, Out, Handled, Delivered, Envelopes
  <2>3. \A w \in Workers : wpc[w] # "await" BY DEF Init
  <2>4. "fast" \in Vias /\ "slow" \in Vias /\ "tcp" \in Vias BY DEF Vias
  <2> QED BY <2>2, <2>3, <2>4 DEF Init, CopyInv
<1>2. HeldInv /\ CopyInv /\ [Next]_vars => CopyInv' BY CopyNext
<1> QED BY <1>1, <1>2, HeldCorrect, PTL DEF Spec

\* The peer keeps the promise of Delivery: one verdict for an envelope; no success
\* unless the target has it, or has acknowledged an envelope that no other success
\* counts on, or the peer of a remote agent or delegate client answered for it; and no
\* second delivery by the same way.
THEOREM PromiseKept == Spec => KeepsPromise
<1>1. Init => Promise!Init BY DEF Init, Promise!Init
<1>2. HeldInv /\ CopyInv /\ [Next]_vars => [Promise!Next]_(Promise!vars)
  BY CopyNext DEF PromiseStep, Promise!vars
<1> QED BY <1>1, <1>2, HeldCorrect, CopyCorrect, PTL DEF Spec, KeepsPromise, Promise!Spec

-----------------------------------------------------------------------------
(* The slow path, for agents whose envelopes come from one thread.          *)

\* The envelopes of an agent come from one delegate connection at a time or from
\* one caller of RouteEnvelope: the goroutine over agent.Queue(), or a client of the
\* mailbox service that sends one request after the other.
SingleSource ==
    /\ ~ Overlap
    /\ \A k, l \in Callers : CallerAddr[k] = CallerAddr[l] => k = l
    /\ \A k \in Callers, c \in Conns : CallerAddr[k] # AddrOf[c]

\* The number of p that RouteEnvelope was called on last.
Called(p) == \E k \in Callers : CallerAddr[k] = p[2]
Taken(p) == IF Called(p) THEN sent[p] ELSE lastRouted[p]

Routing(w) == wpc[w] \in RouteStates

\* A worker routes envelopes of its own pair or address, and has the last one taken.
SourceInv ==
    /\ \A c \in Conns, p \in Pairs : wpc[<<c, p>>] # "unborn" => p[2] = AddrOf[c]
    /\ \A g \in Goroutines : Routing(g) => job[g].pair = g[2]
    /\ \A k \in Callers : Routing(k) => job[k].pair[2] = CallerAddr[k]
    /\ \A w \in Workers : Routing(w) => job[w].n = Taken(job[w].pair)

\* slow_queue has the envelopes of a pair in ascending order, all later than what
\* left it last and earlier than what is being routed.
SlowInv ==
    /\ \A i, j \in 1..Len(slow_queue) :
          i < j /\ slow_queue[i].pair = slow_queue[j].pair => slow_queue[i].n < slow_queue[j].n
    /\ \A i \in 1..Len(slow_queue) :
          /\ lastSlow[slow_queue[i].pair] < slow_queue[i].n
          /\ slow_queue[i].n <= Taken(slow_queue[i].pair)
    /\ \A w \in Workers : Routing(w) =>
          /\ lastSlow[job[w].pair] < job[w].n
          /\ \A i \in 1..Len(slow_queue) :
                slow_queue[i].pair = job[w].pair => slow_queue[i].n < job[w].n
    /\ \A p \in Pairs : lastSlow[p] <= Taken(p)
    /\ sjob # NoEnv => sjob.n <= Taken(sjob.pair)

\* Two workers do not route envelopes of the same pair.
LEMMA OneRouter ==
  ASSUME SingleSource, LaneInv, SourceInv, NEW v \in Workers, Routing(v), NEW p \in Pairs,
         job[v].pair = p
  PROVE  /\ \A c \in Conns : wpc[<<c, p>>] # "unborn" => v = <<c, p>>
         /\ \A k \in Callers : CallerAddr[k] = p[2] => v = k
<1>1. wpc[v] # "unborn" BY DEF Routing, RouteStates
<1>2. CASE v \in Callers
  <2>1. p[2] = CallerAddr[v] BY <1>2 DEF SourceInv
  <2>2. \A c \in Conns : wpc[<<c, p>>] = "unborn"
    BY <1>2, <2>1 DEF SourceInv, SingleSource
  <2> QED BY <1>2, <2>1, <2>2 DEF SingleSource
<1>3. CASE v \in Goroutines
  <2>1. PICK d \in Conns, q \in Pairs : v = <<d, q>> BY <1>3 DEF Goroutines, Channels
  <2>2. q = p BY <1>3, <2>1 DEF SourceInv
  <2>3. p[2] = AddrOf[d] /\ syncMessages[p] = d
    BY <1>1, <2>1, <2>2 DEF SourceInv, LaneInv, PairInv
  <2>4. \A c \in Conns : wpc[<<c, p>>] # "unborn" => c = d
    BY <2>3 DEF LaneInv, PairInv
  <2>5. \A k \in Callers : CallerAddr[k] # p[2] BY <2>3 DEF SingleSource
  <2> QED BY <2>1, <2>2, <2>4, <2>5
<1> QED BY <1>2, <1>3 DEF Workers

\* What was taken.
LEMMA TakenNat ==
  ASSUME TypeInv
  PROVE  \A p \in Pairs : Taken(p) \in Nat /\ lastSlow[p] \in Nat
BY DEF Taken, TypeInv, TypeOK, ConnTypeOK, ChanTypeOK, SlowTypeOK

\* A step that takes up no envelope, queues none and receives none.
LEMMA SeqQuiet ==
  ASSUME SourceInv, SlowInv, UNCHANGED <<slow_queue, lastSlow>>, sjob' \in {sjob, NoEnv},
         slow_queue \in Seq(Envelopes), job \in [Workers -> Envelopes \cup {NoEnv}],
         sjob \in Envelopes \cup {NoEnv},
         \A w \in Workers : Routing(w) => job[w] \in Envelopes,
         \A p \in Pairs : Taken(p)' = Taken(p),
         \A w \in Workers : Routing(w)' => Routing(w) /\ job'[w] = job[w],
         \A c \in Conns, p \in Pairs :
            wpc'[<<c, p>>] # "unborn" => wpc[<<c, p>>] # "unborn" \/ p[2] = AddrOf[c]
  PROVE  SourceInv' /\ SlowInv'
<1>1. \A e \in Envelopes : e.pair \in Pairs BY DEF Envelopes
<1>2. \A i \in 1..Len(slow_queue) : slow_queue[i] \in Envelopes BY ElementOfSeq
<1>3. Goroutines \subseteq Workers /\ Callers \subseteq Workers BY DEF Workers
<1>4. SourceInv'
  <2>1. \A c \in Conns, p \in Pairs : wpc'[<<c, p>>] # "unborn" => p[2] = AddrOf[c]
    BY DEF SourceInv
  <2>2. \A g \in Goroutines : Routing(g)' => job'[g].pair = g[2] BY <1>3 DEF SourceInv
  <2>3. \A k \in Callers : Routing(k)' => job'[k].pair[2] = CallerAddr[k] BY <1>3 DEF SourceInv
  <2>4. ASSUME NEW w \in Workers, Routing(w)' PROVE job'[w].n = Taken(job[w].pair)'
    <3>1. PICK q : q = job[w].pair OBVIOUS
    <3>2. job'[w].pair = q /\ job'[w].n = job[w].n BY <2>4, <3>1
    <3>3. q \in Pairs /\ job[w].n = Taken(q) BY <1>1, <2>4, <3>1 DEF SourceInv
    <3> QED BY <3>2, <3>3 DEF Taken
  <2> QED BY <2>1, <2>2, <2>3, <2>4 DEF SourceInv
<1>5. SlowInv'
  <2>1. ASSUME NEW i \in 1..Len(slow_queue)
        PROVE  slow_queue'[i].n <= Taken(slow_queue[i].pair)'
    <3>1. PICK q : q = slow_queue[i].pair OBVIOUS
    <3>2. q \in Pairs /\ slow_queue[i].n <= Taken(q) BY <1>1, <1>2, <3>1 DEF SlowInv
    <3> QED BY <3>1, <3>2 DEF Taken
  <2>2. sjob' # NoEnv => sjob'.n <= Taken(sjob.pair)'
    <3> SUFFICES ASSUME sjob' # NoEnv PROVE sjob'.n <= Taken(sjob.pair)' OBVIOUS
    <3>1. PICK q : q = sjob.pair OBVIOUS
    <3>2. sjob' = sjob /\ q \in Pairs /\ sjob.n <= Taken(q) BY <1>1, <3>1 DEF SlowInv
    <3> QED BY <3>1, <3>2 DEF Taken
  <2>3. \A p \in Pairs : lastSlow'[p] <= Taken(p)' BY DEF SlowInv
  <2>4. \A w \in Workers : Routing(w)' =>
          /\ lastSlow'[job'[w].pair] < job'[w].n
          /\ \A i \in 1..Len(slow_queue') :
                slow_queue'[i].pair = job'[w].pair => slow_queue'[i].n < job'[w].n
    BY DEF SlowInv
  <2> QED BY <2>1, <2>2, <2>3, <2>4 DEF SlowInv
<1> QED BY <1>4, <1>5

\* A worker takes up the envelope e, later than what was taken of its pair before.
LEMMA SeqTakes ==
  ASSUME LaneInv, SourceInv, SlowInv, NEW w \in Workers, NEW e \in Envelopes,
         job' = [job EXCEPT ![w] = e], wpc' = [wpc EXCEPT ![w] = "route"],
         UNCHANGED <<slow_queue, lastSlow, sjob>>,
         Taken(e.pair) < e.n, Taken(e.pair)' = e.n,
         \A p \in Pairs : p # e.pair => Taken(p)' = Taken(p),
         \A v \in Workers : v # w /\ Routing(v) => job[v].pair # e.pair,
         w \in Goroutines => wpc[w] # "unborn" /\ e.pair = w[2],
         w \in Callers => e.pair[2] = CallerAddr[w]
  PROVE  SourceInv' /\ SlowInv'
<1>0. \A f \in Envelopes : f.pair \in Pairs /\ f.n \in Nat BY DEF Envelopes
<1>1. \A p \in Pairs : Taken(p) \in Nat /\ lastSlow[p] \in Nat BY TakenNat DEF LaneInv
<1>2. \A p \in Pairs : Taken(p)' \in Nat /\ Taken(p) <= Taken(p)' BY <1>0, <1>1
<1>3. \A i \in 1..Len(slow_queue) : slow_queue[i] \in Envelopes
  BY ElementOfSeq DEF LaneInv, TypeInv, TypeOK, SlowTypeOK
<1>4. /\ job'[w] = e /\ wpc'[w] = "route"
      /\ \A v \in Workers : v # w => job'[v] = job[v] /\ wpc'[v] = wpc[v]
      /\ \A x : x # w => wpc'[x] = wpc[x] \/ x \notin Workers
  BY DEF LaneInv, TypeInv, TypeOK, WorkTypeOK
<1>5. \A v \in Workers : v # w /\ Routing(v)' =>
         Routing(v) /\ job'[v] = job[v] /\ job[v] \in Envelopes /\ job[v].pair # e.pair
  BY <1>4, HeldIsEnvelope DEF Routing, LaneInv, TypeInv
<1>6. Goroutines \subseteq Workers /\ Callers \subseteq Workers BY DEF Workers
<1>7. SourceInv'
  <2>1. ASSUME NEW c \in Conns, NEW p \in Pairs, wpc'[<<c, p>>] # "unborn" PROVE p[2] = AddrOf[c]
    <3>1. <<c, p>> \in Goroutines BY DEF Goroutines, Channels
    <3>2. wpc[<<c, p>>] # "unborn" BY <1>4, <1>6, <2>1, <3>1
    <3> QED BY <3>2 DEF SourceInv
  <2>2. \A g \in Goroutines : Routing(g)' => job'[g].pair = g[2] BY <1>4, <1>5, <1>6 DEF SourceInv
  <2>3. \A k \in Callers : Routing(k)' => job'[k].pair[2] = CallerAddr[k]
    BY <1>4, <1>5, <1>6 DEF SourceInv
  <2>4. ASSUME NEW v \in Workers, Routing(v)' PROVE job'[v].n = Taken(job[v].pair)'
    <3>1. CASE v = w BY <1>4, <3>1 DEF Taken
    <3>2. CASE v # w
      <4>1. PICK q \in Pairs : q = job[v].pair BY <1>0, <1>5, <2>4, <3>2
      <4>2. job'[v].pair = q /\ job'[v].n = Taken(q) /\ q # e.pair
        BY <1>5, <2>4, <3>2, <4>1 DEF SourceInv
      <4>3. job'[v].n = Taken(q)' BY <4>2
      <4> QED BY <4>2, <4>3 DEF Taken
    <3> QED BY <3>1, <3>2
  <2> QED BY <2>1, <2>2, <2>3, <2>4 DEF SourceInv
<1>8. SlowInv'
  <2>1. ASSUME NEW i \in 1..Len(slow_queue)
        PROVE  slow_queue'[i].n <= Taken(slow_queue[i].pair)'
    <3>1. PICK q : q = slow_queue[i].pair OBVIOUS
    <3>2. q \in Pairs /\ slow_queue[i].n <= Taken(q) /\ slow_queue[i].n \in Nat
      BY <1>0, <1>3, <3>1 DEF SlowInv
    <3>3. slow_queue[i].n <= Taken(q)' BY <1>1, <1>2, <3>2
    <3> QED BY <3>1, <3>3 DEF Taken
  <2>2. sjob' # NoEnv => sjob'.n <= Taken(sjob.pair)'
    <3> SUFFICES ASSUME sjob' # NoEnv PROVE sjob'.n <= Taken(sjob.pair)' OBVIOUS
    <3>1. PICK q : q = sjob.pair OBVIOUS
    <3>2. sjob \in Envelopes BY DEF LaneInv, TypeInv, TypeOK, SlowTypeOK
    <3>3. q \in Pairs /\ sjob.n <= Taken(q) /\ sjob.n \in Nat BY <1>0, <3>1, <3>2 DEF SlowInv
    <3>4. sjob.n <= Taken(q)' BY <1>1, <1>2, <3>3
    <3> QED BY <3>1, <3>4 DEF Taken
  <2>3. \A p \in Pairs : lastSlow'[p] <= Taken(p)' BY <1>1, <1>2 DEF SlowInv
  <2>4. ASSUME NEW v \in Workers, Routing(v)'
        PROVE  /\ lastSlow'[job'[v].pair] < job'[v].n
               /\ \A i \in 1..Len(slow_queue') :
                     slow_queue'[i].pair = job'[v].pair => slow_queue'[i].n < job'[v].n
    <3>1. CASE v = w
      <4>1. lastSlow[e.pair] < e.n BY <1>0, <1>1 DEF SlowInv
      <4>2. \A i \in 1..Len(slow_queue) : slow_queue[i].pair = e.pair => slow_queue[i].n < e.n
        BY <1>0, <1>1, <1>3 DEF SlowInv
      <4> QED BY <1>4, <3>1, <4>1, <4>2
    <3>2. CASE v # w BY <1>5, <2>4, <3>2 DEF SlowInv
    <3> QED BY <3>1, <3>2
  <2> QED BY <2>1, <2>2, <2>3, <2>4 DEF SlowInv
<1> QED BY <1>7, <1>8

\* A handler that reads an envelope takes up none.
LEMMA SeqRead ==
  ASSUME SingleSource, LaneInv, SourceInv, SlowInv, NEW c \in Conns, NEW p \in Pairs,
         ReadEnvelope(c, p)
  PROVE  SourceInv' /\ SlowInv'
<1>1. ~ Called(p) BY DEF ReadEnvelope, Called, SingleSource
<1>2. \A q \in Pairs : Taken(q)' = Taken(q)
  BY <1>1 DEF ReadEnvelope, Taken, chanVars, LaneInv, TypeInv, TypeOK, ConnTypeOK
<1>3. UNCHANGED <<slow_queue, lastSlow, sjob, wpc, job>> BY DEF ReadEnvelope, slowVars, workVars
<1>4. /\ slow_queue \in Seq(Envelopes) /\ job \in [Workers -> Envelopes \cup {NoEnv}]
      /\ sjob \in Envelopes \cup {NoEnv}
      /\ \A w \in Workers : Routing(w) => job[w] \in Envelopes
  BY HeldIsEnvelope DEF LaneInv, TypeInv, TypeOK, SlowTypeOK, WorkTypeOK, Routing
<1>5. \A w \in Workers : Routing(w)' => Routing(w) /\ job'[w] = job[w] BY <1>3 DEF Routing
<1> QED BY <1>2, <1>3, <1>4, <1>5, SeqQuiet

\* A goroutine is made for a pair of the address of its connection.
LEMMA SeqCreate ==
  ASSUME LaneInv, SourceInv, SlowInv, NEW c \in Conns, CreatePair(c)
  PROVE  SourceInv' /\ SlowInv'
<1>1. PICK p : p = hand[c].pair OBVIOUS
<1>2. p \in Pairs /\ p[2] = AddrOf[c]
  BY <1>1, HeldIsEnvelope DEF CreatePair, LaneInv, TypeInv, ExclusiveInv, Envelopes
<1>3. /\ UNCHANGED <<slow_queue, lastSlow, sjob, job, sent, lastRouted>>
      /\ wpc' = [wpc EXCEPT ![<<c, p>>] = "start"]
  BY <1>1 DEF CreatePair, slowVars
<1>4. /\ slow_queue \in Seq(Envelopes) /\ job \in [Workers -> Envelopes \cup {NoEnv}]
      /\ sjob \in Envelopes \cup {NoEnv} /\ wpc \in [Workers -> WorkerStates]
      /\ \A w \in Workers : Routing(w) => job[w] \in Envelopes
  BY HeldIsEnvelope DEF LaneInv, TypeInv, TypeOK, SlowTypeOK, WorkTypeOK, Routing
<1>5. \A w \in Workers : Routing(w)' => Routing(w) /\ job'[w] = job[w]
  BY <1>3, <1>4 DEF Routing, RouteStates
<1>6. \A q \in Pairs : Taken(q)' = Taken(q) BY <1>3 DEF Taken
<1>7. \A d \in Conns, q \in Pairs :
         wpc'[<<d, q>>] # "unborn" => wpc[<<d, q>>] # "unborn" \/ q[2] = AddrOf[d]
  <2>1. \A d \in Conns, q \in Pairs : <<d, q>> \in Workers BY DEF Workers, Goroutines, Channels
  <2> QED BY <1>2, <1>3, <1>4, <2>1
<1> QED BY <1>3, <1>4, <1>5, <1>6, <1>7, SeqQuiet

\* The goroutine of a pair takes up the next envelope.
LEMMA SeqReceive ==
  ASSUME SingleSource, LaneInv, SourceInv, SlowInv, NEW g \in Goroutines, ReceivePair(g)
  PROVE  SourceInv' /\ SlowInv'
<1>0. g \in Workers /\ g \notin Callers /\ g[2] \in Pairs /\ g[1] \in Conns /\ g = <<g[1], g[2]>>
  BY DEF Workers, Goroutines, Channels
<1>1. PICK ch : ch = <<ranging[g], g[2]>> OBVIOUS
<1>2. PICK h : h = chan[ch][1] OBVIOUS
<1>3. h \in Nat /\ lastRouted[g[2]] < h /\ lastRouted' = [lastRouted EXCEPT ![g[2]] = h]
  BY <1>1, <1>2, ReceiveOrder DEF LaneInv
<1>4. PICK e : e = Env(g[2], h) OBVIOUS
<1>5. e \in Envelopes /\ e.pair = g[2] /\ e.n = h BY <1>0, <1>3, <1>4 DEF Env, Envelopes
<1>6. wpc[g] = "recv" /\ wpc' = [wpc EXCEPT ![g] = "route"]
      /\ UNCHANGED <<slow_queue, lastSlow, sjob, sent>>
  BY DEF ReceivePair, slowVars, connVars
<1>7. job' = [job EXCEPT ![g] = e]
  <2>1. ch \in Channels
    BY <1>0, <1>1, <1>6 DEF MapInv, ChanTypeOK, Channels, LaneInv, TypeInv, TypeOK
  <2>2. Head(chan[ch]) = h
    BY <1>1, <1>2, <2>1, HeadTailProperties DEF ReceivePair, LaneInv, TypeInv, TypeOK, ChanTypeOK
  <2> QED BY <1>1, <1>4, <2>2 DEF ReceivePair
<1>8. ~ Called(e.pair)
  <2>1. wpc[<<g[1], g[2]>>] # "unborn" BY <1>0, <1>6
  <2>2. g[2][2] = AddrOf[g[1]] BY <1>0, <2>1 DEF SourceInv
  <2> QED BY <1>0, <1>5, <2>2 DEF Called, SingleSource
<1>9. Taken(e.pair) < e.n /\ Taken(e.pair)' = e.n
  BY <1>0, <1>3, <1>5, <1>8 DEF Taken, LaneInv, TypeInv, TypeOK, ChanTypeOK
<1>10. \A p \in Pairs : p # e.pair => Taken(p)' = Taken(p)
  BY <1>3, <1>5, <1>6 DEF Taken, LaneInv, TypeInv, TypeOK, ChanTypeOK
<1>11. \A v \in Workers : v # g /\ Routing(v) => job[v].pair # e.pair
  <2> SUFFICES ASSUME NEW v \in Workers, v # g, Routing(v), job[v].pair = e.pair PROVE FALSE
    OBVIOUS
  <2>1. wpc[<<g[1], e.pair>>] # "unborn" BY <1>0, <1>5, <1>6
  <2> QED BY <1>0, <1>5, <2>1, OneRouter
<1> QED BY <1>0, <1>5, <1>6, <1>7, <1>9, <1>10, <1>11, SeqTakes, ZenonT(40)

\* A caller takes up the envelope it was called with.
LEMMA SeqCall ==
  ASSUME SingleSource, LaneInv, SourceInv, SlowInv, NEW k \in Callers, NEW p \in Pairs,
         CallRoute(k, p)
  PROVE  SourceInv' /\ SlowInv'
<1>0. k \in Workers /\ k \notin Goroutines BY DEF Workers
<1>1. PICK e : e = Env(p, sent[p] + 1) OBVIOUS
<1>2. e \in Envelopes /\ e.pair = p /\ e.n = sent[p] + 1 /\ sent[p] \in Nat
  BY <1>1 DEF Env, Envelopes, LaneInv, TypeInv, TypeOK, ConnTypeOK
<1>3. /\ job' = [job EXCEPT ![k] = e] /\ wpc' = [wpc EXCEPT ![k] = "route"]
      /\ p[2] = CallerAddr[k]
      /\ sent' = [sent EXCEPT ![p] = @ + 1]
      /\ UNCHANGED <<slow_queue, lastSlow, sjob, lastRouted>>
  BY <1>1 DEF CallRoute, slowVars, chanVars
<1>4. Called(p) BY <1>3 DEF Called
<1>5. Taken(e.pair) < e.n /\ Taken(e.pair)' = e.n
  BY <1>2, <1>3, <1>4 DEF Taken, LaneInv, TypeInv, TypeOK, ConnTypeOK
<1>6. \A q \in Pairs : q # e.pair => Taken(q)' = Taken(q)
  BY <1>2, <1>3 DEF Taken, LaneInv, TypeInv, TypeOK, ConnTypeOK
<1>7. \A v \in Workers : v # k /\ Routing(v) => job[v].pair # e.pair
  BY <1>2, <1>3, OneRouter
<1> QED BY <1>0, <1>2, <1>3, <1>5, <1>6, <1>7, SeqTakes, ZenonT(40)

\* A step that leaves the order of a pair alone.
LEMMA SeqRest ==
  ASSUME LaneInv, SourceInv, SlowInv,
         UNCHANGED <<sent, lastRouted, slow_queue, lastSlow>>, sjob' \in {sjob, NoEnv},
         \A w \in Workers : Routing(w)' => Routing(w) /\ job'[w] = job[w],
         \A w \in Workers : wpc'[w] # "unborn" => wpc[w] # "unborn"
  PROVE  SourceInv' /\ SlowInv'
<1>1. /\ slow_queue \in Seq(Envelopes) /\ job \in [Workers -> Envelopes \cup {NoEnv}]
      /\ sjob \in Envelopes \cup {NoEnv}
      /\ \A w \in Workers : Routing(w) => job[w] \in Envelopes
  BY HeldIsEnvelope DEF LaneInv, TypeInv, TypeOK, SlowTypeOK, WorkTypeOK, Routing
<1>2. \A p \in Pairs : Taken(p)' = Taken(p) BY DEF Taken
<1>3. \A c \in Conns, p \in Pairs : <<c, p>> \in Workers BY DEF Workers, Goroutines, Channels
<1> QED BY <1>1, <1>2, <1>3, SeqQuiet

\* What RouteEnvelope puts on slow_queue is later than all that was put there.
LEMMA SeqRoute ==
  ASSUME SingleSource, LaneInv, SourceInv, SlowInv, NEW w \in Workers, RouteStep(w)
  PROVE  SourceInv' /\ SlowInv'
<1>0. TypeInv BY DEF LaneInv
<1>1. PICK e \in Envelopes : e = job[w] BY <1>0, RouteEffect
<1>2. PICK s : wpc' = [wpc EXCEPT ![w] = s] /\ s # "unborn" BY <1>0, RouteFrame
<1>3. Routing(w)
  <2>1. job[w] # NoEnv BY <1>1
  <2> QED BY <1>0, <2>1 DEF Routing, TypeInv, TypeOK, WorkTypeOK
<1>4. UNCHANGED <<sent, lastRouted, lastSlow, sjob>>
  <2>1. UNCHANGED lastSlow
    BY DEF RouteStep, RejectSender, RouteMailbox, RouteMyAgent, RouteDelegate, AwaitAck,
           RouteRelay, RouteLookup, ReadStatus, MoveToSlow, PushSlow, slowVars
  <2> QED BY <1>0, <2>1, RouteEffect, RouteFrame DEF chanVars
<1>5. /\ job'[w] \in {e, NoEnv}
      /\ \A v \in Workers : v # w => job'[v] = job[v] /\ wpc'[v] = wpc[v]
  <2>1. \A v \in Workers : v # w => wpc'[v] = wpc[v] BY <1>0, <1>2 DEF TypeInv, TypeOK, WorkTypeOK
  <2>2. job'[w] \in {e, NoEnv} /\ \A v \in Workers : v # w => job'[v] = job[v]
    BY <1>0, <1>1, RouteEffect DEF TypeInv, TypeOK, WorkTypeOK
  <2> QED BY <2>1, <2>2
<1>6. TypeInv' BY <1>0, TypeRoute
<1>7. job'[w] = NoEnv => ~ Routing(w)' BY <1>6 DEF Routing, TypeInv, TypeOK, WorkTypeOK
<1>8. \A v \in Workers : Routing(v)' => Routing(v) /\ job'[v] = job[v]
  BY <1>1, <1>3, <1>5, <1>7 DEF Routing
<1>9. \A v \in Workers : wpc'[v] # "unborn" => wpc[v] # "unborn"
  BY <1>3, <1>5 DEF Routing, RouteStates
<1>10. CASE UNCHANGED slow_queue BY <1>4, <1>8, <1>9, <1>10, SeqRest
<1>11. CASE job' = [job EXCEPT ![w] = NoEnv] /\ slow_queue' = Append(slow_queue, e)
  <2>0. PICK q : q = slow_queue OBVIOUS
  <2>1. q \in Seq(Envelopes) /\ q = slow_queue
    BY <1>0, <2>0 DEF TypeInv, TypeOK, SlowTypeOK
  <2>2. PICK r : r = slow_queue' OBVIOUS
  <2>3. /\ Len(q) \in Nat /\ Len(r) = Len(q) + 1
        /\ \A i \in 1..Len(q) : r[i] = q[i]
        /\ r[Len(q) + 1] = e
    BY <1>11, <2>1, <2>2, AppendProperties, LenProperties
  <2>4. \A i \in 1..Len(r) : i \in 1..Len(q) \/ i = Len(q) + 1 BY <2>3
  <2>5. ~ Routing(w)'
    <3>1. job'[w] = NoEnv BY <1>0, <1>11 DEF TypeInv, TypeOK, WorkTypeOK
    <3> QED BY <1>7, <3>1
  <2>6. \A v \in Workers : Routing(v)' => v # w /\ Routing(v) /\ job'[v] = job[v] BY <1>8, <2>5
  <2>7. e.pair \in Pairs /\ e.n \in Nat /\ e.n = Taken(e.pair)
        /\ lastSlow[e.pair] < e.n
        /\ \A i \in 1..Len(q) : q[i].pair = e.pair => q[i].n < e.n
    BY <1>1, <1>3, <2>1 DEF Envelopes, SourceInv, SlowInv
  <2>8. \A v \in Workers : Routing(v)' => job[v].pair # e.pair
    <3> SUFFICES ASSUME NEW v \in Workers, Routing(v)', job[v].pair = e.pair PROVE FALSE OBVIOUS
    <3>1. v # w /\ Routing(v) BY <2>6
    <3>2. CASE w \in Callers
      <4>1. CallerAddr[w] = e.pair[2] BY <1>1, <1>3, <3>2 DEF SourceInv
      <4> QED BY <2>7, <3>1, <3>2, <4>1, OneRouter
    <3>3. CASE w \in Goroutines
      <4>1. PICK c \in Conns, p \in Pairs : w = <<c, p>> BY <3>3 DEF Goroutines, Channels
      <4>2. p = e.pair BY <1>1, <1>3, <3>3, <4>1 DEF SourceInv
      <4>3. wpc[<<c, e.pair>>] # "unborn" BY <1>3, <4>1, <4>2 DEF Routing, RouteStates
      <4> QED BY <2>7, <3>1, <4>1, <4>2, <4>3, OneRouter
    <3> QED BY <3>2, <3>3 DEF Workers
  <2>9. \A p \in Pairs : Taken(p)' = Taken(p) BY <1>4 DEF Taken
  <2>10. \A i \in 1..Len(q) : q[i] \in Envelopes BY <2>1, ElementOfSeq
  <2>11. SourceInv'
    <3>1. \A c \in Conns, p \in Pairs : <<c, p>> \in Workers BY DEF Workers, Goroutines, Channels
    <3>2. \A c \in Conns, p \in Pairs : wpc'[<<c, p>>] # "unborn" => p[2] = AddrOf[c]
      BY <1>9, <3>1 DEF SourceInv
    <3>3. ASSUME NEW v \in Workers, Routing(v)' PROVE job'[v].n = Taken(job[v].pair)'
      <4>1. PICK o : o = job[v].pair OBVIOUS
      <4>2. job'[v].pair = o /\ job'[v].n = job[v].n /\ Routing(v) BY <2>6, <3>3, <4>1
      <4>3. job[v] \in Envelopes BY <1>0, <4>2, HeldIsEnvelope DEF TypeInv, Routing
      <4>4. o \in Pairs /\ job[v].n = Taken(o) BY <4>1, <4>2, <4>3 DEF SourceInv, Envelopes
      <4>5. job'[v].n = Taken(o)' BY <2>9, <4>2, <4>4
      <4> QED BY <4>2, <4>5 DEF Taken
    <3>4. Goroutines \subseteq Workers /\ Callers \subseteq Workers BY DEF Workers
    <3>5. \A g \in Goroutines : Routing(g)' => job'[g].pair = g[2] BY <2>6, <3>4 DEF SourceInv
    <3>6. \A k \in Callers : Routing(k)' => job'[k].pair[2] = CallerAddr[k]
      BY <2>6, <3>4 DEF SourceInv
    <3> QED BY <3>2, <3>3, <3>5, <3>6 DEF SourceInv
  <2>12. ASSUME NEW i \in 1..Len(r), NEW j \in 1..Len(r), i < j, r[i].pair = r[j].pair
         PROVE  r[i].n < r[j].n
    <3>1. i \in 1..Len(q) BY <2>3, <2>12
    <3>2. CASE j \in 1..Len(q)
      <4>1. q[i].pair = q[j].pair BY <2>3, <2>12, <3>1, <3>2
      <4>2. q[i].n < q[j].n BY <2>1, <2>12, <3>1, <3>2, <4>1 DEF SlowInv
      <4> QED BY <2>3, <3>1, <3>2, <4>2
    <3>3. CASE j = Len(q) + 1
      BY <2>3, <2>7, <2>12, <3>1, <3>3
    <3> QED BY <2>4, <2>12, <3>2, <3>3
  <2>13. ASSUME NEW i \in 1..Len(r)
         PROVE  lastSlow[r[i].pair] < r[i].n /\ r[i].n <= Taken(r[i].pair) /\ r[i].pair \in Pairs
    <3>1. CASE i \in 1..Len(q)
      <4>1. lastSlow[q[i].pair] < q[i].n /\ q[i].n <= Taken(q[i].pair) BY <2>1, <3>1 DEF SlowInv
      <4>2. q[i].pair \in Pairs BY <2>10, <3>1 DEF Envelopes
      <4> QED BY <2>3, <3>1, <4>1, <4>2
    <3>2. CASE i = Len(q) + 1 BY <2>3, <2>7, <3>2
    <3> QED BY <2>4, <3>1, <3>2
  <2>14. ASSUME NEW v \in Workers, Routing(v)'
         PROVE  /\ lastSlow[job[v].pair] < job[v].n
                /\ \A i \in 1..Len(r) : r[i].pair = job[v].pair => r[i].n < job[v].n
    <3>1. Routing(v) /\ job[v].pair # e.pair BY <2>6, <2>8, <2>14
    <3>2. /\ lastSlow[job[v].pair] < job[v].n
          /\ \A i \in 1..Len(q) : q[i].pair = job[v].pair => q[i].n < job[v].n
      BY <2>1, <3>1 DEF SlowInv
    <3> QED BY <2>3, <2>4, <3>1, <3>2
  <2>15. SlowInv'
    <3>1. \A i \in 1..Len(r) : r[i].n <= Taken(slow_queue[i].pair)'
      <4> SUFFICES ASSUME NEW i \in 1..Len(r) PROVE r[i].n <= Taken(slow_queue[i].pair)' OBVIOUS
      <4>1. PICK o \in Pairs : o = r[i].pair BY <2>13
      <4>2. r[i].n <= Taken(o)' BY <2>9, <2>13, <4>1
      <4> QED BY <2>2, <4>1, <4>2 DEF Taken
    <3>2. sjob' # NoEnv => sjob'.n <= Taken(sjob.pair)'
      BY <1>4 DEF SlowInv, Taken
    <3>3. \A p \in Pairs : lastSlow'[p] <= Taken(p)' BY <1>4, <2>9 DEF SlowInv
    <3> QED BY <1>4, <2>2, <2>6, <2>12, <2>13, <2>14, <3>1, <3>2, <3>3 DEF SlowInv
  <2> QED BY <2>11, <2>15
<1> QED BY <1>0, <1>1, <1>10, <1>11, RouteEffect

\* The slow loop takes the earliest envelope of the pair from slow_queue.
LEMMA SeqSlowReceive ==
  ASSUME LaneInv, SourceInv, SlowInv, SlowReceive
  PROVE  /\ SourceInv' /\ SlowInv'
         /\ \A p \in Pairs : lastSlow[p] <= lastSlow'[p]
<1>0. TypeInv BY DEF LaneInv
<1>1. PICK q : q = slow_queue OBVIOUS
<1>2. PICK r : r = slow_queue' OBVIOUS
<1>3. q \in Seq(Envelopes) /\ q # <<>> /\ r = Tail(q)
  BY <1>0, <1>1, <1>2 DEF SlowReceive, TypeInv, TypeOK, SlowTypeOK
<1>4. /\ Len(q) \in Nat \ {0} /\ Len(r) = Len(q) - 1
      /\ \A i \in 1..Len(r) : r[i] = q[i + 1]
      /\ Head(q) = q[1]
  BY <1>3, HeadTailProperties, EmptySeq
<1>5. PICK e : e = q[1] OBVIOUS
<1>6. \A i \in 1..Len(r) : i + 1 \in 1..Len(q) /\ 1 < i + 1 BY <1>4
<1>7. 1 \in 1..Len(q) BY <1>4
<1>8. \A i \in 1..Len(q) : q[i] \in Envelopes /\ q[i].pair \in Pairs /\ q[i].n \in Nat
  <2>1. \A i \in 1..Len(q) : q[i] \in Envelopes BY <1>3, ElementOfSeq
  <2> QED BY <2>1 DEF Envelopes
<1>9. e \in Envelopes /\ e.pair \in Pairs /\ e.n \in Nat /\ lastSlow[e.pair] < e.n
      /\ e.n <= Taken(e.pair)
  BY <1>1, <1>5, <1>7, <1>8 DEF SlowInv
<1>10. UNCHANGED <<sent, lastRouted, wpc, job>> BY DEF SlowReceive, connVars, chanVars, workVars
<1>11. \A p \in Pairs : Taken(p)' = Taken(p) BY <1>10 DEF Taken
<1>12. \A p \in Pairs : lastSlow[p] \in Nat /\ Taken(p) \in Nat BY <1>0, TakenNat
<1>13. /\ \A p \in Pairs : lastSlow'[p] = lastSlow[p] \/ (p = e.pair /\ lastSlow'[p] = e.n)
       /\ sjob = NoEnv /\ sjob' \in {NoEnv, e}
  BY <1>0, <1>1, <1>4, <1>5, <1>9 DEF SlowReceive, TypeInv, TypeOK, SlowTypeOK
<1>14. SourceInv'
  <2>1. ASSUME NEW v \in Workers, Routing(v)' PROVE job'[v].n = Taken(job[v].pair)'
    <3>1. Routing(v) BY <1>10, <2>1 DEF Routing
    <3> QED BY <1>10, <3>1 DEF SourceInv, Taken
  <2> QED BY <1>10, <2>1 DEF SourceInv, Routing
<1>15. ASSUME NEW i \in 1..Len(r), NEW j \in 1..Len(r), i < j, r[i].pair = r[j].pair
       PROVE  r[i].n < r[j].n
  <2>1. i + 1 < j + 1 /\ q[i + 1].pair = q[j + 1].pair BY <1>4, <1>15
  <2>2. q[i + 1].n < q[j + 1].n BY <1>1, <1>6, <2>1 DEF SlowInv
  <2> QED BY <1>4, <2>2
<1>16. ASSUME NEW i \in 1..Len(r)
       PROVE  lastSlow'[r[i].pair] < r[i].n /\ r[i].n <= Taken(r[i].pair) /\ r[i].pair \in Pairs
  <2>1. r[i] = q[i + 1] /\ i + 1 \in 1..Len(q) /\ 1 < i + 1 BY <1>4, <1>6
  <2>2. lastSlow[r[i].pair] < r[i].n /\ r[i].n <= Taken(r[i].pair) /\ r[i].pair \in Pairs
    BY <1>1, <1>8, <2>1 DEF SlowInv
  <2>3. r[i].pair = e.pair => e.n < r[i].n BY <1>1, <1>5, <1>7, <2>1 DEF SlowInv
  <2> QED BY <1>13, <2>2, <2>3
<1>17. ASSUME NEW v \in Workers, Routing(v)'
       PROVE  /\ lastSlow'[job[v].pair] < job[v].n
              /\ \A i \in 1..Len(r) : r[i].pair = job[v].pair => r[i].n < job[v].n
  <2>1. Routing(v) BY <1>10, <1>17 DEF Routing
  <2>2. job[v] \in Envelopes BY <1>0, <2>1, HeldIsEnvelope DEF TypeInv, Routing
  <2>3. job[v].pair \in Pairs BY <2>2 DEF Envelopes
  <2>4. /\ lastSlow[job[v].pair] < job[v].n
        /\ \A i \in 1..Len(q) : q[i].pair = job[v].pair => q[i].n < job[v].n
    BY <1>1, <2>1 DEF SlowInv
  <2>5. \A i \in 1..Len(r) : r[i].pair = job[v].pair => r[i].n < job[v].n
    BY <1>4, <1>6, <2>4
  <2>6. e.pair = job[v].pair => e.n < job[v].n BY <1>5, <1>7, <2>4
  <2> QED BY <1>13, <2>3, <2>4, <2>5, <2>6
<1>18. SlowInv'
  <2>1. \A i \in 1..Len(r) : r[i].n <= Taken(slow_queue[i].pair)'
    <3> SUFFICES ASSUME NEW i \in 1..Len(r) PROVE r[i].n <= Taken(slow_queue[i].pair)' OBVIOUS
    <3>1. PICK o \in Pairs : o = r[i].pair BY <1>16
    <3>2. r[i].n <= Taken(o)' BY <1>11, <1>16, <3>1
    <3> QED BY <1>2, <3>1, <3>2 DEF Taken
  <2>2. sjob' # NoEnv => sjob'.n <= Taken(sjob.pair)'
    <3> SUFFICES ASSUME sjob' = e PROVE sjob'.n <= Taken(sjob.pair)' BY <1>13
    <3>1. e.n <= Taken(e.pair)' BY <1>9, <1>11
    <3> QED BY <3>1 DEF Taken
  <2>3. \A p \in Pairs : lastSlow'[p] <= Taken(p)'
    BY <1>9, <1>11, <1>13 DEF SlowInv
  <2> QED BY <1>2, <1>10, <1>15, <1>16, <1>17, <2>1, <2>2, <2>3 DEF SlowInv
<1>19. \A p \in Pairs : lastSlow[p] <= lastSlow'[p] BY <1>9, <1>12, <1>13
<1> QED BY <1>14, <1>18, <1>19

\* Every step keeps the two invariants, and the slow loop never goes back.
LEMMA SeqNext ==
  ASSUME SingleSource, LaneInv, SourceInv, SlowInv, [Next]_vars
  PROVE  /\ SourceInv' /\ SlowInv'
         /\ \A p \in Pairs : lastSlow[p] <= lastSlow'[p]
<1>0. \A p \in Pairs : lastSlow[p] \in Nat BY TakenNat DEF LaneInv
<1>1. ASSUME UNCHANGED lastSlow PROVE \A p \in Pairs : lastSlow[p] <= lastSlow'[p] BY <1>0, <1>1
<1>2. ASSUME \/ \E c \in Conns : Accept(c) \/ Disconnect(c) \/ CheckPair(c) \/ EnqueuePair(c)
             \/ \E cp \in wire : Arrive(cp) \/ Refuse(cp) \/ Ignore(cp)
             \/ AgentStep \/ CloseStep \/ UNCHANGED vars
             \/ SlowEnd \/ SlowLookup \/ SlowStatus
      PROVE  SourceInv' /\ SlowInv' /\ UNCHANGED lastSlow
  <2>1. UNCHANGED <<sent, lastRouted, slow_queue, lastSlow, wpc, job>>
    BY <1>2 DEF Accept, Disconnect, CheckPair, EnqueuePair, Arrive, Refuse, Ignore, AgentStep,
                CloseStep, CloseBegin, CloseChannels, CloseSlowQueue, SlowEnd, SlowLookup,
                SlowStatus, SlowGiveUp, vars, connVars, chanVars, workVars, slowVars
  <2>2. sjob' \in {sjob, NoEnv}
    BY <1>2 DEF Accept, Disconnect, CheckPair, EnqueuePair, Arrive, Refuse, Ignore, AgentStep,
                CloseStep, CloseBegin, CloseChannels, CloseSlowQueue, SlowEnd, SlowLookup,
                SlowStatus, SlowGiveUp, SlowReturn, vars, slowVars
  <2>3. \A w \in Workers : Routing(w)' => Routing(w) /\ job'[w] = job[w] BY <2>1 DEF Routing
  <2> QED BY <2>1, <2>2, <2>3, SeqRest
<1>3. ASSUME NEW g \in Goroutines, StartPair(g) \/ RangeEnd(g)
      PROVE  SourceInv' /\ SlowInv' /\ UNCHANGED lastSlow
  <2>1. UNCHANGED <<sent, lastRouted, slow_queue, lastSlow, sjob, job>>
    BY <1>3 DEF StartPair, RangeEnd, connVars, chanVars, slowVars
  <2>2. wpc[g] # "unborn" /\ \E s \in {"recv", "ended"} : wpc' = [wpc EXCEPT ![g] = s]
    BY <1>3 DEF StartPair, RangeEnd
  <2>3. wpc \in [Workers -> WorkerStates] BY DEF LaneInv, TypeInv, TypeOK, WorkTypeOK
  <2>4. \A w \in Workers : Routing(w)' => Routing(w) /\ job'[w] = job[w]
    BY <2>1, <2>2, <2>3 DEF Routing, RouteStates
  <2>5. \A w \in Workers : wpc'[w] # "unborn" => wpc[w] # "unborn" BY <2>2, <2>3
  <2> QED BY <2>1, <2>4, <2>5, SeqRest
<1>4. ASSUME \/ \E c \in Conns : CreatePair(c) \/ \E p \in Pairs : ReadEnvelope(c, p)
             \/ \E k \in Callers, p \in Pairs : CallRoute(k, p)
             \/ \E g \in Goroutines : ReceivePair(g)
      PROVE  SourceInv' /\ SlowInv' /\ UNCHANGED lastSlow
  <2>1. UNCHANGED lastSlow BY <1>4 DEF CreatePair, ReadEnvelope, CallRoute, ReceivePair, slowVars
  <2> QED BY <1>4, <2>1, SeqCreate, SeqRead, SeqCall, SeqReceive
<1>5. ASSUME NEW w \in Workers, RouteStep(w) PROVE SourceInv' /\ SlowInv' /\ UNCHANGED lastSlow
  <2>1. UNCHANGED lastSlow
    BY <1>5 DEF RouteStep, RejectSender, RouteMailbox, RouteMyAgent, RouteDelegate, AwaitAck,
                RouteRelay, RouteLookup, ReadStatus, MoveToSlow, PushSlow, slowVars
  <2> QED BY <1>5, <2>1, SeqRoute
<1>6. ASSUME SlowReceive
      PROVE  /\ SourceInv' /\ SlowInv'
             /\ \A p \in Pairs : lastSlow[p] <= lastSlow'[p]
  BY <1>6, SeqSlowReceive
<1> QED
  BY <1>1, <1>2, <1>3, <1>4, <1>5, <1>6 DEF Next, HandlerStep, GoroutineStep, SlowStep

\* The two invariants hold for agents whose envelopes come from one thread.
LEMMA SeqCorrect == ASSUME SingleSource PROVE Spec => [](SourceInv /\ SlowInv)
<1>1. Init => SourceInv /\ SlowInv
  <2> SUFFICES ASSUME Init PROVE SourceInv /\ SlowInv OBVIOUS
  <2>1. Len(slow_queue) = 0 BY EmptySeq DEF Init
  <2>2. \A w \in Workers : ~ Routing(w) BY DEF Init, Routing, RouteStates
  <2>3. Goroutines \subseteq Workers /\ Callers \subseteq Workers BY DEF Workers
  <2>4. \A c \in Conns, p \in Pairs : <<c, p>> \in Goroutines BY DEF Goroutines, Channels
  <2>5. \A c \in Conns, p \in Pairs : wpc[<<c, p>>] = "unborn" BY <2>3, <2>4 DEF Init
  <2>6. SourceInv BY <2>2, <2>3, <2>5 DEF SourceInv
  <2>7. \A p \in Pairs : lastSlow[p] = 0 /\ Taken(p) = 0 BY DEF Init, Taken
  <2>8. sjob = NoEnv BY DEF Init
  <2>9. SlowInv BY <2>1, <2>2, <2>7, <2>8 DEF SlowInv
  <2> QED BY <2>6, <2>9
<1>2. LaneInv /\ SourceInv /\ SlowInv /\ [Next]_vars => (SourceInv /\ SlowInv)' BY SeqNext
<1>3. ~ Overlap BY DEF SingleSource
<1> QED BY <1>1, <1>2, <1>3, LaneCorrect, PTL DEF Spec

\* If the envelopes of an agent come from one thread, slowEnvelopeSendLoop takes
\* those of a pair in the order of their acceptance, whatever comes by slow_queue and
\* whatever RouteEnvelope settles at once.
THEOREM SlowPathOrderCorrect == ASSUME SingleSource PROVE Spec => SlowPathOrder
<1>1. LaneInv /\ SourceInv /\ SlowInv /\ [Next]_vars
        => [\A p \in Pairs : lastSlow[p] <= lastSlow'[p]]_vars
  BY SeqNext
<1>2. ~ Overlap BY DEF SingleSource
<1> QED BY <1>1, <1>2, LaneCorrect, SeqCorrect, PTL DEF Spec, SlowPathOrder

-----------------------------------------------------------------------------
(* What overtakes what, on the same condition.                              *)

\* An envelope that succeeded was handled, in one way or another, and what has left
\* the peer was taken up before.
ArrivalInv ==
    /\ \A e \in succeeded : \E v \in Vias : Handled(e, v)
    /\ \A e \in Envelopes, v \in Vias : Out(e, v) => e.n <= Taken(e.pair)
    /\ OvertakenIsSlow

\* What the other ends have handled stays so.
LEMMA HandledStable ==
  ASSUME TypeInv, [Next]_vars, NEW e \in Envelopes, NEW v \in Vias, Handled(e, v)
  PROVE  Handled(e, v)'
<1>0. "fast" \in Vias /\ "tcp" \in Vias BY DEF Vias
<1>1. CASE UNCHANGED <<delivered, lost, acks>> BY <1>1 DEF Handled, Delivered
<1>2. ASSUME NEW w \in Workers, RouteStep(w) PROVE Handled(e, v)'
  <2>1. CASE UNCHANGED delivered /\ lost \subseteq lost' BY <2>1 DEF Handled, Delivered
  <2>2. ASSUME NEW u \in Vias, Deliver(job[w], u), UNCHANGED lost PROVE Handled(e, v)'
    <3>1. PICK f \in Envelopes : f = job[w] BY <1>2, RouteEffect
    <3> QED BY <2>2, <3>1, DeliverHandled
  <2> QED
    BY <1>0, <1>2, <2>1, <2>2, RouteNet
       DEF QuietStep, AckStep, LeaveStep, HandStep, WriteStep, LoseStep, SendStep
<1>3. ASSUME SlowStep PROVE UNCHANGED <<delivered, lost, acks>>
  BY <1>3 DEF SlowStep, SlowReceive, SlowEnd, SlowLookup, SlowStatus, netVars
<1>4. ASSUME NEW cp \in wire, Arrive(cp) PROVE Handled(e, v)'
  <2>1. PICK f \in Envelopes, u \in Vias : cp.env = f /\ cp.via = u
    BY DEF TypeInv, TypeOK, NetTypeOK
  <2>2. Deliver(f, u) /\ UNCHANGED lost BY <1>4, <2>1 DEF Arrive
  <2> QED BY <2>2, DeliverHandled
<1>5. ASSUME NEW cp \in wire, Refuse(cp) \/ Ignore(cp) PROVE Handled(e, v)'
  <2>1. UNCHANGED delivered /\ lost \subseteq lost' BY <1>5 DEF Refuse, Ignore
  <2> QED BY <2>1 DEF Handled, Delivered
<1>6. ASSUME \/ \E c \in Conns : Accept(c) \/ Disconnect(c) \/ HandlerStep(c)
             \/ \E c \in Conns, p \in Pairs : ReadEnvelope(c, p)
             \/ \E k \in Callers, p \in Pairs : CallRoute(k, p)
             \/ \E g \in Goroutines : GoroutineStep(g)
             \/ AgentStep \/ CloseStep \/ UNCHANGED vars
      PROVE  UNCHANGED <<delivered, lost, acks>>
  BY <1>6 DEF Accept, Disconnect, HandlerStep, CheckPair, CreatePair, EnqueuePair, ReadEnvelope,
              CallRoute, GoroutineStep, StartPair, ReceivePair, RangeEnd, AgentStep, CloseStep,
              CloseBegin, CloseChannels, CloseSlowQueue, vars, netVars
<1> QED BY <1>1, <1>2, <1>3, <1>4, <1>5, <1>6 DEF Next

\* An envelope that has left the order of its pair does not come back to it.
LEMMA TookStable ==
  ASSUME HeldInv, [Next]_vars, NEW e \in Envelopes, TookSlowPath(e)
  PROVE  TookSlowPath(e)'
<1>0. TypeInv /\ "slow" \in Vias BY DEF HeldInv, Vias
<1>1. TookSlowPath(e) <=> e \in failed \/ sjob = e \/ Holds(slow_queue, e) \/ Handled(e, "slow")
  BY DEF TookSlowPath, Holds
<1>2. TookSlowPath(e)' <=> e \in failed' \/ sjob' = e \/ Holds(slow_queue', e) \/ Handled(e, "slow")'
  BY DEF TookSlowPath, Holds
<1>3. Handled(e, "slow") => Handled(e, "slow")' BY <1>0, HandledStable
<1>4. ASSUME failed \subseteq failed', UNCHANGED <<sjob, slow_queue>> PROVE TookSlowPath(e)'
  BY <1>1, <1>2, <1>3, <1>4
<1>5. ASSUME NEW w \in Workers, RouteStep(w) PROVE TookSlowPath(e)'
  <2>1. failed \subseteq failed' /\ UNCHANGED sjob BY <1>0, <1>5, RouteEffect
  <2>2. CASE UNCHANGED slow_queue BY <1>4, <2>1, <2>2
  <2>3. CASE slow_queue' = Append(slow_queue, job[w])
    <3>1. slow_queue \in Seq(Envelopes) /\ job[w] \in Envelopes
      BY <1>0, <1>5, RouteEffect DEF TypeInv, TypeOK, SlowTypeOK
    <3>2. Holds(slow_queue, e) => Holds(slow_queue', e) BY <2>3, <3>1, AppendHolds
    <3> QED BY <1>1, <1>2, <1>3, <2>1, <3>2
  <2> QED BY <1>0, <1>5, <2>2, <2>3, RouteEffect
<1>6. CASE SlowReceive
  <2>1. PICK f \in Envelopes : f = Head(slow_queue)
    BY <1>0, <1>6, HeadTailProperties DEF SlowReceive, TypeInv, TypeOK, SlowTypeOK
  <2>2. \A y : Holds(slow_queue', y) <=> Holds(slow_queue, y) /\ y # f
    BY <1>0, <1>6, <2>1, TailHolds DEF SlowReceive, HeldInv, OnceInv, TypeInv, TypeOK, SlowTypeOK
  <2>3. sjob = NoEnv BY <1>0, <1>6 DEF SlowReceive, TypeInv, TypeOK, SlowTypeOK
  <2>4. failed \subseteq failed' /\ (sjob' = f \/ f \in failed')
    BY <1>6, <2>1 DEF SlowReceive, Fail
  <2> QED BY <1>1, <1>2, <1>3, <2>2, <2>3, <2>4
<1>7. CASE SlowLookup \/ SlowStatus
  <2>1. UNCHANGED slow_queue /\ failed \subseteq failed'
    BY <1>7 DEF SlowLookup, SlowStatus, SlowGiveUp, Succeed, Fail
  <2>2. sjob' = sjob \/ sjob \in failed' \/ Handled(sjob, "slow")
    BY <1>7 DEF SlowLookup, SlowStatus, SlowGiveUp, Fail
  <2> QED BY <1>1, <1>2, <1>3, <2>1, <2>2
<1>8. ASSUME \/ \E c \in Conns : Accept(c) \/ Disconnect(c) \/ HandlerStep(c)
             \/ \E c \in Conns, p \in Pairs : ReadEnvelope(c, p)
             \/ \E k \in Callers, p \in Pairs : CallRoute(k, p)
             \/ \E g \in Goroutines : GoroutineStep(g)
             \/ \E cp \in wire : Arrive(cp) \/ Refuse(cp) \/ Ignore(cp)
             \/ SlowEnd \/ AgentStep \/ CloseStep \/ UNCHANGED vars
      PROVE  failed \subseteq failed' /\ UNCHANGED <<sjob, slow_queue>>
  BY <1>8 DEF Accept, Disconnect, HandlerStep, CheckPair, CreatePair, EnqueuePair, ReadEnvelope,
              CallRoute, GoroutineStep, StartPair, ReceivePair, RangeEnd, Arrive, Refuse, Ignore,
              SlowEnd, AgentStep, CloseStep, CloseBegin, CloseChannels, CloseSlowQueue, vars,
              slowVars, viewVars
<1> QED BY <1>4, <1>5, <1>6, <1>7, <1>8 DEF Next, SlowStep

\* RouteEnvelope is never called on an earlier envelope of a pair.
LEMMA TakenForward ==
  ASSUME LaneInv, [Next]_vars
  PROVE  \A p \in Pairs : Taken(p) <= Taken(p)'
<1>0. TypeInv /\ sent \in [Pairs -> 0..MaxSent]
      /\ \A p \in Pairs : sent[p] \in Nat /\ lastRouted[p] \in Nat
  BY DEF LaneInv, TypeInv, TypeOK, ConnTypeOK, ChanTypeOK
<1>1. ASSUME UNCHANGED sent PROVE \A p \in Pairs : sent[p] <= sent'[p] BY <1>0, <1>1
<1>2. ASSUME NEW p \in Pairs, sent' = [sent EXCEPT ![p] = @ + 1]
      PROVE  \A q \in Pairs : sent[q] <= sent'[q]
  BY <1>0, <1>2
<1>3. ASSUME \/ \E c \in Conns : Accept(c) \/ Disconnect(c) \/ HandlerStep(c)
             \/ \E g \in Goroutines : GoroutineStep(g)
             \/ SlowStep
             \/ \E cp \in wire : Arrive(cp) \/ Refuse(cp) \/ Ignore(cp)
             \/ AgentStep \/ CloseStep \/ UNCHANGED vars
      PROVE  UNCHANGED sent
  BY <1>3 DEF Accept, Disconnect, HandlerStep, CheckPair, CreatePair, EnqueuePair, GoroutineStep,
              StartPair, ReceivePair, RangeEnd, SlowStep, SlowReceive, SlowEnd, SlowLookup,
              SlowStatus, Arrive, Refuse, Ignore, AgentStep, CloseStep, CloseBegin, CloseChannels,
              CloseSlowQueue, vars, connVars
<1>4. ASSUME NEW w \in Workers, RouteStep(w) PROVE UNCHANGED sent BY <1>0, <1>4, RouteEffect
<1>5. ASSUME NEW p \in Pairs, \/ \E c \in Conns : ReadEnvelope(c, p)
                              \/ \E k \in Callers : CallRoute(k, p)
      PROVE  sent' = [sent EXCEPT ![p] = @ + 1]
  BY <1>5 DEF ReadEnvelope, CallRoute
<1>6. \A p \in Pairs : sent[p] <= sent'[p] BY <1>1, <1>2, <1>3, <1>4, <1>5 DEF Next
<1>7. \A p \in Pairs : lastRouted[p] <= lastRouted'[p] BY RoutedForward DEF LaneInv
<1> QED BY <1>6, <1>7 DEF Taken

\* Only what was taken up leaves the peer.
LEMMA OutIsTaken ==
  ASSUME LaneInv, SourceInv, SlowInv, [Next]_vars, NEW e \in Envelopes, NEW v \in Vias, Out(e, v)'
  PROVE  Out(e, v) \/ e.n <= Taken(e.pair)
<1>0. TypeInv /\ "fast" \in Vias /\ "slow" \in Vias /\ "tcp" \in Vias BY DEF LaneInv, Vias
<1>1. ASSUME UNCHANGED <<wire, delivered, lost>> PROVE Out(e, v)
  BY <1>1 DEF Out, Handled, Delivered
<1>2. ASSUME NEW w \in Workers, RouteStep(w) PROVE Out(e, v) \/ e.n <= Taken(e.pair)
  <2>1. PICK f \in Envelopes : f = job[w] BY <1>0, <1>2, RouteEffect
  <2>2. Routing(w) BY <1>0, <2>1 DEF Routing, TypeInv, TypeOK, WorkTypeOK
  <2>3. f.n = Taken(f.pair) /\ f.n \in Nat BY <2>1, <2>2 DEF SourceInv, Envelopes
  <2>4. f.n <= Taken(f.pair) BY <2>3
  <2>5. CASE UNCHANGED <<wire, delivered, lost>> BY <1>1, <2>5
  <2>6. ASSUME NEW u \in Vias, Deliver(f, u), UNCHANGED <<wire, lost>>
        PROVE  Out(e, v) \/ e.n <= Taken(e.pair)
    BY <1>0, <2>4, <2>6, DeliverHandled DEF Out
  <2>7. CASE lost' = lost \cup {Copy(f, "tcp")} /\ UNCHANGED <<wire, delivered>>
    BY <2>4, <2>7, LoseHandled DEF Out
  <2>8. CASE Send(f, "fast") /\ UNCHANGED <<delivered, lost>>
    <3>1. Handled(e, v)' <=> Handled(e, v)
      BY <2>8 DEF Handled, Delivered
    <3> QED BY <2>4, <2>8, <3>1, SendHas DEF Out
  <2> QED
    BY <1>0, <1>2, <2>1, <2>5, <2>6, <2>7, <2>8, RouteNet
       DEF QuietStep, AckStep, LeaveStep, HandStep, WriteStep, LoseStep, SendStep
<1>3. ASSUME SlowLookup PROVE Out(e, v) \/ e.n <= Taken(e.pair)
  <2>1. UNCHANGED <<delivered, lost, acks>> BY <1>3 DEF SlowLookup
  <2>2. CASE UNCHANGED wire BY <1>1, <2>1, <2>2
  <2>3. CASE Send(sjob, "slow")
    <3>1. PICK f \in Envelopes : f = sjob
      BY <1>0, <1>3, HeldIsEnvelope DEF SlowLookup, TypeInv
    <3>2. f.n <= Taken(f.pair) BY <3>1 DEF SlowInv
    <3>3. Handled(e, v)' <=> Handled(e, v)
      BY <2>1 DEF Handled, Delivered
    <3> QED BY <2>3, <3>1, <3>2, <3>3, SendHas DEF Out
  <2> QED BY <1>3, <2>2, <2>3 DEF SlowLookup
<1>4. ASSUME NEW cp \in wire, Arrive(cp) PROVE Out(e, v)
  <2>1. PICK f \in Envelopes, u \in Vias : cp = Copy(f, u)
    BY <1>0 DEF TypeInv, TypeOK, NetTypeOK, Copy
  <2>2. cp.env = f /\ cp.via = u BY <2>1 DEF Copy
  <2>3. Deliver(f, u) /\ UNCHANGED lost /\ wire' \subseteq wire BY <1>4, <2>2 DEF Arrive
  <2> QED BY <1>0, <1>4, <2>1, <2>3, DeliverHandled DEF Out
<1>5. ASSUME NEW cp \in wire, Refuse(cp) \/ Ignore(cp) PROVE Out(e, v)
  <2>1. UNCHANGED delivered /\ lost' \subseteq lost \cup {cp} /\ wire' \subseteq wire
    BY <1>5 DEF Refuse, Ignore
  <2> QED BY <2>1 DEF Out, Handled, Delivered
<1>6. ASSUME \/ \E c \in Conns : Accept(c) \/ Disconnect(c) \/ HandlerStep(c)
             \/ \E c \in Conns, p \in Pairs : ReadEnvelope(c, p)
             \/ \E k \in Callers, p \in Pairs : CallRoute(k, p)
             \/ \E g \in Goroutines : GoroutineStep(g)
             \/ SlowReceive \/ SlowEnd \/ SlowStatus
             \/ AgentStep \/ CloseStep \/ UNCHANGED vars
      PROVE  UNCHANGED <<wire, delivered, lost, acks>>
  BY <1>6 DEF Accept, Disconnect, HandlerStep, CheckPair, CreatePair, EnqueuePair, ReadEnvelope,
              CallRoute, GoroutineStep, StartPair, ReceivePair, RangeEnd, SlowReceive, SlowEnd,
              SlowStatus, AgentStep, CloseStep, CloseBegin, CloseChannels, CloseSlowQueue, vars,
              netVars
<1> QED BY <1>1, <1>2, <1>3, <1>4, <1>5, <1>6 DEF Next, SlowStep

\* No error is returned for an envelope that no other end has handled.
LEMMA SucceededIsHandled ==
  ASSUME TypeInv, CopyInv, [Next]_vars, NEW e \in Envelopes, e \in succeeded', e \notin succeeded
  PROVE  \E v \in Vias : Handled(e, v)'
<1>0. "fast" \in Vias /\ "slow" \in Vias /\ "tcp" \in Vias BY DEF Vias
<1>1. ASSUME NEW w \in Workers, RouteStep(w) PROVE \E v \in Vias : Handled(e, v)'
  <2>1. PICK f \in Envelopes : f = job[w] BY <1>1, RouteEffect
  <2>2. /\ e = f
        /\ \/ Handled(f, "fast") \/ (wpc[w] = "await" /\ UNCHANGED <<delivered, lost>>)
           \/ Deliver(f, "fast") /\ UNCHANGED lost
    BY <1>1, <2>1, RouteNet
       DEF QuietStep, AckStep, LeaveStep, HandStep, WriteStep, LoseStep, SendStep, Succeed
  <2>3. CASE Deliver(f, "fast") /\ UNCHANGED lost BY <1>0, <2>2, <2>3, DeliverHandled
  <2>4. CASE Handled(f, "fast") BY <1>0, <2>2, <2>4, HandledStable
  <2>5. CASE wpc[w] = "await"
    <3>1. Handled(f, "tcp") BY <2>1, <2>5 DEF CopyInv
    <3> QED BY <1>0, <2>2, <3>1, HandledStable
  <2> QED BY <2>2, <2>3, <2>4, <2>5
<1>2. ASSUME SlowStatus PROVE \E v \in Vias : Handled(e, v)'
  <2>1. e = sjob /\ Handled(sjob, "slow") BY <1>2 DEF SlowStatus, SlowGiveUp, Succeed, Fail
  <2> QED BY <1>0, <2>1, HandledStable
<1>3. ASSUME \/ \E c \in Conns : Accept(c) \/ Disconnect(c) \/ HandlerStep(c)
             \/ \E c \in Conns, p \in Pairs : ReadEnvelope(c, p)
             \/ \E k \in Callers, p \in Pairs : CallRoute(k, p)
             \/ \E g \in Goroutines : GoroutineStep(g)
             \/ SlowReceive \/ SlowEnd \/ SlowLookup
             \/ \E cp \in wire : Arrive(cp) \/ Refuse(cp) \/ Ignore(cp)
             \/ AgentStep \/ CloseStep \/ UNCHANGED vars
      PROVE  UNCHANGED succeeded
  BY <1>3 DEF Accept, Disconnect, HandlerStep, CheckPair, CreatePair, EnqueuePair, ReadEnvelope,
              CallRoute, GoroutineStep, StartPair, ReceivePair, RangeEnd, SlowReceive, SlowEnd,
              SlowLookup, SlowGiveUp, Fail, Arrive, Refuse, Ignore, AgentStep, CloseStep,
              CloseBegin, CloseChannels, CloseSlowQueue, vars, viewVars
<1> QED BY <1>1, <1>2, <1>3 DEF Next, SlowStep

\* What arrives by the first attempt is the last envelope taken up of its pair, or has
\* left the order of the pair by now.
LEMMA FastIsLast ==
  ASSUME HeldInv, CopyInv, SourceInv, ArrivalInv, NEW e \in Envelopes, Copy(e, "fast") \in wire
  PROVE  TookSlowPath(e) \/ e.n = Taken(e.pair)
<1>0. TypeInv /\ "fast" \in Vias BY DEF HeldInv, Vias
<1>1. Out(e, "fast") /\ ~ Handled(e, "fast") BY <1>0 DEF Out, CopyInv
<1>2. Known(e) /\ ~ InHand(e) /\ ~ InChannel(e) BY <1>0, <1>1 DEF CopyInv, PastRoute
<1>3. PICK s \in Stages : At(e, s) BY <1>2 DEF HeldInv, StageInv
<1>4. CASE InJob(e)
  <2>1. PICK w \in Workers : job[w] = e BY <1>4 DEF InJob
  <2>2. Routing(w) BY <1>0, <2>1 DEF Routing, TypeInv, TypeOK, WorkTypeOK
  <2> QED BY <2>1, <2>2 DEF SourceInv
<1>5. CASE e \in succeeded
  <2>1. PICK v \in Vias : Handled(e, v) BY <1>5 DEF ArrivalInv
  <2>2. ~ Handled(e, "tcp") BY <1>1 DEF CopyInv, Out
  <2> QED BY <1>1, <2>1, <2>2 DEF TookSlowPath, Vias
<1>6. CASE e \in failed \/ sjob = e \/ Holds(slow_queue, e)
  BY <1>6 DEF TookSlowPath, Holds
<1> QED BY <1>2, <1>3, <1>4, <1>5, <1>6 DEF At

\* A delivery is by the slow path, or of such an envelope.
LEMMA DeliveryIsLast ==
  ASSUME HeldInv, CopyInv, LaneInv, SourceInv, ArrivalInv, [Next]_vars
  PROVE  \/ UNCHANGED delivered
         \/ \E e \in Envelopes, v \in Vias :
               Deliver(e, v) /\ (v = "slow" \/ TookSlowPath(e) \/ e.n = Taken(e.pair))
<1>0. TypeInv /\ "fast" \in Vias /\ "tcp" \in Vias BY DEF HeldInv, Vias
<1>1. ASSUME NEW w \in Workers, RouteStep(w), ~ UNCHANGED delivered
      PROVE  \E e \in Envelopes, v \in Vias : Deliver(e, v) /\ e.n = Taken(e.pair)
  <2>1. PICK f \in Envelopes : f = job[w] BY <1>0, <1>1, RouteEffect
  <2>2. Routing(w) BY <1>0, <2>1 DEF Routing, TypeInv, TypeOK, WorkTypeOK
  <2>3. f.n = Taken(f.pair) BY <2>1, <2>2 DEF SourceInv
  <2>4. Deliver(f, "fast") \/ Deliver(f, "tcp")
    BY <1>0, <1>1, <2>1, RouteNet
       DEF QuietStep, AckStep, LeaveStep, HandStep, WriteStep, LoseStep, SendStep
  <2> QED BY <1>0, <2>3, <2>4
<1>2. ASSUME NEW cp \in wire, Arrive(cp)
      PROVE  \E e \in Envelopes, v \in Vias :
               Deliver(e, v) /\ (v = "slow" \/ TookSlowPath(e) \/ e.n = Taken(e.pair))
  <2>1. PICK f \in Envelopes, u \in Vias : cp = Copy(f, u)
    BY <1>0 DEF TypeInv, TypeOK, NetTypeOK, Copy
  <2>2. cp.env = f /\ cp.via = u BY <2>1 DEF Copy
  <2>3. Deliver(f, u) BY <1>2, <2>2 DEF Arrive
  <2>4. u = "fast" => TookSlowPath(f) \/ f.n = Taken(f.pair) BY <2>1, FastIsLast
  <2>5. u # "tcp" BY <1>0, <2>2 DEF TypeInv, TypeOK, NetTypeOK
  <2> QED BY <2>3, <2>4, <2>5 DEF Vias
<1>3. ASSUME \/ \E c \in Conns : Accept(c) \/ Disconnect(c) \/ HandlerStep(c)
             \/ \E c \in Conns, p \in Pairs : ReadEnvelope(c, p)
             \/ \E k \in Callers, p \in Pairs : CallRoute(k, p)
             \/ \E g \in Goroutines : GoroutineStep(g)
             \/ SlowStep
             \/ \E cp \in wire : Refuse(cp) \/ Ignore(cp)
             \/ AgentStep \/ CloseStep \/ UNCHANGED vars
      PROVE  UNCHANGED delivered
  BY <1>3 DEF Accept, Disconnect, HandlerStep, CheckPair, CreatePair, EnqueuePair, ReadEnvelope,
              CallRoute, GoroutineStep, StartPair, ReceivePair, RangeEnd, SlowStep, SlowReceive,
              SlowEnd, SlowLookup, SlowStatus, Refuse, Ignore, AgentStep, CloseStep,
              CloseBegin, CloseChannels, CloseSlowQueue, vars, netVars
<1> QED BY <1>0, <1>1, <1>2, <1>3 DEF Next

\* A delivery overtakes nothing but what has left the order of the pair.
LEMMA OvertakenNext ==
  ASSUME HeldInv, CopyInv, LaneInv, SourceInv, ArrivalInv, [Next]_vars
  PROVE  OvertakenIsSlow'
<1>0. TypeInv /\ "slow" \in Vias BY DEF HeldInv, Vias
<1>1. PICK R : R = [n : Nat, via : Vias] OBVIOUS
<1>2. delivered \in [Pairs -> Seq(R)] BY <1>0, <1>1 DEF TypeInv, TypeOK, NetTypeOK
<1>3. \A p \in Pairs : Len(delivered[p]) \in Nat /\ \A i \in 1..Len(delivered[p]) : delivered[p][i] \in R
  BY <1>2, LenProperties, ElementOfSeq
<1>4. ASSUME NEW p \in Pairs, NEW m \in Nat, NEW i \in 1..Len(delivered[p]),
             NEW j \in 1..Len(delivered[p]), i < j, delivered[p][j].n = m, delivered[p][i].n > m
      PROVE  TookSlowPath(Env(p, m))'
  <2>1. Env(p, m) \in Envelopes BY DEF Env, Envelopes
  <2>2. TookSlowPath(Env(p, m)) BY <1>4 DEF ArrivalInv, OvertakenIsSlow
  <2>3. PICK f \in Envelopes : f = Env(p, m) BY <2>1
  <2>4. TookSlowPath(f)' BY <2>2, <2>3, TookStable
  <2> QED BY <2>3, <2>4
<1>5. SUFFICES ASSUME NEW p \in Pairs, NEW i \in 1..Len(delivered'[p]),
                      NEW j \in 1..Len(delivered'[p]), NEW m, delivered'[p][j].n = m,
                      i < j, delivered'[p][i].n > m
               PROVE  TookSlowPath(Env(p, m))'
  BY DEF OvertakenIsSlow
<1>6. CASE UNCHANGED delivered
  <2>1. m \in Nat BY <1>1, <1>3, <1>5, <1>6
  <2> QED BY <1>4, <1>5, <1>6, <2>1
<1>7. ASSUME NEW e \in Envelopes, NEW v \in Vias, Deliver(e, v),
             v = "slow" \/ TookSlowPath(e) \/ e.n = Taken(e.pair)
      PROVE  TookSlowPath(Env(p, m))'
  <2>1. PICK x : x = [n |-> e.n, via |-> v] OBVIOUS
  <2>2. x \in R /\ x.n = e.n /\ e.pair \in Pairs /\ e.n \in Nat BY <1>1, <2>1 DEF Envelopes
  <2>3. /\ delivered'[e.pair] = Append(delivered[e.pair], x)
        /\ \A q \in Pairs : q # e.pair => delivered'[q] = delivered[q]
    BY <1>2, <1>7, <2>1, <2>2 DEF Deliver
  <2>4. CASE p # e.pair
    <3>1. delivered'[p] = delivered[p] BY <2>3, <2>4
    <3>2. m \in Nat BY <1>1, <1>3, <1>5, <3>1
    <3> QED BY <1>4, <1>5, <3>1, <3>2
  <2>5. CASE p = e.pair
    <3>1. PICK q : q = delivered[p] OBVIOUS
    <3>2. q \in Seq(R) /\ delivered'[p] = Append(q, x) BY <1>2, <2>3, <2>5, <3>1
    <3>3. /\ Len(q) \in Nat /\ Len(delivered'[p]) = Len(q) + 1
          /\ \A k \in 1..Len(q) : delivered'[p][k] = q[k]
          /\ delivered'[p][Len(q) + 1] = x
      BY <2>2, <3>2, AppendProperties, LenProperties
    <3>4. i \in 1..Len(q) BY <1>5, <3>3
    <3>5. CASE j \in 1..Len(q)
      <4>1. q[j].n = m /\ q[i].n > m BY <1>5, <3>3, <3>4, <3>5
      <4>2. m \in Nat BY <1>1, <1>3, <3>1, <3>5, <4>1
      <4> QED BY <1>4, <1>5, <3>1, <3>4, <3>5, <4>1, <4>2
    <3>6. CASE j = Len(q) + 1
      <4>1. m = e.n /\ q[i].n > e.n BY <1>5, <2>2, <3>3, <3>4, <3>6
      <4>2. q[i].n <= Taken(p)
        <5>1. PICK f : f = Env(p, q[i].n) OBVIOUS
        <5>2. q[i] \in R BY <3>2, <3>4, ElementOfSeq
        <5>3. /\ q[i].n \in Nat /\ q[i].via \in Vias
              /\ q[i] = [n |-> q[i].n, via |-> q[i].via]
          BY <1>1, <5>2
        <5>4. f \in Envelopes /\ f.pair = p /\ f.n = q[i].n BY <5>1, <5>3 DEF Env, Envelopes
        <5>5. Delivered(f, q[i].via) BY <3>1, <3>4, <5>3, <5>4 DEF Delivered
        <5>6. Out(f, q[i].via) BY <5>5 DEF Out, Handled
        <5> QED BY <5>3, <5>4, <5>6 DEF ArrivalInv
      <4>3. Taken(p) \in Nat /\ q[i].n \in Nat
        <5>1. Taken(p) \in Nat BY <1>0, TakenNat
        <5>2. q[i] \in R BY <3>2, <3>4, ElementOfSeq
        <5> QED BY <1>1, <5>1, <5>2
      <4>4. e.n # Taken(e.pair) BY <2>2, <2>5, <4>1, <4>2, <4>3
      <4>5. CASE TookSlowPath(e)
        <5>1. TookSlowPath(e)' BY <4>5, TookStable
        <5>2. e = Env(p, m) BY <2>5, <4>1 DEF Env, Envelopes
        <5> QED BY <5>1, <5>2
      <4>6. CASE v = "slow"
        <5>1. Delivered(e, "slow")' BY <1>0, <1>7, <4>6, DeliverHas
        <5>2. TookSlowPath(e)' BY <5>1 DEF TookSlowPath, Handled
        <5>3. e = Env(p, m) BY <2>5, <4>1 DEF Env, Envelopes
        <5> QED BY <5>2, <5>3
      <4> QED BY <1>7, <4>4, <4>5, <4>6
    <3> QED BY <1>5, <3>3, <3>5, <3>6
  <2> QED BY <2>4, <2>5
<1> QED BY <1>6, <1>7, DeliveryIsLast

\* Every step keeps the invariant.
LEMMA ArrivalNext ==
  ASSUME HeldInv, CopyInv, LaneInv, SourceInv, SlowInv, ArrivalInv, [Next]_vars
  PROVE  ArrivalInv'
<1>0. TypeInv /\ TypeInv' /\ "fast" \in Vias /\ "slow" \in Vias
  BY HeldNext DEF HeldInv, Vias
<1>1. ASSUME NEW e \in succeeded' PROVE \E v \in Vias : Handled(e, v)'
  <2>1. e \in Envelopes BY <1>0 DEF TypeInv, TypeOK, ViewTypeOK
  <2>2. CASE e \in succeeded BY <1>0, <2>1, <2>2, HandledStable DEF ArrivalInv
  <2>3. CASE e \notin succeeded BY <1>0, <1>1, <2>1, <2>3, SucceededIsHandled
  <2> QED BY <2>2, <2>3
<1>2. ASSUME NEW e \in Envelopes, NEW v \in Vias, Out(e, v)' PROVE e.n <= Taken(e.pair)'
  <2>1. e.n <= Taken(e.pair) BY <1>2, OutIsTaken DEF ArrivalInv
  <2>2. e.pair \in Pairs /\ e.n \in Nat BY DEF Envelopes
  <2>3. Taken(e.pair) \in Nat /\ Taken(e.pair)' \in Nat
    BY <1>0, <2>2 DEF Taken, TypeInv, TypeOK, ConnTypeOK, ChanTypeOK
  <2>4. Taken(e.pair) <= Taken(e.pair)' BY <2>2, TakenForward
  <2> QED BY <2>1, <2>2, <2>3, <2>4
<1>3. OvertakenIsSlow' BY OvertakenNext
<1> QED BY <1>1, <1>2, <1>3 DEF ArrivalInv

\* If the envelopes of an agent come from one thread, then one that its target gets
\* after a later one was given up or went by slow_queue.
THEOREM OvertakenIsSlowCorrect == ASSUME SingleSource PROVE Spec => []OvertakenIsSlow
<1>1. Init => ArrivalInv
  <2> SUFFICES ASSUME Init PROVE ArrivalInv OBVIOUS
  <2>1. \A p \in Pairs : Len(delivered[p]) = 0 BY EmptySeq DEF Init
  <2>2. \A e \in Envelopes, v \in Vias : ~ Out(e, v)
    BY <2>1 DEF Init, Out, Handled, Delivered, Envelopes
  <2>3. OvertakenIsSlow BY <2>1 DEF OvertakenIsSlow
  <2>4. succeeded = {} BY DEF Init
  <2> QED BY <2>2, <2>3, <2>4 DEF ArrivalInv
<1>2. HeldInv /\ CopyInv /\ LaneInv /\ SourceInv /\ SlowInv /\ ArrivalInv /\ [Next]_vars
        => ArrivalInv'
  BY ArrivalNext
<1>3. ArrivalInv => OvertakenIsSlow BY DEF ArrivalInv
<1>4. ~ Overlap BY DEF SingleSource
<1> QED BY <1>1, <1>2, <1>3, <1>4, HeldCorrect, CopyCorrect, LaneCorrect, SeqCorrect, PTL DEF Spec
=============================================================================
