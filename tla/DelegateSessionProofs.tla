----------------------- MODULE DelegateSessionProofs -----------------------
(***************************************************************************)
(* Proofs about DelegateSession, for any number of connections, delivering  *)
(* threads and envelopes and any capacity of the status channels.           *)
(***************************************************************************)
EXTENDS DelegateSession, SequenceTheorems, FiniteSetTheorems, TLAPS

USE SessionAssumption DEF connVars, mapVars, routerVars, history, vars

\* In an initial state the variables have their types.
LEMMA TypeInit == Init => TypeOK
<1> SUFFICES ASSUME Init PROVE TypeOK
  OBVIOUS
<1>1. ConnTypeOK BY DEF Init, ConnTypeOK, HandlerStates
<1>2. MapTypeOK
  <2>1. \A c \in Conns : Len(statuses[c]) <= StatusQueueSize
    BY EmptySeq DEF Init
  <2>2. statuses \in [Conns -> Seq(Nat)] BY EmptySeq DEF Init
  <2>3. agentRecords \in BOOLEAN BY DEF Init
  <2>4. nbrConns \in Int BY DEF Init
  <2>5. overlapped \in BOOLEAN BY DEF Init
  <2>6. concurrent \in BOOLEAN BY DEF Init
  <2> QED BY <2>1, <2>2, <2>3, <2>4, <2>5, <2>6 DEF Init, MapTypeOK
<1>3. RouterTypeOK BY DEF Init, RouterTypeOK
<1> QED BY <1>1, <1>2, <1>3 DEF TypeOK

\* Every step, of a handler, a client or a delivering thread, keeps the types.
\* The capacity of a status channel is kept by the room PushStatus waits for.
LEMMA TypeNext == TypeOK /\ [Next]_vars => TypeOK'
<1> SUFFICES ASSUME TypeOK, [Next]_vars PROVE TypeOK'
  OBVIOUS
<1> USE DEF TypeOK
<1>1. ASSUME NEW c \in Conns, HandlerStep(c)
      PROVE TypeOK'
  <2>1. CASE RefuseRegistration(c)
    <3> USE <2>1 DEF RefuseRegistration
    <3>1. ConnTypeOK' BY DEF ConnTypeOK, HandlerStates, Final
    <3>2. MapTypeOK' BY DEF MapTypeOK
    <3>3. RouterTypeOK' BY DEF RouterTypeOK
    <3> QED BY <3>1, <3>2, <3>3
  <2>2. CASE AddRecord(c)
    <3> USE <2>2 DEF AddRecord
    <3>1. ConnTypeOK' BY DEF ConnTypeOK, HandlerStates, Final
    <3>2. MapTypeOK' BY DEF MapTypeOK
    <3>3. RouterTypeOK' BY DEF RouterTypeOK
    <3> QED BY <3>1, <3>2, <3>3
  <2>3. CASE AddConnection(c)
    <3> USE <2>3 DEF AddConnection
    <3>1. ConnTypeOK' BY DEF ConnTypeOK, HandlerStates, Final
    <3>2. MapTypeOK' BY DEF MapTypeOK
    <3>3. RouterTypeOK' BY DEF RouterTypeOK
    <3> QED BY <3>1, <3>2, <3>3
  <2>4. CASE AddStatusQueue(c)
    <3> USE <2>4 DEF AddStatusQueue, MakeQueue
    <3>1. ConnTypeOK' BY DEF ConnTypeOK, HandlerStates, Final
    <3>2. MapTypeOK' BY DEF MapTypeOK
    <3>3. RouterTypeOK' BY DEF RouterTypeOK
    <3> QED BY <3>1, <3>2, <3>3
  <2>5. CASE Announce(c)
    <3> USE <2>5 DEF Announce
    <3>1. ConnTypeOK' BY DEF ConnTypeOK, HandlerStates, Final
    <3>2. MapTypeOK' BY DEF MapTypeOK
    <3>3. RouterTypeOK' BY DEF RouterTypeOK
    <3> QED BY <3>1, <3>2, <3>3
  <2>6. CASE ReadStatus(c)
    <3> USE <2>6 DEF ReadStatus
    <3>1. ConnTypeOK'
      <4>1. upstream[c] \in Seq(Nat) BY DEF ConnTypeOK
      <4>2. Head(upstream[c]) \in Nat /\ Tail(upstream[c]) \in Seq(Nat)
        BY <4>1, HeadTailProperties
      <4> QED BY <4>2 DEF ConnTypeOK, MapTypeOK, HandlerStates
    <3>2. MapTypeOK' BY DEF MapTypeOK
    <3>3. RouterTypeOK' BY DEF RouterTypeOK
    <3> QED BY <3>1, <3>2, <3>3
  <2>7. CASE PushStatus(c)
    <3> USE <2>7 DEF PushStatus, QueueHasRoom
    <3>1. ConnTypeOK' BY DEF ConnTypeOK, HandlerStates, Final
    <3>2. MapTypeOK'
      <4>1. pushTo[c] \in Conns /\ pushing[c] \in Nat BY DEF ConnTypeOK
      <4>2. statuses[pushTo[c]] \in Seq(Nat) BY <4>1 DEF MapTypeOK
      <4>3. /\ Append(statuses[pushTo[c]], pushing[c]) \in Seq(Nat)
            /\ Len(Append(statuses[pushTo[c]], pushing[c])) = Len(statuses[pushTo[c]]) + 1
        BY <4>1, <4>2, AppendProperties
      <4>4. Len(Append(statuses[pushTo[c]], pushing[c])) <= StatusQueueSize
        BY <4>2, <4>3, LenProperties
      <4> QED BY <4>1, <4>3, <4>4 DEF MapTypeOK
    <3>3. RouterTypeOK' BY DEF RouterTypeOK
    <3> QED BY <3>1, <3>2, <3>3
  <2>8. CASE RemoveConnection(c)
    <3> USE <2>8 DEF RemoveConnection
    <3>1. ConnTypeOK' BY DEF ConnTypeOK, HandlerStates, Final
    <3>2. MapTypeOK' BY DEF MapTypeOK
    <3>3. RouterTypeOK' BY DEF RouterTypeOK
    <3> QED BY <3>1, <3>2, <3>3
  <2>9. CASE RemoveStatusQueue(c)
    <3> USE <2>9 DEF RemoveStatusQueue
    <3>1. ConnTypeOK' BY DEF ConnTypeOK, HandlerStates, Final
    <3>2. MapTypeOK' BY DEF MapTypeOK
    <3>3. RouterTypeOK' BY DEF RouterTypeOK
    <3> QED BY <3>1, <3>2, <3>3
  <2> QED BY <1>1, <2>1, <2>2, <2>3, <2>4, <2>5, <2>6, <2>7, <2>8, <2>9 DEF HandlerStep
<1>2. ASSUME NEW c \in Conns, ReadFails(c) \/ ClientStep(c)
      PROVE TypeOK'
  <2>1. CASE ReadFails(c)
    <3> USE <2>1 DEF ReadFails
    <3>1. ConnTypeOK' BY DEF ConnTypeOK, HandlerStates, Final
    <3>2. MapTypeOK' BY DEF MapTypeOK
    <3>3. RouterTypeOK' BY DEF RouterTypeOK
    <3> QED BY <3>1, <3>2, <3>3
  <2>2. CASE Connect(c)
    <3> USE <2>2 DEF Connect
    <3>1. ConnTypeOK' BY DEF ConnTypeOK, HandlerStates, Final
    <3>2. MapTypeOK' BY DEF MapTypeOK
    <3>3. RouterTypeOK' BY DEF RouterTypeOK
    <3> QED BY <3>1, <3>2, <3>3
  <2>3. CASE ClientClose(c)
    <3> USE <2>3 DEF ClientClose
    <3>1. ConnTypeOK' BY DEF ConnTypeOK, HandlerStates, Final
    <3>2. MapTypeOK' BY DEF MapTypeOK
    <3>3. RouterTypeOK' BY DEF RouterTypeOK
    <3> QED BY <3>1, <3>2, <3>3
  <2>4. CASE ClientAnswers(c)
    <3> USE <2>4 DEF ClientAnswers
    <3>1. ConnTypeOK' BY DEF ConnTypeOK, HandlerStates, Final
    <3>2. MapTypeOK' BY DEF MapTypeOK
    <3>3. RouterTypeOK' BY DEF RouterTypeOK
    <3> QED BY <3>1, <3>2, <3>3
  <2> QED BY <1>2, <2>1, <2>2, <2>3, <2>4 DEF ClientStep
<1>3. ASSUME NEW r \in Routers, RouterStep(r)
      PROVE TypeOK'
  <2>1. CASE FindConnection(r)
    <3> USE <2>1 DEF FindConnection
    <3>1. ConnTypeOK' BY DEF ConnTypeOK, HandlerStates, Final
    <3>2. MapTypeOK' BY DEF MapTypeOK
    <3>3. RouterTypeOK' BY DEF RouterTypeOK, MapTypeOK
    <3> QED BY <3>1, <3>2, <3>3
  <2>2. CASE WriteEnvelope(r)
    <3> USE <2>2 DEF WriteEnvelope
    <3>1. ConnTypeOK'
      <4>1. rconn[r] \in Conns /\ written + 1 \in Nat BY DEF RouterTypeOK
      <4>2. inbox[rconn[r]] \in Seq(Nat) BY <4>1 DEF ConnTypeOK
      <4>3. Append(inbox[rconn[r]], written + 1) \in Seq(Nat)
        BY <4>1, <4>2, AppendProperties
      <4>4. inbox' \in [Conns -> Seq(Nat)]
        BY <4>1, <4>3 DEF ConnTypeOK
      <4> QED BY <4>4 DEF ConnTypeOK
    <3>2. MapTypeOK'
      <4>1. concurrent' \in BOOLEAN BY DEF NoteConcurrency
      <4> QED BY <4>1 DEF MapTypeOK
    <3>3. RouterTypeOK'
      <4>1. written' \in 0..MaxEnvelopes /\ written + 1 \in Nat BY DEF RouterTypeOK
      <4>2. renv' \in [Routers -> Nat] BY <4>1 DEF RouterTypeOK
      <4>3. /\ rpc' \in [Routers -> {"idle", "write", "await", "wait"}]
            /\ rconn' \in [Routers -> Conns \cup {NoConn}]
            /\ \A q \in Routers : rconn'[q] = NoConn <=> rpc'[q] = "idle"
        BY DEF RouterTypeOK
      <4> QED BY <4>1, <4>2, <4>3 DEF RouterTypeOK
    <3> QED BY <3>1, <3>2, <3>3
  <2>3. CASE FindQueue(r)
    <3> USE <2>3 DEF FindQueue
    <3>1. ConnTypeOK' BY DEF ConnTypeOK, HandlerStates, Final
    <3>2. MapTypeOK' BY DEF MapTypeOK
    <3>3. RouterTypeOK' BY DEF RouterTypeOK, MapTypeOK
    <3> QED BY <3>1, <3>2, <3>3
  <2>4. CASE ReceiveStatus(r)
    <3> USE <2>4 DEF ReceiveStatus, Take, RouterReturns
    <3>1. ConnTypeOK' BY DEF ConnTypeOK, HandlerStates, Final
    <3>2. MapTypeOK' BY DEF MapTypeOK, RouterTypeOK
    <3>3. RouterTypeOK' BY DEF RouterTypeOK, MapTypeOK
    <3> QED BY <3>1, <3>2, <3>3
  <2>5. CASE StatusTimeout(r)
    <3> USE <2>5 DEF StatusTimeout, RouterReturns
    <3>1. ConnTypeOK' BY DEF ConnTypeOK, HandlerStates, Final
    <3>2. MapTypeOK' BY DEF MapTypeOK
    <3>3. RouterTypeOK' BY DEF RouterTypeOK
    <3> QED BY <3>1, <3>2, <3>3
  <2> QED BY <1>3, <2>1, <2>2, <2>3, <2>4, <2>5 DEF RouterStep
<1>4. CASE UNCHANGED vars
  BY <1>4 DEF ConnTypeOK, MapTypeOK, RouterTypeOK
<1> QED
  BY <1>1, <1>2, <1>3, <1>4 DEF Next

\* The variables of DelegateSession always have their types, and no status
\* channel ever holds more than its capacity.
THEOREM TypeCorrect == Spec => []TypeOK
BY TypeInit, TypeNext, PTL DEF Spec

-----------------------------------------------------------------------------

\* A step that does not make connections overlap keeps SerialInv: the previous
\* handler has returned at every Connect, so that only the live handler writes
\* the two entries of the address.
LEMMA SerialNext ==
  ASSUME TypeOK, SerialInv, ~ overlapped', [Next]_vars
  PROVE SerialInv'
<1> USE DEF SerialInv, Live, Final, TypeOK, ConnTypeOK
<1>1. ASSUME NEW c \in Conns, HandlerStep(c)
      PROVE SerialInv'
  <2>1. CASE RefuseRegistration(c) BY <2>1 DEF RefuseRegistration
  <2>2. CASE AddRecord(c) BY <2>2 DEF AddRecord
  <2>3. CASE AddConnection(c) BY <2>3 DEF AddConnection
  <2>4. CASE AddStatusQueue(c) BY <2>4 DEF AddStatusQueue, MakeQueue
  <2>5. CASE Announce(c) BY <2>5 DEF Announce
  <2>6. CASE ReadStatus(c) BY <2>6 DEF ReadStatus
  <2>7. CASE PushStatus(c) BY <2>7 DEF PushStatus
  <2>8. CASE RemoveConnection(c) BY <2>8 DEF RemoveConnection
  <2>9. CASE RemoveStatusQueue(c) BY <2>9 DEF RemoveStatusQueue
  <2> QED BY <1>1, <2>1, <2>2, <2>3, <2>4, <2>5, <2>6, <2>7, <2>8, <2>9 DEF HandlerStep
<1>2. ASSUME NEW c \in Conns, ReadFails(c) \/ ClientStep(c)
      PROVE SerialInv'
  <2>1. CASE ReadFails(c) BY <2>1 DEF ReadFails
  <2>2. CASE Connect(c) BY <2>2 DEF Connect
  <2>3. CASE ClientClose(c) BY <2>3 DEF ClientClose
  <2>4. CASE ClientAnswers(c) BY <2>4 DEF ClientAnswers
  <2> QED BY <1>2, <2>1, <2>2, <2>3, <2>4 DEF ClientStep
<1>3. ASSUME NEW r \in Routers, RouterStep(r)
      PROVE SerialInv'
  BY <1>3 DEF RouterStep, FindConnection, WriteEnvelope, FindQueue, ReceiveStatus,
     StatusTimeout
<1>4. CASE UNCHANGED vars
  BY <1>4
<1> QED
  BY <1>1, <1>2, <1>3, <1>4 DEF Next

\* Initially no handler is live.
LEMMA SerialInit == Init => SerialInv
BY DEF Init, SerialInv, Live

\* Once connections have overlapped, the history says so for ever.
LEMMA OverlapStays ==
  ASSUME overlapped, [Next]_vars
  PROVE  overlapped'
BY DEF Next, HandlerStep, ClientStep, RouterStep, RefuseRegistration, AddRecord, AddConnection,
       AddStatusQueue, Announce, ReadStatus, PushStatus, RemoveConnection, RemoveStatusQueue,
       ReadFails, Connect, ClientClose, ClientAnswers, FindConnection, WriteEnvelope, FindQueue,
       ReceiveStatus, StatusTimeout

\* SerialInv holds until connections overlap.
LEMMA SerialCorrect == Spec => [](~ overlapped => SerialInv)
<1>1. TypeOK /\ (~ overlapped => SerialInv) /\ [Next]_vars => (~ overlapped => SerialInv)'
  BY SerialNext, OverlapStays
<1> QED BY <1>1, SerialInit, TypeCorrect, PTL DEF Spec

\* As long as an agent only connects again after the handler of its previous
\* connection has returned, tcpAddresses and acnStatuses lead to the connection
\* being served, for as long as it is served.
THEOREM ServedIsMappedCorrect == Spec => []ServedIsMapped
<1>1. (~ overlapped => SerialInv) => ServedIsMapped
  BY DEF SerialInv, ServedIsMapped, Active
<1> QED BY <1>1, SerialCorrect, PTL

-----------------------------------------------------------------------------

\* Every step keeps MappedIsServed: the only handler that leaves the states in
\* which it may be mapped has just deleted the entry, whosever it was.
LEMMA MappedNext ==
  ASSUME TypeOK, MappedIsServed, [Next]_vars
  PROVE MappedIsServed'
<1> USE DEF MappedIsServed, TypeOK, ConnTypeOK
<1>1. ASSUME NEW c \in Conns, HandlerStep(c)
      PROVE MappedIsServed'
  <2>1. CASE RefuseRegistration(c) BY <2>1 DEF RefuseRegistration
  <2>2. CASE AddRecord(c) BY <2>2 DEF AddRecord
  <2>3. CASE AddConnection(c) BY <2>3 DEF AddConnection
  <2>4. CASE AddStatusQueue(c) BY <2>4 DEF AddStatusQueue, MakeQueue
  <2>5. CASE Announce(c)
    <3>1. CASE tcpAddresses = c BY <2>5, <3>1 DEF Announce
    <3>2. CASE tcpAddresses # c BY <2>5, <3>2 DEF Announce, MapTypeOK
    <3> QED BY <3>1, <3>2
  <2>6. CASE ReadStatus(c) BY <2>6 DEF ReadStatus
  <2>7. CASE PushStatus(c) BY <2>7 DEF PushStatus
  <2>8. CASE RemoveConnection(c) BY <2>8 DEF RemoveConnection
  <2>9. CASE RemoveStatusQueue(c) BY <2>9 DEF RemoveStatusQueue
  <2> QED BY <1>1, <2>1, <2>2, <2>3, <2>4, <2>5, <2>6, <2>7, <2>8, <2>9 DEF HandlerStep
<1>2. ASSUME NEW c \in Conns, ReadFails(c) \/ ClientStep(c)
      PROVE MappedIsServed'
  <2>1. CASE ReadFails(c) BY <2>1 DEF ReadFails
  <2>2. CASE Connect(c) BY <2>2 DEF Connect
  <2>3. CASE ClientClose(c) BY <2>3 DEF ClientClose
  <2>4. CASE ClientAnswers(c) BY <2>4 DEF ClientAnswers
  <2> QED BY <1>2, <2>1, <2>2, <2>3, <2>4 DEF ClientStep
<1>3. ASSUME NEW r \in Routers, RouterStep(r)
      PROVE MappedIsServed'
  BY <1>3 DEF RouterStep, FindConnection, WriteEnvelope, FindQueue, ReceiveStatus,
     StatusTimeout
<1>4. CASE UNCHANGED vars
  BY <1>4
<1> QED
  BY <1>1, <1>2, <1>3, <1>4 DEF Next

\* Whatever the overlap of connections, an entry of tcpAddresses leads to a
\* handler that has not removed it yet, or to one whose announcement failed.
THEOREM MappedIsServedCorrect == Spec => []MappedIsServed
<1>1. Init => MappedIsServed
  BY DEF Init, MappedIsServed
<1>2. TypeOK /\ MappedIsServed /\ [Next]_vars => MappedIsServed'
  BY MappedNext
<1> QED BY <1>1, <1>2, TypeCorrect, PTL DEF Spec

-----------------------------------------------------------------------------
(* The gauge.                                                               *)

\* The connections that the gauge should count, and those that it should not.  They are
\* finitely many because every step adds one at most.
Served == {c \in Conns : Active(c)}
Refused == {c \in Conns : cpc[c] = "refused"}
GaugeInv == IsFiniteSet(Served) /\ IsFiniteSet(Refused) /\ GaugeDrift

\* The gauge stays, and neither set changes.
LEMMA GaugeSame ==
  ASSUME GaugeInv, UNCHANGED nbrConns,
         \A c \in Conns : (Active(c)' <=> Active(c)) /\ (cpc'[c] = "refused" <=> cpc[c] = "refused")
  PROVE  GaugeInv'
<1>1. Served' = Served /\ Refused' = Refused BY DEF Served, Refused
<1> QED BY <1>1 DEF GaugeInv, GaugeDrift, Served, Refused

\* Every step changes the gauge by as much as the numbers of connections differ.
LEMMA GaugeNext == TypeOK /\ GaugeInv /\ [Next]_vars => GaugeInv'
<1> SUFFICES ASSUME TypeOK, GaugeInv, [Next]_vars PROVE GaugeInv' OBVIOUS
<1>0. /\ nbrConns \in Int /\ IsFiniteSet(Served) /\ IsFiniteSet(Refused)
      /\ Cardinality(Served) \in Nat /\ Cardinality(Refused) \in Nat
      /\ nbrConns = Cardinality(Served) - Cardinality(Refused)
      /\ DOMAIN cpc = Conns
  BY FS_CardinalityType DEF GaugeInv, GaugeDrift, Served, Refused, TypeOK, MapTypeOK, ConnTypeOK
<1>1. ASSUME NEW c \in Conns, RefuseRegistration(c) PROVE GaugeInv'
  <2>1. Served' = Served /\ Refused' = Refused \cup {c} /\ c \notin Refused
    BY <1>0, <1>1 DEF RefuseRegistration, Served, Refused, Active
  <2>2. IsFiniteSet(Refused') /\ Cardinality(Refused') = Cardinality(Refused) + 1
    BY <1>0, <2>1, FS_AddElement
  <2>3. nbrConns' = nbrConns - 1 BY <1>1 DEF RefuseRegistration
  <2>4. nbrConns' = Cardinality(Served') - Cardinality(Refused') BY <1>0, <2>1, <2>2, <2>3
  <2> QED BY <1>0, <2>1, <2>2, <2>4 DEF GaugeInv, GaugeDrift, Served, Refused
<1>2. ASSUME NEW c \in Conns, Announce(c) PROVE GaugeInv'
  <2>1. CASE cpc' = [cpc EXCEPT ![c] = "loop"] /\ nbrConns' = nbrConns + 1
    <3>1. Refused' = Refused /\ Served' = Served \cup {c} /\ c \notin Served
      BY <1>0, <1>2, <2>1 DEF Announce, Served, Refused, Active
    <3>2. IsFiniteSet(Served') /\ Cardinality(Served') = Cardinality(Served) + 1
      BY <1>0, <3>1, FS_AddElement
    <3>3. nbrConns' = Cardinality(Served') - Cardinality(Refused') BY <1>0, <2>1, <3>1, <3>2
    <3> QED BY <1>0, <3>1, <3>2, <3>3 DEF GaugeInv, GaugeDrift, Served, Refused
  <2>2. CASE cpc' = [cpc EXCEPT ![c] = "unannounced"] /\ UNCHANGED nbrConns
    BY <1>0, <1>2, <2>2, GaugeSame DEF Announce, Active
  <2> QED BY <1>2, <2>1, <2>2 DEF Announce
<1>3. ASSUME NEW c \in Conns, ReadFails(c) PROVE GaugeInv'
  <2>1. Refused' = Refused /\ Served' = Served \ {c} /\ c \in Served
    BY <1>0, <1>3 DEF ReadFails, Served, Refused, Active
  <2>2. IsFiniteSet(Served') /\ Cardinality(Served') = Cardinality(Served) - 1
    BY <1>0, <2>1, FS_RemoveElement
  <2>3. nbrConns' = nbrConns - 1 BY <1>3 DEF ReadFails
  <2>4. nbrConns' = Cardinality(Served') - Cardinality(Refused') BY <1>0, <2>1, <2>2, <2>3
  <2> QED BY <1>0, <2>1, <2>2, <2>4 DEF GaugeInv, GaugeDrift, Served, Refused
<1>4. ASSUME NEW c \in Conns,
             \/ AddRecord(c) \/ AddConnection(c) \/ AddStatusQueue(c) \/ ReadStatus(c)
             \/ PushStatus(c) \/ RemoveConnection(c) \/ RemoveStatusQueue(c) \/ Connect(c)
      PROVE  GaugeInv'
  <2>1. UNCHANGED nbrConns
    BY <1>4 DEF AddRecord, AddConnection, AddStatusQueue, ReadStatus, PushStatus,
                RemoveConnection, RemoveStatusQueue, Connect
  <2>2. \A d \in Conns : (Active(d)' <=> Active(d)) /\ (cpc'[d] = "refused" <=> cpc[d] = "refused")
    BY <1>0, <1>4 DEF AddRecord, AddConnection, AddStatusQueue, ReadStatus, PushStatus,
                RemoveConnection, RemoveStatusQueue, Connect, Active
  <2> QED BY <2>1, <2>2, GaugeSame
<1>5. ASSUME \/ \E c \in Conns : ClientClose(c) \/ ClientAnswers(c)
             \/ \E r \in Routers : RouterStep(r)
             \/ UNCHANGED vars
      PROVE  GaugeInv'
  <2>1. UNCHANGED <<nbrConns, cpc>>
    BY <1>5 DEF ClientClose, ClientAnswers, RouterStep, FindConnection, WriteEnvelope, FindQueue,
                ReceiveStatus, StatusTimeout
  <2> QED BY <2>1, GaugeSame DEF Active
<1> QED BY <1>1, <1>2, <1>3, <1>4, <1>5 DEF Next, HandlerStep, ClientStep

\* The gauge of delegate clients is off by exactly the number of refused registrations,
\* for any number of connections.
THEOREM GaugeDriftCorrect == Spec => []GaugeDrift
<1>1. Init => GaugeInv
  <2> SUFFICES ASSUME Init PROVE GaugeInv OBVIOUS
  <2>1. Served = {} /\ Refused = {} BY DEF Init, Served, Refused, Active
  <2>2. IsFiniteSet(Served) /\ IsFiniteSet(Refused) /\ Cardinality(Served) = 0
        /\ Cardinality(Refused) = 0
    BY <2>1, FS_EmptySet
  <2>3. nbrConns = 0 BY DEF Init
  <2> QED BY <2>2, <2>3 DEF GaugeInv, GaugeDrift, Served, Refused
<1> QED BY <1>1, GaugeNext, TypeCorrect, PTL DEF Spec, GaugeInv

-----------------------------------------------------------------------------
(* The statuses.                                                            *)

\* x is an envelope that the client has yet to answer, or a status on its way to the
\* thread that will take it.
In(q, x) == \E i \in 1..Len(q) : q[i] = x
Pending(x) ==
    \E c \in Conns :
        \/ In(inbox[c], x) \/ In(upstream[c], x) \/ In(statuses[c], x)
        \/ cpc[c] = "push" /\ pushing[c] = x

\* There is nothing on its way, or the last envelope alone.
Void(f) == \A c \in Conns : f[c] = <<>>
Only(f, c) == f[c] = <<written>> /\ \A d \in Conns : d # c => f[d] = <<>>
NoPush == \A c \in Conns : cpc[c] # "push"
OnlyPush(c) ==
    /\ cpc[c] = "push" /\ pushing[c] = written
    /\ \A d \in Conns : d # c => cpc[d] # "push"
Nothing == Void(inbox) /\ Void(upstream) /\ NoPush /\ Void(statuses)
One(c) ==
    \/ Only(inbox, c) /\ Void(upstream) /\ NoPush /\ Void(statuses)
    \/ Void(inbox) /\ Only(upstream, c) /\ NoPush /\ Void(statuses)
    \/ Void(inbox) /\ Void(upstream) /\ OnlyPush(c) /\ Void(statuses)
    \/ Void(inbox) /\ Void(upstream) /\ NoPush /\ Only(statuses, c)

\* One thread at a time waits, for the last envelope.  Before the first timeout nothing
\* is on its way but this envelope or its status; after it, nothing that is older than an
\* envelope whose wait has timed out.
TurnInv ==
    /\ \A q, r \in Routers : Waiting(q) /\ Waiting(r) => q = r
    /\ \A r \in Routers : Waiting(r) => renv[r] = written
    /\ \A e \in timedOut : e <= written
FlowInv ==
    /\ \A x : Pending(x) => x \in Nat /\ x <= written
    /\ timedOut = {} => Nothing \/ \E r \in Routers : Waiting(r) /\ \E c \in Conns : One(c)
    /\ timedOut # {} => \A x : Pending(x) => \E e \in timedOut : e <= x
Confirms == \A x \in confirmed : x[1] = x[2] \/ (x[2] < x[1] /\ \E e \in timedOut : e <= x[2])
LateInv == TurnInv /\ FlowInv /\ Confirms

\* What is on its way is somewhere.
LEMMA OneIsPending ==
  ASSUME TypeOK, NEW x, Pending(x)
  PROVE  ~ Nothing /\ \A c \in Conns : One(c) => x = written
<1>0. Len(<<>>) = 0 BY EmptySeq
<1>1. \A y : ~ In(<<>>, y) BY <1>0 DEF In
<1>2. ASSUME NEW y, In(<<y>>, x) PROVE x = y BY <1>2 DEF In
<1>3. PICK d \in Conns : \/ In(inbox[d], x) \/ In(upstream[d], x) \/ In(statuses[d], x)
                         \/ cpc[d] = "push" /\ pushing[d] = x
  BY DEF Pending
<1>4. ~ Nothing BY <1>1, <1>3 DEF Nothing, Void, NoPush
<1>5. ASSUME NEW f, NEW c \in Conns, Only(f, c), In(f[d], x) PROVE x = written
  BY <1>1, <1>2, <1>5 DEF Only
<1>6. ASSUME NEW f, Void(f) PROVE ~ In(f[d], x) BY <1>1, <1>6 DEF Void
<1>7. ASSUME NEW c \in Conns, One(c) PROVE x = written
  <2>1. CASE Only(inbox, c) /\ Void(upstream) /\ NoPush /\ Void(statuses)
    BY <1>3, <1>5, <1>6, <2>1 DEF NoPush
  <2>2. CASE Void(inbox) /\ Only(upstream, c) /\ NoPush /\ Void(statuses)
    BY <1>3, <1>5, <1>6, <2>2 DEF NoPush
  <2>3. CASE Void(inbox) /\ Void(upstream) /\ OnlyPush(c) /\ Void(statuses)
    BY <1>3, <1>6, <2>3 DEF OnlyPush
  <2>4. CASE Void(inbox) /\ Void(upstream) /\ NoPush /\ Only(statuses, c)
    BY <1>3, <1>5, <1>6, <2>4 DEF NoPush
  <2> QED BY <1>7, <2>1, <2>2, <2>3, <2>4 DEF One
<1> QED BY <1>4, <1>7

\* A status or an envelope moves on, or stays where it is.
LEMMA FlowMoves ==
  ASSUME LateInv, UNCHANGED <<rpc, renv, written, confirmed, timedOut>>,
         \A x : Pending(x)' => Pending(x),
         Nothing => Nothing',
         \A c \in Conns : One(c) => \E d \in Conns : One(d)'
  PROVE  LateInv'
<1>1. \A r : Waiting(r)' <=> Waiting(r) BY DEF Waiting
<1>2. TurnInv' BY <1>1 DEF LateInv, TurnInv
<1>3. FlowInv'
  <2>1. timedOut = {} => Nothing' \/ \E r \in Routers : Waiting(r)' /\ \E c \in Conns : One(c)'
    BY <1>1 DEF LateInv, FlowInv
  <2>2. \A x : Pending(x)' => x \in Nat /\ x <= written BY DEF LateInv, FlowInv
  <2>3. timedOut # {} => \A x : Pending(x)' => \E e \in timedOut : e <= x
    BY DEF LateInv, FlowInv
  <2> QED BY <2>1, <2>2, <2>3 DEF FlowInv
<1>4. Confirms' BY DEF LateInv, Confirms
<1> QED BY <1>2, <1>3, <1>4 DEF LateInv

\* The numbers in a queue after a send and after a receive.
LEMMA InAppended ==
  ASSUME NEW q \in Seq(Nat), NEW n \in Nat
  PROVE  \A x : In(Append(q, n), x) => In(q, x) \/ x = n
BY AppendProperties, LenProperties DEF In
LEMMA InTail ==
  ASSUME NEW q \in Seq(Nat), q # <<>>
  PROVE  /\ Head(q) \in Nat /\ Tail(q) \in Seq(Nat) /\ In(q, Head(q))
         /\ \A x : In(Tail(q), x) => In(q, x)
<1>1. /\ Head(q) \in Nat /\ Tail(q) \in Seq(Nat) /\ Head(q) = q[1] /\ Len(q) \in Nat \ {0}
      /\ Len(Tail(q)) = Len(q) - 1
      /\ \A i \in 1..Len(Tail(q)) : Tail(q)[i] = q[i + 1] /\ i + 1 \in 1..Len(q)
  BY HeadTailProperties, LenProperties, EmptySeq
<1>2. 1 \in 1..Len(q) BY <1>1
<1> QED BY <1>1, <1>2 DEF In

\* The client answers.
LEMMA LateAnswers ==
  ASSUME TypeOK, LateInv, NEW c \in Conns, ClientAnswers(c)
  PROVE  LateInv'
<1>0. /\ inbox \in [Conns -> Seq(Nat)] /\ upstream \in [Conns -> Seq(Nat)]
      /\ UNCHANGED <<rpc, renv, written, confirmed, timedOut, cpc, pushing, statuses>>
      /\ inbox[c] # <<>>
  BY DEF TypeOK, ConnTypeOK, ClientAnswers
<1>1. PICK h : h = Head(inbox[c]) OBVIOUS
<1>2. /\ h \in Nat /\ In(inbox[c], h) /\ \A x : In(Tail(inbox[c]), x) => In(inbox[c], x)
      /\ \A x : In(Append(upstream[c], h), x) => In(upstream[c], x) \/ x = h
  BY <1>0, <1>1, InTail, InAppended
<1>3. /\ inbox' = [inbox EXCEPT ![c] = Tail(inbox[c])]
      /\ upstream' = [upstream EXCEPT ![c] = Append(upstream[c], h)]
  BY <1>1 DEF ClientAnswers
<1>4. ASSUME NEW x, NEW d \in Conns
      PROVE  /\ In(inbox'[d], x) => In(inbox[d], x)
             /\ In(upstream'[d], x) => In(upstream[d], x) \/ In(inbox[d], x)
  BY <1>0, <1>2, <1>3
<1>5. \A x : Pending(x)' => Pending(x) BY <1>0, <1>4 DEF Pending
<1>6. Nothing => Nothing' BY <1>0 DEF Nothing, Void
<1>7. ASSUME NEW d \in Conns, One(d) PROVE \E b \in Conns : One(b)'
  <2>1. Only(inbox, d) /\ Void(upstream) /\ NoPush /\ Void(statuses)
    BY <1>0, <1>7 DEF One, Void
  <2>2. d = c /\ inbox[c] = <<written>> /\ upstream[c] = <<>> BY <1>0, <2>1 DEF Only, Void
  <2>3. h = written /\ Tail(inbox[c]) = <<>> /\ Append(upstream[c], h) = <<written>>
    BY <1>1, <2>2
  <2>4. Void(inbox)' BY <1>0, <1>3, <2>1, <2>2, <2>3 DEF Void, Only
  <2>5. Only(upstream, c)' BY <1>0, <1>3, <2>1, <2>3 DEF Void, Only
  <2>6. Void(statuses)' /\ NoPush' BY <1>0, <2>1 DEF Void, NoPush
  <2>7. One(c)' BY <2>4, <2>5, <2>6 DEF One
  <2> QED BY <2>7
<1> QED BY <1>0, <1>5, <1>6, <1>7, FlowMoves

\* The handler reads a status.
LEMMA LateReads ==
  ASSUME TypeOK, LateInv, NEW c \in Conns, ReadStatus(c)
  PROVE  LateInv'
<1>0. /\ upstream \in [Conns -> Seq(Nat)] /\ pushing \in [Conns -> Nat] /\ DOMAIN cpc = Conns
      /\ UNCHANGED <<rpc, renv, written, confirmed, timedOut, inbox, statuses>>
      /\ upstream[c] # <<>> /\ cpc[c] = "loop"
  BY DEF TypeOK, ConnTypeOK, ReadStatus
<1>1. PICK h : h = Head(upstream[c]) OBVIOUS
<1>2. /\ h \in Nat /\ In(upstream[c], h) /\ \A x : In(Tail(upstream[c]), x) => In(upstream[c], x)
  BY <1>0, <1>1, InTail
<1>3. /\ upstream' = [upstream EXCEPT ![c] = Tail(upstream[c])]
      /\ pushing' = [pushing EXCEPT ![c] = h] /\ cpc' = [cpc EXCEPT ![c] = "push"]
  BY <1>1 DEF ReadStatus
<1>4. ASSUME NEW x, NEW d \in Conns
      PROVE  /\ In(upstream'[d], x) => In(upstream[d], x)
             /\ cpc'[d] = "push" /\ pushing'[d] = x =>
                   In(upstream[d], x) \/ (cpc[d] = "push" /\ pushing[d] = x)
  BY <1>0, <1>2, <1>3
<1>5. \A x : Pending(x)' => Pending(x) BY <1>0, <1>4 DEF Pending
<1>6. ~ Nothing BY <1>0 DEF Nothing, Void
<1>7. ASSUME NEW d \in Conns, One(d) PROVE \E b \in Conns : One(b)'
  <2>1. Void(inbox) /\ Only(upstream, d) /\ NoPush /\ Void(statuses)
    BY <1>0, <1>7 DEF One, Void
  <2>2. d = c /\ upstream[c] = <<written>> BY <1>0, <2>1 DEF Only
  <2>3. h = written /\ Tail(upstream[c]) = <<>> BY <1>1, <2>2
  <2>4. Void(upstream)' BY <1>0, <1>3, <2>1, <2>2, <2>3 DEF Void, Only
  <2>5. OnlyPush(c)' BY <1>0, <1>3, <2>1, <2>3 DEF NoPush, OnlyPush
  <2>6. Void(statuses)' /\ Void(inbox)' BY <1>0, <2>1 DEF Void
  <2>7. One(c)' BY <2>4, <2>5, <2>6 DEF One
  <2> QED BY <2>7
<1> QED BY <1>0, <1>5, <1>6, <1>7, FlowMoves

\* The handler queues it, in whichever channel it found.
LEMMA LatePushes ==
  ASSUME TypeOK, LateInv, NEW c \in Conns, PushStatus(c)
  PROVE  LateInv'
<1>0. /\ statuses \in [Conns -> Seq(Nat)] /\ pushing \in [Conns -> Nat] /\ DOMAIN cpc = Conns
      /\ UNCHANGED <<rpc, renv, written, confirmed, timedOut, inbox, upstream>>
      /\ cpc[c] = "push" /\ pushTo[c] \in Conns
  BY DEF TypeOK, ConnTypeOK, MapTypeOK, PushStatus
<1>1. PICK b \in Conns : b = pushTo[c] BY <1>0
<1>2. PICK h \in Nat : h = pushing[c] BY <1>0
<1>3. \A x : In(Append(statuses[b], h), x) => In(statuses[b], x) \/ x = h
  BY <1>0, InAppended
<1>4. /\ statuses' = [statuses EXCEPT ![b] = Append(statuses[b], h)]
      /\ pushing' = [pushing EXCEPT ![c] = 0] /\ cpc' = [cpc EXCEPT ![c] = "loop"]
  BY <1>1, <1>2 DEF PushStatus
<1>5. Pending(h) BY <1>0, <1>2 DEF Pending
<1>6. ASSUME NEW x, NEW d \in Conns
      PROVE  /\ In(statuses'[d], x) => In(statuses[d], x) \/ x = h
             /\ cpc'[d] = "push" /\ pushing'[d] = x => cpc[d] = "push" /\ pushing[d] = x
  BY <1>0, <1>3, <1>4
<1>7. \A x : Pending(x)' => Pending(x) BY <1>0, <1>5, <1>6 DEF Pending
<1>8. ~ Nothing BY <1>0 DEF Nothing, NoPush
<1>9. ASSUME NEW d \in Conns, One(d) PROVE \E a \in Conns : One(a)'
  <2>1. Void(inbox) /\ Void(upstream) /\ OnlyPush(d) /\ Void(statuses)
    BY <1>0, <1>9 DEF One, NoPush
  <2>2. d = c /\ h = written /\ statuses[b] = <<>> BY <1>0, <1>2, <2>1 DEF OnlyPush, Void
  <2>3. Append(statuses[b], h) = <<written>> BY <2>2
  <2>4. Only(statuses, b)' BY <1>0, <1>4, <2>1, <2>3 DEF Void, Only
  <2>5. NoPush' BY <1>0, <1>4, <2>1, <2>2 DEF NoPush, OnlyPush
  <2>6. Void(inbox)' /\ Void(upstream)' BY <1>0, <2>1 DEF Void
  <2>7. One(b)' BY <2>4, <2>5, <2>6 DEF One
  <2> QED BY <2>7
<1> QED BY <1>0, <1>7, <1>8, <1>9, FlowMoves

\* The other steps of handlers and clients move nothing.
LEMMA LateQuiet ==
  ASSUME LateInv, UNCHANGED <<rpc, renv, written, confirmed, timedOut>>,
         UNCHANGED <<inbox, upstream, statuses, pushing>>,
         \A c \in Conns : cpc'[c] = "push" <=> cpc[c] = "push"
  PROVE  LateInv'
<1>1. \A x : Pending(x)' => Pending(x) BY DEF Pending
<1>2. Nothing => Nothing' BY DEF Nothing, Void, NoPush
<1>3. ASSUME NEW c \in Conns, One(c) PROVE One(c)'
  <2>1. NoPush => NoPush' BY DEF NoPush
  <2>2. OnlyPush(c) => OnlyPush(c)' BY DEF OnlyPush
  <2>3. /\ Void(inbox) => Void(inbox)'
        /\ Void(upstream) => Void(upstream)'
        /\ Void(statuses) => Void(statuses)'
    BY DEF Void
  <2>4. /\ Only(inbox, c) => Only(inbox, c)'
        /\ Only(upstream, c) => Only(upstream, c)'
        /\ Only(statuses, c) => Only(statuses, c)'
    BY DEF Only
  <2> QED BY <1>3, <2>1, <2>2, <2>3, <2>4 DEF One
<1> QED BY <1>1, <1>2, <1>3, FlowMoves

\* A thread writes while no other waits: what comes after is the only thing on its way,
\* or newer than a timeout.
LEMMA LateWrites ==
  ASSUME TypeOK, LateInv, NEW r \in Routers, WriteEnvelope(r), ~ concurrent'
  PROVE  LateInv'
<1>0. /\ inbox \in [Conns -> Seq(Nat)] /\ written \in Nat /\ rconn[r] \in Conns
      /\ DOMAIN rpc = Routers /\ DOMAIN renv = Routers
  BY DEF TypeOK, ConnTypeOK, RouterTypeOK, WriteEnvelope
<1>1. /\ UNCHANGED <<confirmed, timedOut, cpc, pushing, upstream, statuses>>
      /\ written' = written + 1 /\ rpc[r] = "write"
  BY DEF WriteEnvelope
<1>2. \A q \in Routers : ~ Waiting(q) BY <1>1 DEF WriteEnvelope, NoteConcurrency, Waiting
<1>3. \A q \in Routers : q # r => ~ Waiting(q)' BY <1>0, <1>2 DEF WriteEnvelope, Waiting
<1>4. Waiting(r)' => renv'[r] = written + 1 BY <1>0 DEF WriteEnvelope, Waiting
<1>5. TurnInv'
  <2>1. \A e \in timedOut : e <= written + 1 BY <1>0 DEF LateInv, TurnInv, TypeOK, RouterTypeOK
  <2> QED BY <1>1, <1>3, <1>4, <2>1 DEF TurnInv
<1>6. Confirms' BY <1>1 DEF LateInv, Confirms
<1>7. timedOut = {} => Nothing BY <1>2 DEF LateInv, FlowInv
<1>8. CASE UNCHANGED inbox
  <2>1. \A x : Pending(x)' => Pending(x) BY <1>1, <1>8 DEF Pending
  <2>2. Nothing => Nothing' BY <1>1, <1>8 DEF Nothing, Void, NoPush
  <2>3. \A x : Pending(x)' => x \in Nat /\ x <= written + 1 BY <1>0, <2>1 DEF LateInv, FlowInv
  <2>4. timedOut # {} => \A x : Pending(x)' => \E e \in timedOut : e <= x
    BY <2>1 DEF LateInv, FlowInv
  <2>5. FlowInv' BY <1>1, <1>7, <2>2, <2>3, <2>4 DEF FlowInv
  <2> QED BY <1>5, <1>6, <2>5 DEF LateInv
<1>9. CASE inbox' # inbox
  <2>1. PICK b \in Conns : b = rconn[r] BY <1>0
  <2>2. PICK n \in Nat : n = written + 1 BY <1>0
  <2>3. inbox' = [inbox EXCEPT ![b] = Append(inbox[b], n)] /\ Waiting(r)'
    BY <1>0, <1>9, <2>1, <2>2 DEF WriteEnvelope, Waiting
  <2>4. \A x : In(Append(inbox[b], n), x) => In(inbox[b], x) \/ x = n BY <1>0, InAppended
  <2>5. ASSUME NEW x, NEW d \in Conns PROVE In(inbox'[d], x) => In(inbox[d], x) \/ x = n
    BY <1>0, <2>3, <2>4
  <2>6. \A x : Pending(x)' => Pending(x) \/ x = n BY <1>1, <2>5 DEF Pending
  <2>7. \A x : Pending(x)' => x \in Nat /\ x <= n BY <1>0, <2>2, <2>6 DEF LateInv, FlowInv
  <2>8. timedOut # {} => \A x : Pending(x)' => \E e \in timedOut : e <= x
    <3>1. \A e \in timedOut : e \in Nat /\ e <= n
      BY <1>0, <2>2 DEF LateInv, TurnInv, TypeOK, RouterTypeOK
    <3> QED BY <2>6, <3>1 DEF LateInv, FlowInv
  <2>9. ASSUME Nothing PROVE One(b)'
    <3>1. inbox[b] = <<>> BY <2>9 DEF Nothing, Void
    <3>2. Append(inbox[b], n) = <<n>> BY <3>1
    <3>3. Only(inbox, b)' BY <1>0, <1>1, <2>2, <2>3, <2>9, <3>2 DEF Nothing, Void, Only
    <3>4. Void(upstream)' /\ NoPush' /\ Void(statuses)' BY <1>1, <2>9 DEF Nothing, Void, NoPush
    <3> QED BY <3>3, <3>4 DEF One
  <2>10. FlowInv' BY <1>1, <1>7, <2>2, <2>3, <2>7, <2>8, <2>9 DEF FlowInv
  <2> QED BY <1>5, <1>6, <2>10 DEF LateInv
<1> QED BY <1>8, <1>9

\* A thread is done waiting.
LEMMA LateReturns ==
  ASSUME TypeOK, LateInv, NEW r \in Routers, Waiting(r), RouterReturns(r),
         UNCHANGED written, \A e \in timedOut' : e \in timedOut \/ e = renv[r]
  PROVE  /\ TurnInv' /\ renv[r] = written
<1>0. /\ DOMAIN rpc = Routers /\ DOMAIN renv = Routers /\ written \in Nat
  BY DEF TypeOK, RouterTypeOK
<1>1. renv[r] = written BY DEF LateInv, TurnInv
<1>2. \A q \in Routers : Waiting(q)' => q # r /\ Waiting(q) /\ renv'[q] = renv[q]
  BY <1>0 DEF RouterReturns, Waiting
<1>3. \A e \in timedOut' : e <= written BY <1>0, <1>1 DEF LateInv, TurnInv
<1> QED BY <1>1, <1>2, <1>3 DEF LateInv, TurnInv

\* It has taken a status: its own, or one that is late.
LEMMA LateReceives ==
  ASSUME TypeOK, LateInv, NEW r \in Routers, ReceiveStatus(r)
  PROVE  LateInv'
<1>0. /\ statuses \in [Conns -> Seq(Nat)] /\ written \in Nat /\ rqueue[r] \in Conns
      /\ UNCHANGED <<inbox, upstream, pushing, cpc, written, timedOut>> /\ Waiting(r)
      /\ RouterReturns(r) /\ timedOut \subseteq Nat
  <2>1. /\ UNCHANGED <<inbox, upstream, pushing, cpc, written, timedOut>>
        /\ Waiting(r) /\ RouterReturns(r)
    BY DEF ReceiveStatus, Waiting
  <2>2. statuses \in [Conns -> Seq(Nat)] /\ written \in Nat /\ timedOut \subseteq Nat
    BY DEF TypeOK, ConnTypeOK, MapTypeOK, RouterTypeOK
  <2>3. rqueue[r] \in Conns
    BY DEF TypeOK, RouterTypeOK, ReceiveStatus, Waiting
  <2> QED BY <2>1, <2>2, <2>3
<1>1. PICK b \in Conns : b = rqueue[r] BY <1>0
<1>2. PICK h : h = Head(statuses[b]) OBVIOUS
<1>3. /\ statuses[b] # <<>> /\ statuses' = [statuses EXCEPT ![b] = Tail(statuses[b])]
      /\ confirmed' = confirmed \cup {<<renv[r], h>>}
  BY <1>1, <1>2 DEF ReceiveStatus, Take
<1>4. /\ h \in Nat /\ In(statuses[b], h) /\ \A x : In(Tail(statuses[b]), x) => In(statuses[b], x)
  BY <1>0, <1>2, <1>3, InTail
<1>5. TurnInv' /\ renv[r] = written BY <1>0, LateReturns
<1>6. ASSUME NEW x, NEW d \in Conns PROVE In(statuses'[d], x) => In(statuses[d], x)
  BY <1>0, <1>3, <1>4
<1>7. \A x : Pending(x)' => Pending(x) BY <1>0, <1>6 DEF Pending
<1>8. Pending(h) BY <1>4 DEF Pending
<1>9. h <= written /\ (timedOut # {} => \E e \in timedOut : e <= h) BY <1>8 DEF LateInv, FlowInv
<1>10. timedOut = {} => h = written /\ Nothing'
  <2> SUFFICES ASSUME timedOut = {} PROVE h = written /\ Nothing' OBVIOUS
  <2>1. PICK c \in Conns : One(c) BY <1>8, OneIsPending DEF LateInv, FlowInv
  <2>2. Void(inbox) /\ Void(upstream) /\ NoPush /\ Only(statuses, c)
    BY <1>3, <2>1 DEF One, Void
  <2>3. c = b /\ statuses[b] = <<written>> BY <1>3, <2>2 DEF Only
  <2>4. h = written /\ Tail(statuses[b]) = <<>> BY <1>2, <2>3
  <2>5. Void(statuses)' BY <1>0, <1>3, <2>2, <2>3, <2>4 DEF Only, Void
  <2>6. Void(inbox)' /\ Void(upstream)' /\ NoPush' BY <1>0, <2>2 DEF Void, NoPush
  <2> QED BY <2>4, <2>5, <2>6 DEF Nothing
<1>11. FlowInv' BY <1>0, <1>7, <1>10 DEF LateInv, FlowInv
<1>12. Confirms'
  <2>1. PICK p : p = <<renv[r], h>> OBVIOUS
  <2>2. p[1] = written /\ p[2] = h /\ confirmed' = confirmed \cup {p} BY <1>3, <1>5, <2>1
  <2>3. h = written \/ (h < written /\ \E e \in timedOut : e <= h) BY <1>0, <1>4, <1>9, <1>10
  <2> QED BY <1>0, <2>2, <2>3 DEF LateInv, Confirms
<1> QED BY <1>5, <1>11, <1>12 DEF LateInv

\* It has given up: whatever comes from now on is late.
LEMMA LateTimesOut ==
  ASSUME TypeOK, LateInv, NEW r \in Routers, StatusTimeout(r)
  PROVE  LateInv'
<1>0. /\ written \in Nat /\ timedOut \subseteq Nat /\ Waiting(r) /\ RouterReturns(r)
      /\ UNCHANGED <<inbox, upstream, pushing, cpc, statuses, written, confirmed>>
      /\ timedOut' = timedOut \cup {renv[r]}
  BY DEF TypeOK, RouterTypeOK, StatusTimeout, Waiting
<1>1. TurnInv' /\ renv[r] = written BY <1>0, LateReturns
<1>2. \A x : Pending(x)' <=> Pending(x) BY <1>0 DEF Pending
<1>3. \A x : Pending(x) => x \in Nat /\ x <= written BY DEF LateInv, FlowInv
<1>4. ASSUME NEW x, Pending(x) PROVE \E e \in timedOut' : e <= x
  <2>1. CASE timedOut # {} BY <1>0, <1>4, <2>1 DEF LateInv, FlowInv
  <2>2. CASE timedOut = {}
    <3>1. x = written BY <1>4, <2>2, OneIsPending DEF LateInv, FlowInv
    <3> QED BY <1>0, <1>1, <3>1
  <2> QED BY <2>1, <2>2
<1>5. FlowInv' BY <1>0, <1>2, <1>3, <1>4 DEF FlowInv
<1>6. Confirms' BY <1>0 DEF LateInv, Confirms
<1> QED BY <1>1, <1>5, <1>6 DEF LateInv

\* Every step keeps the account, until two threads deliver at the same time.
LEMMA LateNext ==
  ASSUME TypeOK, LateInv, ~ concurrent', [Next]_vars
  PROVE  LateInv'
<1>0. DOMAIN cpc = Conns /\ DOMAIN rpc = Routers BY DEF TypeOK, ConnTypeOK, RouterTypeOK
<1>1. ASSUME NEW c \in Conns,
             \/ RefuseRegistration(c) \/ AddRecord(c) \/ AddConnection(c) \/ AddStatusQueue(c)
             \/ Announce(c) \/ RemoveConnection(c) \/ RemoveStatusQueue(c) \/ ReadFails(c)
             \/ Connect(c) \/ ClientClose(c)
      PROVE  LateInv'
  <2>1. /\ UNCHANGED <<rpc, renv, written, confirmed, timedOut>>
        /\ UNCHANGED <<inbox, upstream, statuses, pushing>>
    BY <1>1 DEF RefuseRegistration, AddRecord, AddConnection, AddStatusQueue, Announce,
                RemoveConnection, RemoveStatusQueue, ReadFails, Connect, ClientClose
  <2>2. \A d \in Conns : cpc'[d] = "push" <=> cpc[d] = "push"
    BY <1>0, <1>1 DEF RefuseRegistration, AddRecord, AddConnection, AddStatusQueue, Announce,
                RemoveConnection, RemoveStatusQueue, ReadFails, Connect, ClientClose
  <2> QED BY <2>1, <2>2, LateQuiet
<1>2. ASSUME NEW r \in Routers, FindConnection(r) \/ FindQueue(r) PROVE LateInv'
  <2>1. /\ UNCHANGED <<renv, written, confirmed, timedOut>>
        /\ UNCHANGED <<inbox, upstream, statuses, pushing, cpc>>
    BY <1>2 DEF FindConnection, FindQueue
  <2>2. \A q \in Routers : Waiting(q)' <=> Waiting(q)
    BY <1>0, <1>2 DEF FindConnection, FindQueue, Waiting
  <2>3. TurnInv' BY <2>1, <2>2 DEF LateInv, TurnInv
  <2>4. \A x : Pending(x)' <=> Pending(x) BY <2>1 DEF Pending
  <2>5. Nothing' <=> Nothing BY <2>1 DEF Nothing, Void, NoPush
  <2>6. \A c \in Conns : One(c)' <=> One(c) BY <2>1 DEF One, Void, NoPush, Only, OnlyPush
  <2>7. FlowInv' BY <2>1, <2>2, <2>4, <2>5, <2>6 DEF LateInv, FlowInv
  <2>8. Confirms' BY <2>1 DEF LateInv, Confirms
  <2> QED BY <2>3, <2>7, <2>8 DEF LateInv
<1>3. CASE UNCHANGED vars BY <1>3, LateQuiet
<1> QED BY <1>1, <1>2, <1>3, LateAnswers, LateReads, LatePushes, LateWrites, LateReceives,
           LateTimesOut DEF Next, HandlerStep, ClientStep, RouterStep

\* Once two threads have delivered at the same time, the history says so for ever.
LEMMA ConcurrencyStays ==
  ASSUME concurrent, [Next]_vars
  PROVE  concurrent'
BY DEF Next, HandlerStep, ClientStep, RouterStep, RefuseRegistration, AddRecord, AddConnection,
       AddStatusQueue, Announce, ReadStatus, PushStatus, RemoveConnection, RemoveStatusQueue,
       ReadFails, Connect, ClientClose, ClientAnswers, FindConnection, WriteEnvelope, FindQueue,
       ReceiveStatus, StatusTimeout, NoteConcurrency

\* As long as envelopes are delivered one after the other, a status that is taken for the
\* wrong envelope is a late one, whichever connections come and go.
THEOREM OwnStatusUnlessLateCorrect == Spec => []OwnStatusUnlessLate
<1>1. Init => LateInv
  <2> SUFFICES ASSUME Init PROVE LateInv OBVIOUS
  <2>1. TurnInv BY DEF Init, TurnInv, Waiting
  <2>2. Nothing BY DEF Init, Nothing, Void, NoPush
  <2>3. Len(<<>>) = 0 BY EmptySeq
  <2>4. \A x : ~ Pending(x) BY <2>3 DEF Init, Pending, In
  <2>5. FlowInv BY <2>2, <2>4 DEF Init, FlowInv
  <2>6. Confirms BY DEF Init, Confirms
  <2> QED BY <2>1, <2>5, <2>6 DEF LateInv
<1>2. TypeOK /\ (~ concurrent => LateInv) /\ [Next]_vars => (~ concurrent => LateInv)'
  BY LateNext, ConcurrencyStays
<1>3. (~ concurrent => LateInv) => OwnStatusUnlessLate
  BY DEF LateInv, Confirms, OwnStatusUnlessLate
<1> QED BY <1>1, <1>2, <1>3, TypeCorrect, PTL DEF Spec
=============================================================================
