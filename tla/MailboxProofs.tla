--------------------------- MODULE MailboxProofs ---------------------------
(***************************************************************************)
(* Proofs about Mailbox, for any sessions, addresses, requests and limit.   *)
(***************************************************************************)
EXTENDS Mailbox, TLAPS

USE MailboxAssumption

\* What a step does to the variables of the threads and of the maps.
LEMMA TypeNext == TypeOK /\ [Next]_vars => TypeOK'
<1> SUFFICES ASSUME TypeOK, [Next]_vars PROVE TypeOK'
  OBVIOUS
<1> USE DEF TypeOK
<1>1. ASSUME NEW s \in Sessions, NEW a \in Addresses, apiRegister(s, a) PROVE TypeOK'
  BY <1>1 DEF apiRegister, ThreadTypeOK, BoxTypeOK, boxVars, reqVars, countVars
<1>2. ASSUME NEW s \in Sessions, RefuseRegistration(s) PROVE TypeOK'
  BY <1>2 DEF RefuseRegistration, ThreadTypeOK, BoxTypeOK, boxVars, reqVars, countVars
<1>3. ASSUME NEW s \in Sessions, StoreRegistration(s) PROVE TypeOK'
  <2>1. saddr[s] \in Addresses BY <1>3 DEF StoreRegistration, ThreadTypeOK
  <2>2. ThreadTypeOK' BY <1>3 DEF StoreRegistration, ThreadTypeOK, reqVars
  <2>3. BoxTypeOK' BY <1>3, <2>1 DEF StoreRegistration, OpenSession, BoxTypeOK
  <2> QED BY <1>3, <2>2, <2>3 DEF StoreRegistration, countVars
<1>4. ASSUME NEW s \in Sessions, apiGetEnvelope(s) PROVE TypeOK'
  <2>1. ThreadTypeOK' BY <1>4 DEF apiGetEnvelope, ThreadTypeOK, regVars, reqVars
  <2>2. sessions[s] \in Addresses BY <1>4 DEF apiGetEnvelope, BoxTypeOK
  <2>3. First(sessions[s]) \in Nat /\ Len(Tail(envelopes[sessions[s]])) < Len(envelopes[sessions[s]])
    BY <1>4, <2>2 DEF apiGetEnvelope, First, BoxTypeOK
  <2>4. BoxTypeOK' BY <1>4, <2>2, <2>3 DEF apiGetEnvelope, BoxTypeOK
  <2> QED BY <1>4, <2>1, <2>2, <2>3, <2>4 DEF apiGetEnvelope
<1>5. ASSUME NEW q \in Requests, NEW s \in Sessions, apiUnregister(q, s) PROVE TypeOK'
  <2>1. sessions[s] \in Addresses BY <1>5 DEF apiUnregister, BoxTypeOK
  <2>2. repeated' \subseteq Addresses BY <1>5, <2>1 DEF apiUnregister, NoteRepeated
  <2>3. ThreadTypeOK' BY <1>5, <2>1 DEF apiUnregister, ThreadTypeOK, regVars
  <2> QED BY <1>5, <2>2, <2>3 DEF apiUnregister, BoxTypeOK, boxVars
<1>6. ASSUME NEW q \in Requests, NEW s \in Sessions, NEW from \in Addresses, NEW a \in Addresses,
             apiSendEnvelope(q, s, from, a)
      PROVE TypeOK'
  BY <1>6 DEF apiSendEnvelope, ThreadTypeOK, BoxTypeOK, boxVars, regVars, countVars
<1>7. ASSUME NEW q \in Requests, DeleteRegistration(q) PROVE TypeOK'
  <2>1. raddr[q] \in Addresses /\ rsess[q] \in Sessions
    BY <1>7 DEF DeleteRegistration, ThreadTypeOK
  <2>2. ThreadTypeOK' BY <1>7 DEF DeleteRegistration, EndRequest, ThreadTypeOK, regVars
  <2>3. BoxTypeOK' BY <1>7, <2>1 DEF DeleteRegistration, CloseSession, BoxTypeOK
  <2> QED BY <1>7, <2>2, <2>3 DEF DeleteRegistration, countVars
<1>8. ASSUME NEW a \in Addresses, RouteEnvelope(a)
      PROVE  /\ BoxTypeOK' /\ accepted' \in [Addresses -> Nat] /\ fetched' \in [Addresses -> Seq(Nat)]
             /\ nilSent' \subseteq Sessions \X Addresses /\ repeated' \subseteq Addresses
  <2>1. Len(envelopes'[a]) = Len(envelopes[a]) + 1 /\ envelopes' \in [Addresses -> Seq(Nat)]
    BY <1>8 DEF RouteEnvelope, Put, BoxTypeOK
  <2> QED BY <1>8, <2>1 DEF RouteEnvelope, Put, HasRoom, BoxTypeOK
<1>9. ASSUME NEW q \in Requests, SendRouted(q) PROVE TypeOK'
  <2>1. raddr[q] \in Addresses BY <1>9 DEF SendRouted, ThreadTypeOK
  <2>2. ThreadTypeOK' BY <1>9 DEF SendRouted, EndRequest, ThreadTypeOK, regVars
  <2>3. CASE SendElsewhere(q)
    <3>1. rsess[q] \in Sessions /\ rsender[q] \in Addresses
      BY <2>3 DEF SendElsewhere, ThreadTypeOK
    <3>2. nilSent' \subseteq Sessions \X Addresses BY <2>3, <3>1 DEF SendElsewhere
    <3> QED BY <2>2, <2>3, <3>2 DEF SendElsewhere, boxVars, BoxTypeOK
  <2> QED BY <1>8, <1>9, <2>1, <2>2, <2>3 DEF SendRouted, boxVars, countVars, BoxTypeOK
<1>10. ASSUME NEW a \in Addresses, PeerRoutes(a) PROVE TypeOK'
  BY <1>8, <1>10 DEF PeerRoutes, ThreadTypeOK, regVars, reqVars
<1>11. ASSUME NEW q \in Requests, SenderRegistered(q) PROVE TypeOK'
  BY <1>11 DEF SenderRegistered, ThreadTypeOK, BoxTypeOK, boxVars, regVars, countVars
<1>12. CASE UNCHANGED vars
  BY <1>12 DEF vars, ThreadTypeOK, BoxTypeOK, boxVars, regVars, reqVars, countVars
<1> QED BY <1>1, <1>2, <1>3, <1>4, <1>5, <1>6, <1>7, <1>9, <1>10, <1>11, <1>12 DEF Next

\* Initially the types hold.
LEMMA TypeInit == Init => TypeOK
BY DEF Init, TypeOK, ThreadTypeOK, BoxTypeOK

\* The variables of Mailbox always have their types; no list exceeds the limit.
THEOREM TypeCorrect == Spec => []TypeOK
BY TypeInit, TypeNext, PTL DEF Spec

-----------------------------------------------------------------------------
(* NoOrphan                                                                 *)

\* A session is open only after its registration, for the address registered; a
\* pending unregister request has that address too.
SessionInv ==
    /\ \A s \in Sessions : sessions[s] # NoAddr => spc[s] = "registered" /\ sessions[s] = saddr[s]
    /\ \A q \in Requests : rpc[q] = "unregister" =>
           spc[rsess[q]] = "registered" /\ saddr[rsess[q]] = raddr[q]

OrphanInv == TypeOK /\ SessionInv /\ NoOrphan

\* The steps that leave sessions, records and lists alone but for their contents.
LEMMA OrphanQuiet ==
  ASSUME OrphanInv, UNCHANGED <<sessions, agentRecords, boxes>>
  PROVE  NoOrphan'
BY DEF OrphanInv, NoOrphan

\* Every step keeps OrphanInv: a registration stores record and session
\* together, and a deletion takes the record of the address whose session it
\* closes, even when a later registration stored it.
LEMMA OrphanNext == OrphanInv /\ [Next]_vars => OrphanInv'
<1> SUFFICES ASSUME OrphanInv, [Next]_vars PROVE SessionInv' /\ NoOrphan'
  BY TypeNext DEF OrphanInv
<1> USE DEF OrphanInv, TypeOK
<1>1. ASSUME NEW s \in Sessions, NEW a \in Addresses, apiRegister(s, a)
      PROVE  SessionInv' /\ NoOrphan'
  <2>1. SessionInv'
    BY <1>1 DEF apiRegister, SessionInv, ThreadTypeOK, boxVars, reqVars
  <2> QED BY <1>1, <2>1, OrphanQuiet DEF apiRegister, boxVars
<1>2. ASSUME NEW s \in Sessions, RefuseRegistration(s) PROVE SessionInv' /\ NoOrphan'
  <2>1. SessionInv'
    BY <1>2 DEF RefuseRegistration, SessionInv, ThreadTypeOK, boxVars, reqVars
  <2> QED BY <1>2, <2>1, OrphanQuiet DEF RefuseRegistration, boxVars
<1>3. ASSUME NEW s \in Sessions, StoreRegistration(s) PROVE SessionInv' /\ NoOrphan'
  <2>1. saddr[s] \in Addresses /\ sessions[s] = NoAddr
    BY <1>3 DEF StoreRegistration, ThreadTypeOK, SessionInv
  <2>2. SessionInv'
    BY <1>3, <2>1 DEF StoreRegistration, OpenSession, SessionInv, ThreadTypeOK, BoxTypeOK, reqVars
  <2>3. NoOrphan'
    BY <1>3, <2>1 DEF StoreRegistration, OpenSession, NoOrphan, BoxTypeOK
  <2> QED BY <2>2, <2>3
<1>4. ASSUME NEW s \in Sessions, apiGetEnvelope(s) PROVE SessionInv' /\ NoOrphan'
  BY <1>4, OrphanQuiet DEF apiGetEnvelope, SessionInv, regVars, reqVars
<1>5. ASSUME NEW q \in Requests, NEW s \in Sessions, apiUnregister(q, s)
      PROVE  SessionInv' /\ NoOrphan'
  <2>1. SessionInv'
    BY <1>5 DEF apiUnregister, SessionInv, ThreadTypeOK, boxVars, regVars
  <2> QED BY <1>5, <2>1, OrphanQuiet DEF apiUnregister, boxVars
<1>6. ASSUME NEW q \in Requests, NEW s \in Sessions, NEW from \in Addresses, NEW a \in Addresses,
             apiSendEnvelope(q, s, from, a)
      PROVE SessionInv' /\ NoOrphan'
  <2>1. SessionInv'
    BY <1>6 DEF apiSendEnvelope, SessionInv, ThreadTypeOK, boxVars, regVars
  <2> QED BY <1>6, <2>1, OrphanQuiet DEF apiSendEnvelope, boxVars
<1>7. ASSUME NEW q \in Requests, DeleteRegistration(q) PROVE SessionInv' /\ NoOrphan'
  <2>1. /\ raddr[q] \in Addresses /\ rsess[q] \in Sessions
        /\ sessions[rsess[q]] \in {raddr[q], NoAddr}
    BY <1>7 DEF DeleteRegistration, ThreadTypeOK, SessionInv
  <2>2. SessionInv'
    BY <1>7, <2>1 DEF DeleteRegistration, CloseSession, EndRequest, SessionInv, ThreadTypeOK,
                      BoxTypeOK, regVars
  <2>3. NoOrphan'
    BY <1>7, <2>1 DEF DeleteRegistration, CloseSession, NoOrphan, BoxTypeOK
  <2> QED BY <2>2, <2>3
<1>8. ASSUME NEW q \in Requests, SendRouted(q) PROVE SessionInv' /\ NoOrphan'
  <2>1. UNCHANGED <<sessions, agentRecords, boxes>>
    BY <1>8 DEF SendRouted, SendElsewhere, RouteEnvelope, boxVars
  <2>2. SessionInv'
    BY <1>8, <2>1 DEF SendRouted, EndRequest, SessionInv, ThreadTypeOK, regVars
  <2> QED BY <2>1, <2>2, OrphanQuiet
<1>9. ASSUME NEW a \in Addresses, PeerRoutes(a) PROVE SessionInv' /\ NoOrphan'
  BY <1>9, OrphanQuiet DEF PeerRoutes, RouteEnvelope, SessionInv, regVars, reqVars
<1>10. ASSUME NEW q \in Requests, SenderRegistered(q) PROVE SessionInv' /\ NoOrphan'
  <2>1. SessionInv'
    BY <1>10 DEF SenderRegistered, SessionInv, ThreadTypeOK, boxVars, regVars
  <2> QED BY <1>10, <2>1, OrphanQuiet DEF SenderRegistered, boxVars
<1>11. CASE UNCHANGED vars
  BY <1>11, OrphanQuiet DEF vars, SessionInv, boxVars, regVars, reqVars
<1> QED BY <1>1, <1>2, <1>3, <1>4, <1>5, <1>6, <1>7, <1>8, <1>9, <1>10, <1>11 DEF Next

\* Initially there is no session.
LEMMA OrphanInit == Init => OrphanInv
BY TypeInit DEF Init, OrphanInv, SessionInv, NoOrphan

\* However registrations and unregistrations of an address overlap, every mailbox
\* has an open session.
THEOREM NoOrphanCorrect == Spec => []NoOrphan
<1>1. OrphanInv => NoOrphan BY DEF OrphanInv
<1> QED BY <1>1, OrphanInit, OrphanNext, PTL DEF Spec

-----------------------------------------------------------------------------
(* SessionsServed and KeptUntilFetched, for careful agents.                 *)

\* A careful address has one registration in progress at most, one session at most, and
\* not both.  Until it repeats an unregister request, one that is in progress is the only
\* one of its session, and that session is still open.
SerialInv ==
    /\ \A s, t \in Sessions :
           /\ spc[s] = "announcing" /\ spc[t] = "announcing"
           /\ saddr[s] = saddr[t] /\ saddr[s] \in Careful
           => s = t
    /\ \A s, t \in Sessions :
           spc[s] = "announcing" /\ saddr[s] \in Careful => sessions[t] # saddr[s]
    /\ \A s, t \in Sessions : sessions[s] = sessions[t] /\ sessions[s] \in Careful => s = t
    /\ \A q \in Requests :
           rpc[q] = "unregister" /\ raddr[q] \in Careful \ repeated =>
               sessions[rsess[q]] = raddr[q]
    /\ \A q, r \in Requests :
           /\ rpc[q] = "unregister" /\ rpc[r] = "unregister" /\ rsess[q] = rsess[r]
           /\ raddr[q] \in Careful \ repeated
           => q = r

ServedInv == OrphanInv /\ SerialInv /\ SessionsServed

\* Every step, of any agent, keeps ServedInv.
LEMMA ServedNext == ServedInv /\ [Next]_vars => ServedInv'
<1> SUFFICES ASSUME ServedInv, [Next]_vars PROVE SerialInv' /\ SessionsServed'
  BY OrphanNext DEF ServedInv
<1> USE DEF ServedInv, OrphanInv, TypeOK
<1>1. ASSUME NEW s \in Sessions, NEW a \in Addresses, apiRegister(s, a)
      PROVE  SerialInv' /\ SessionsServed'
  BY <1>1 DEF apiRegister, InUse, SerialInv, SessionsServed, ThreadTypeOK, boxVars, reqVars,
              countVars
<1>2. ASSUME NEW s \in Sessions, RefuseRegistration(s) PROVE SerialInv' /\ SessionsServed'
  BY <1>2 DEF RefuseRegistration, SerialInv, SessionsServed, ThreadTypeOK, boxVars, reqVars,
              countVars
<1>3. ASSUME NEW s \in Sessions, StoreRegistration(s) PROVE SerialInv' /\ SessionsServed'
  <2>1. saddr[s] \in Addresses /\ sessions[s] = NoAddr /\ UNCHANGED repeated
    BY <1>3 DEF StoreRegistration, ThreadTypeOK, SessionInv, countVars
  <2>2. SerialInv'
    BY <1>3, <2>1 DEF StoreRegistration, OpenSession, SerialInv, ThreadTypeOK, BoxTypeOK, reqVars
  <2>3. SessionsServed'
    BY <1>3, <2>1 DEF StoreRegistration, OpenSession, SerialInv, SessionsServed, BoxTypeOK
  <2> QED BY <2>2, <2>3
<1>4. ASSUME NEW s \in Sessions, apiGetEnvelope(s) PROVE SerialInv' /\ SessionsServed'
  BY <1>4 DEF apiGetEnvelope, SerialInv, SessionsServed, regVars, reqVars
<1>5. ASSUME NEW q \in Requests, NEW s \in Sessions, apiUnregister(q, s)
      PROVE  SerialInv' /\ SessionsServed'
  <2>1. PICK b \in Addresses : b = sessions[s] BY <1>5 DEF apiUnregister, BoxTypeOK
  <2>2. /\ rpc' = [rpc EXCEPT ![q] = "unregister"] /\ rsess' = [rsess EXCEPT ![q] = s]
        /\ raddr' = [raddr EXCEPT ![q] = b] /\ rpc[q] = "idle"
        /\ UNCHANGED <<sessions, agentRecords, spc, saddr>>
        /\ repeated \subseteq repeated'
    BY <1>5, <2>1 DEF apiUnregister, NoteRepeated, boxVars, regVars
  <2>3. ASSUME NEW r \in Requests, rpc[r] = "unregister", rsess[r] = s PROVE b \in repeated'
    BY <1>5, <2>1, <2>3 DEF apiUnregister, NoteRepeated
  <2>4. ASSUME NEW r \in Requests, rpc'[r] = "unregister"
        PROVE  \/ r = q /\ rsess'[r] = s /\ raddr'[r] = b
               \/ r # q /\ rpc[r] = "unregister" /\ rsess'[r] = rsess[r] /\ raddr'[r] = raddr[r]
    BY <2>2, <2>4 DEF ThreadTypeOK
  <2>5. ASSUME NEW r \in Requests, rpc'[r] = "unregister", raddr'[r] \in Careful \ repeated'
        PROVE  sessions'[rsess'[r]] = raddr'[r]
    BY <2>1, <2>2, <2>4, <2>5 DEF SerialInv
  <2>6. ASSUME NEW r \in Requests, rpc[r] = "unregister", rsess[r] = s PROVE raddr[r] = b
    BY <2>1, <2>6 DEF SessionInv, BoxTypeOK
  <2>7. ASSUME NEW r \in Requests, NEW u \in Requests, rpc'[r] = "unregister",
               rpc'[u] = "unregister", rsess'[r] = rsess'[u], raddr'[r] \in Careful \ repeated'
        PROVE  r = u
    BY <2>2, <2>3, <2>4, <2>6, <2>7 DEF SerialInv
  <2>8. SerialInv'
    BY <2>2, <2>5, <2>7 DEF SerialInv
  <2> QED BY <2>2, <2>8 DEF SessionsServed
<1>6. ASSUME NEW q \in Requests, NEW s \in Sessions, NEW from \in Addresses, NEW a \in Addresses,
             apiSendEnvelope(q, s, from, a)
      PROVE SerialInv' /\ SessionsServed'
  BY <1>6 DEF apiSendEnvelope, SerialInv, SessionsServed, ThreadTypeOK, boxVars, regVars, countVars
<1>7. ASSUME NEW q \in Requests, DeleteRegistration(q) PROVE SerialInv' /\ SessionsServed'
  <2>1. PICK b \in Addresses, x \in Sessions : b = raddr[q] /\ x = rsess[q]
    BY <1>7 DEF DeleteRegistration, ThreadTypeOK
  <2>2. /\ rpc' = [rpc EXCEPT ![q] = "idle"] /\ sessions' = [sessions EXCEPT ![x] = NoAddr]
        /\ agentRecords' = [agentRecords EXCEPT ![b] = NoSession] /\ rpc[q] = "unregister"
        /\ UNCHANGED <<spc, saddr, repeated>>
        /\ \A r \in Requests : r # q => rsess'[r] = rsess[r] /\ raddr'[r] = raddr[r]
    BY <1>7, <2>1 DEF DeleteRegistration, CloseSession, EndRequest, regVars, countVars, ThreadTypeOK
  <2>3. \A r \in Requests : rpc'[r] = "unregister" => r # q /\ rpc[r] = "unregister"
    BY <2>2 DEF ThreadTypeOK
  <2>4. \A s \in Sessions : sessions'[s] # NoAddr => s # x /\ sessions'[s] = sessions[s]
    BY <2>2 DEF BoxTypeOK
  <2>5. ASSUME NEW r \in Requests, rpc'[r] = "unregister", raddr'[r] \in Careful \ repeated
        PROVE  sessions'[rsess'[r]] = raddr'[r]
    <3>1. /\ r # q /\ rpc[r] = "unregister" /\ rsess'[r] = rsess[r] /\ raddr'[r] = raddr[r]
          /\ rsess[r] \in Sessions
      BY <2>2, <2>3, <2>5 DEF ThreadTypeOK
    <3>2. rsess[r] # x BY <2>1, <2>2, <2>5, <3>1 DEF SerialInv
    <3>3. sessions[rsess[r]] = raddr[r] BY <2>5, <3>1 DEF SerialInv
    <3> QED BY <2>2, <3>1, <3>2, <3>3 DEF BoxTypeOK
  <2>6. SerialInv'
    <3>1. ASSUME NEW s \in Sessions, NEW t \in Sessions,
                 sessions'[s] = sessions'[t], sessions'[s] \in Careful
          PROVE  s = t
      <4>1. sessions'[s] # NoAddr BY <3>1
      <4> QED BY <2>4, <3>1, <4>1 DEF SerialInv
    <3>2. ASSUME NEW s \in Sessions, NEW t \in Sessions, spc[s] = "announcing",
                 saddr[s] \in Careful
          PROVE  sessions'[t] # saddr[s]
      BY <2>4, <3>2 DEF SerialInv
    <3>3. ASSUME NEW r \in Requests, NEW u \in Requests, rpc'[r] = "unregister",
                 rpc'[u] = "unregister", rsess'[r] = rsess'[u], raddr'[r] \in Careful \ repeated
          PROVE  r = u
      <4>1. /\ rpc[r] = "unregister" /\ rsess'[r] = rsess[r] /\ raddr'[r] = raddr[r]
            /\ rpc[u] = "unregister" /\ rsess'[u] = rsess[u]
        BY <2>2, <2>3, <3>3
      <4> QED BY <3>3, <4>1 DEF SerialInv
    <3> QED BY <2>2, <2>5, <3>1, <3>2, <3>3 DEF SerialInv
  <2>7. ASSUME NEW s \in Sessions, sessions'[s] \in Careful \ repeated
        PROVE  agentRecords'[sessions'[s]] = s
    <3>1. s # x /\ sessions'[s] = sessions[s] /\ agentRecords[sessions[s]] = s
      <4>1. sessions'[s] # NoAddr BY <2>7
      <4> QED BY <2>4, <2>7, <4>1 DEF SessionsServed
    <3>2. CASE sessions[s] # b BY <2>2, <2>7, <3>1, <3>2 DEF BoxTypeOK
    <3>3. CASE sessions[s] = b
      <4>1. sessions[x] = b BY <2>1, <2>2, <2>7, <3>1, <3>3 DEF SerialInv
      <4> QED BY <2>7, <3>1, <3>3, <4>1 DEF SerialInv
    <3> QED BY <3>2, <3>3
  <2> QED BY <2>2, <2>6, <2>7 DEF SessionsServed
<1>8. ASSUME NEW q \in Requests, SendRouted(q) PROVE SerialInv' /\ SessionsServed'
  BY <1>8 DEF SendRouted, SendElsewhere, RouteEnvelope, EndRequest, SerialInv, SessionsServed,
              ThreadTypeOK, boxVars, regVars, countVars
<1>9. ASSUME NEW a \in Addresses, PeerRoutes(a) PROVE SerialInv' /\ SessionsServed'
  BY <1>9 DEF PeerRoutes, RouteEnvelope, SerialInv, SessionsServed, regVars, reqVars
<1>10. ASSUME NEW q \in Requests, SenderRegistered(q) PROVE SerialInv' /\ SessionsServed'
  BY <1>10 DEF SenderRegistered, SerialInv, SessionsServed, ThreadTypeOK, boxVars, regVars,
               countVars
<1>11. CASE UNCHANGED vars
  BY <1>11 DEF vars, SerialInv, SessionsServed, boxVars, regVars, reqVars, countVars
<1> QED BY <1>1, <1>2, <1>3, <1>4, <1>5, <1>6, <1>7, <1>8, <1>9, <1>10, <1>11 DEF Next

\* Initially nobody registers.
LEMMA ServedInit == Init => ServedInv
BY OrphanInit DEF Init, ServedInv, SerialInv, SessionsServed

\* An agent that registers only without a session keeps its mailbox, with its own record,
\* as long as its session is open, whatever other agents do and until it repeats an
\* unregister request: of two for one session in progress together, the second deletes
\* what the agent has registered since the first.
THEOREM SessionsServedCorrect == Spec => []SessionsServed
<1>1. ServedInv => SessionsServed BY DEF ServedInv
<1> QED BY <1>1, ServedInit, ServedNext, PTL DEF Spec

\* A step takes an envelope out of a mailbox only to hand it out, or for an
\* unregister request of the agent: a careful registration finds no mailbox.
LEMMA KeptNext ==
  ASSUME ServedInv, [Next]_vars, NEW a \in Careful, NEW n \in Waiting(a) \ Waiting(a)'
  PROVE  \/ fetched'[a] = Append(fetched[a], n)
         \/ \E q \in Requests :
                /\ rpc[q] = "unregister" /\ raddr[q] = a /\ rpc'[q] = "idle"
                /\ a \notin repeated => rsess[q] = agentRecords[a]
<1> USE DEF ServedInv, OrphanInv, TypeOK
<1>1. envelopes'[a] # envelopes[a] BY DEF Waiting
<1>2. ASSUME NEW s \in Sessions, StoreRegistration(s) PROVE FALSE
  <2>1. saddr[s] = a
    BY <1>1, <1>2 DEF StoreRegistration, BoxTypeOK
  <2>2. a \notin boxes
    BY <1>2, <2>1 DEF StoreRegistration, NoOrphan, SerialInv, BoxTypeOK
  <2> QED BY <2>2 DEF BoxTypeOK, Waiting
<1>3. ASSUME NEW s \in Sessions, apiGetEnvelope(s) PROVE fetched'[a] = Append(fetched[a], n)
  <2>1. sessions[s] = a /\ envelopes[a] # <<>> /\ envelopes'[a] = Tail(envelopes[a])
    BY <1>1, <1>3 DEF apiGetEnvelope, BoxTypeOK
  <2>2. n = First(a)
    <3>1. PICK i \in 1..Len(envelopes[a]) : n = envelopes[a][i] BY DEF Waiting
    <3>2. envelopes[a] \in Seq(Nat) BY DEF BoxTypeOK
    <3>3. ASSUME i # 1 PROVE FALSE
      <4>1. i - 1 \in 1..Len(Tail(envelopes[a])) /\ Tail(envelopes[a])[i - 1] = n
        BY <2>1, <3>1, <3>2, <3>3
      <4> QED BY <2>1, <4>1 DEF Waiting
    <3> QED BY <3>1, <3>3 DEF First
  <2> QED BY <1>3, <2>1, <2>2 DEF apiGetEnvelope
<1>4. ASSUME NEW q \in Requests, DeleteRegistration(q)
      PROVE  /\ rpc[q] = "unregister" /\ raddr[q] = a /\ rpc'[q] = "idle"
             /\ a \notin repeated => rsess[q] = agentRecords[a]
  <2>1. rpc[q] = "unregister" /\ raddr[q] = a /\ rpc'[q] = "idle" /\ rsess[q] \in Sessions
    BY <1>1, <1>4 DEF DeleteRegistration, EndRequest, ThreadTypeOK, BoxTypeOK
  <2>2. ASSUME a \notin repeated PROVE rsess[q] = agentRecords[a]
    BY <2>1, <2>2 DEF SerialInv, SessionsServed
  <2> QED BY <2>1, <2>2
<1>5. ASSUME NEW b \in Addresses, RouteEnvelope(b) PROVE FALSE
  <2>1. b = a /\ envelopes'[a] = Append(envelopes[a], accepted[a] + 1) /\ envelopes[a] \in Seq(Nat)
    BY <1>1, <1>5 DEF RouteEnvelope, Put, BoxTypeOK
  <2>2. PICK i \in 1..Len(envelopes[a]) : n = envelopes[a][i] BY DEF Waiting
  <2>3. i \in 1..Len(envelopes'[a]) /\ envelopes'[a][i] = n BY <2>1, <2>2
  <2> QED BY <2>3 DEF Waiting
<1>6. ASSUME NEW q \in Requests, SendRouted(q) PROVE FALSE
  BY <1>1, <1>5, <1>6 DEF SendRouted, SendElsewhere, ThreadTypeOK, boxVars
<1>7. ~ UNCHANGED envelopes BY <1>1
<1>8. UNCHANGED vars => FALSE BY <1>7 DEF vars, boxVars
<1> QED
  BY <1>2, <1>3, <1>4, <1>5, <1>6, <1>7, <1>8
     DEF Next, apiRegister, RefuseRegistration, apiUnregister, apiSendEnvelope, SenderRegistered,
         PeerRoutes, boxVars

\* An envelope accepted for a careful agent waits
\* in its mailbox until it is handed out or the agent unregisters.
THEOREM KeptUntilFetchedCorrect == Spec => KeptUntilFetched
<1>1. ServedInv /\ [Next]_vars =>
        [\A a \in Careful : \A n \in Waiting(a) \ Waiting(a)' :
           \/ fetched'[a] = Append(fetched[a], n)
           \/ \E q \in Requests :
                  /\ rpc[q] = "unregister" /\ raddr[q] = a /\ rpc'[q] = "idle"
                  /\ a \notin repeated => rsess[q] = agentRecords[a]]_vars
  BY KeptNext
<1> QED BY <1>1, ServedInit, ServedNext, PTL DEF Spec, KeptUntilFetched

-----------------------------------------------------------------------------
(* NilOnlyIfClosed                                                          *)

\* A send request, pending or past, is of a session whose registration is over.
NilInv ==
    /\ ServedInv
    /\ \A q \in Requests : rpc[q] \in {"send", "record"} => spc[rsess[q]] = "registered"
    /\ \A x \in nilSent : spc[x[1]] = "registered"
    /\ NilOnlyIfClosed

\* Every step keeps NilInv: with the session open the record is there, and a closed
\* session is never opened again.
LEMMA NilNext == NilInv /\ [Next]_vars => NilInv'
<1> SUFFICES ASSUME NilInv, [Next]_vars PROVE NilInv'
  OBVIOUS
<1>0. ServedInv' BY ServedNext DEF NilInv
<1>t. /\ TypeOK /\ TypeOK'
      /\ \A x \in nilSent : x[1] \in Sessions /\ x[2] \in Addresses
  BY <1>0 DEF NilInv, ServedInv, OrphanInv, TypeOK
<1> USE <1>0, <1>t DEF NilInv, NilOnlyIfClosed, ThreadTypeOK, BoxTypeOK, TypeOK
<1>1. ASSUME NEW s \in Sessions, NEW a \in Addresses, apiRegister(s, a) PROVE NilInv'
  BY <1>1 DEF apiRegister, boxVars, reqVars, countVars
<1>2. ASSUME NEW s \in Sessions, RefuseRegistration(s) PROVE NilInv'
  BY <1>2 DEF RefuseRegistration, boxVars, reqVars, countVars
<1>3. ASSUME NEW s \in Sessions, StoreRegistration(s) PROVE NilInv'
  BY <1>3 DEF StoreRegistration, OpenSession, reqVars, countVars
<1>4. ASSUME NEW s \in Sessions, apiGetEnvelope(s) PROVE NilInv'
  BY <1>4 DEF apiGetEnvelope, regVars, reqVars
<1>5. ASSUME NEW q \in Requests, NEW s \in Sessions, apiUnregister(q, s) PROVE NilInv'
  <2>1. repeated \subseteq repeated' BY <1>5 DEF apiUnregister, NoteRepeated
  <2> QED BY <1>5, <2>1 DEF apiUnregister, boxVars, regVars
<1>6. ASSUME NEW q \in Requests, NEW s \in Sessions, NEW from \in Addresses, NEW a \in Addresses,
             apiSendEnvelope(q, s, from, a)
      PROVE NilInv'
  <2>1. spc[s] = "registered" BY <1>6 DEF apiSendEnvelope, ServedInv, OrphanInv, SessionInv
  <2> QED BY <1>6, <2>1 DEF apiSendEnvelope, boxVars, regVars, countVars
<1>7. ASSUME NEW q \in Requests, DeleteRegistration(q) PROVE NilInv'
  BY <1>7 DEF DeleteRegistration, CloseSession, EndRequest, regVars, countVars
<1>8. ASSUME NEW q \in Requests, SenderRegistered(q) PROVE NilInv'
  BY <1>8 DEF SenderRegistered, boxVars, regVars, countVars
<1>9. ASSUME NEW q \in Requests, SendRouted(q) PROVE NilInv'
  <2>1. CASE SendElsewhere(q)
    <3> DEFINE s == rsess[q]
               a == rsender[q]
    <3>1. s \in Sessions /\ a \in Addresses /\ spc[s] = "registered"
      BY <2>1 DEF SendElsewhere
    <3>2. ASSUME agentRecords[a] = NoSession, a \in Careful \ repeated, saddr[s] = a
          PROVE  sessions[s] = NoAddr
      BY <3>1, <3>2 DEF ServedInv, OrphanInv, SessionInv, SessionsServed
    <3>3. NilOnlyIfClosed' BY <1>9, <2>1, <3>1, <3>2 DEF SendElsewhere, SendRouted, regVars, boxVars
    <3> QED BY <1>9, <2>1, <3>1, <3>3 DEF SendElsewhere, SendRouted, EndRequest, regVars, boxVars
  <2>2. CASE UNCHANGED <<sessions, nilSent, repeated>>
    BY <1>9, <2>2 DEF SendRouted, EndRequest, regVars
  <2> QED BY <1>9, <2>1, <2>2 DEF SendRouted, RouteEnvelope, boxVars, countVars
<1>10. ASSUME NEW a \in Addresses, PeerRoutes(a) PROVE NilInv'
  BY <1>10 DEF PeerRoutes, RouteEnvelope, regVars, reqVars
<1>11. CASE UNCHANGED vars
  BY <1>11 DEF vars, boxVars, regVars, reqVars, countVars
<1> QED BY <1>1, <1>2, <1>3, <1>4, <1>5, <1>6, <1>7, <1>8, <1>9, <1>10, <1>11 DEF Next

\* Initially nothing was sent.
LEMMA NilInit == Init => NilInv
BY ServedInit DEF Init, NilInv, NilOnlyIfClosed

\* An envelope of a careful agent that repeats no unregister request goes to another
\* peer without its record only when the agent has closed the session it sends with.
THEOREM NilOnlyIfClosedCorrect == Spec => []NilOnlyIfClosed
<1>1. NilInv => NilOnlyIfClosed BY DEF NilInv
<1> QED BY <1>1, NilInit, NilNext, PTL DEF Spec

-----------------------------------------------------------------------------
(* FetchOrder                                                               *)

\* The numbers of a sequence increase and are in the interval lo..hi.
IncreasingIn(q, lo, hi) ==
    /\ \A i \in 1..Len(q) : lo <= q[i] /\ q[i] <= hi
    /\ \A i, j \in 1..Len(q) : i < j => q[i] < q[j]

\* What was handed out and what waits increase, and the first is below the second.
AddressOrder(a) ==
    /\ IncreasingIn(fetched[a], 1, accepted[a])
    /\ IncreasingIn(envelopes[a], 1, accepted[a])
    /\ \A i \in 1..Len(fetched[a]), j \in 1..Len(envelopes[a]) : fetched[a][i] < envelopes[a][j]

OrderInv == TypeOK /\ \A a \in Addresses : AddressOrder(a)

\* A step that may only empty the mailbox keeps the order.
LEMMA OrderEmptied ==
  ASSUME NEW a \in Addresses, AddressOrder(a), fetched'[a] = fetched[a], accepted'[a] = accepted[a],
         envelopes'[a] = envelopes[a] \/ envelopes'[a] = <<>>
  PROVE  AddressOrder(a)'
BY DEF AddressOrder, IncreasingIn

\* Appending a number above all others keeps a sequence increasing.
LEMMA AppendIncreasing ==
  ASSUME NEW q \in Seq(Nat), NEW hi \in Nat, NEW top \in Nat, NEW x \in 1..top, hi <= top,
         IncreasingIn(q, 1, hi), \A i \in 1..Len(q) : q[i] < x
  PROVE  IncreasingIn(Append(q, x), 1, top)
<1>1. /\ Len(q) \in Nat /\ Len(Append(q, x)) = Len(q) + 1
      /\ \A i \in 1..Len(q) : q[i] \in Nat /\ Append(q, x)[i] = q[i]
      /\ Append(q, x)[Len(q) + 1] = x
  OBVIOUS
<1>2. \A i \in 1..Len(q) + 1 : i \in 1..Len(q) \/ i = Len(q) + 1 BY <1>1
<1>3. \A i \in 1..Len(q) + 1 : 1 <= Append(q, x)[i] /\ Append(q, x)[i] <= top
  BY <1>1, <1>2 DEF IncreasingIn
<1>4. \A i, j \in 1..Len(q) + 1 : i < j => Append(q, x)[i] < Append(q, x)[j]
  BY <1>1, <1>2 DEF IncreasingIn
<1> QED BY <1>1, <1>3, <1>4 DEF IncreasingIn

\* The rest of an increasing sequence increases, above its first element.
LEMMA TailIncreasing ==
  ASSUME NEW q \in Seq(Nat), q # <<>>, NEW hi \in Nat, IncreasingIn(q, 1, hi)
  PROVE  IncreasingIn(Tail(q), 1, hi) /\ \A i \in 1..Len(Tail(q)) : q[1] < Tail(q)[i]
<1>1. /\ Len(q) \in Nat /\ 1 \in 1..Len(q) /\ Len(Tail(q)) = Len(q) - 1
      /\ \A i \in 1..Len(q) - 1 : Tail(q)[i] = q[i + 1] /\ i + 1 \in 1..Len(q)
  OBVIOUS
<1> QED BY <1>1 DEF IncreasingIn

\* An accepted envelope has the next number and goes to the end.
LEMMA OrderRouted ==
  ASSUME OrderInv, NEW b \in Addresses, RouteEnvelope(b), NEW a \in Addresses
  PROVE  AddressOrder(a)'
<1>1. /\ envelopes[a] \in Seq(Nat) /\ fetched[a] \in Seq(Nat) /\ accepted[a] \in Nat
      /\ AddressOrder(a)
  BY DEF OrderInv, TypeOK, BoxTypeOK
<1>2. CASE a # b
  <2>1. envelopes'[a] = envelopes[a] /\ fetched'[a] = fetched[a] /\ accepted'[a] = accepted[a]
    BY <1>2 DEF RouteEnvelope, Put, OrderInv, TypeOK, BoxTypeOK
  <2> QED BY <1>1, <2>1, OrderEmptied
<1>3. CASE a = b
  <2> DEFINE q == envelopes[a]
             f == fetched[a]
             n == accepted[a]
  <2>1. envelopes'[a] = Append(q, n + 1) /\ accepted'[a] = n + 1 /\ fetched'[a] = f
    BY <1>3 DEF RouteEnvelope, Put, OrderInv, TypeOK, BoxTypeOK
  <2>2. /\ q \in Seq(Nat) /\ f \in Seq(Nat) /\ n \in Nat
        /\ IncreasingIn(f, 1, n) /\ IncreasingIn(q, 1, n)
        /\ \A i \in 1..Len(f), j \in 1..Len(q) : f[i] < q[j]
    BY <1>1 DEF AddressOrder
  <2> HIDE DEF q, f, n
  <2>3. /\ \A i \in 1..Len(q) : q[i] \in Nat /\ q[i] <= n
        /\ \A i \in 1..Len(f) : f[i] \in Nat /\ f[i] <= n
    BY <2>2 DEF IncreasingIn
  <2>4. IncreasingIn(f, 1, n + 1)
    BY <2>2, <2>3 DEF IncreasingIn
  <2>5. IncreasingIn(Append(q, n + 1), 1, n + 1)
    <3>1. n + 1 \in Nat /\ n + 1 \in 1..(n + 1) /\ n <= n + 1 BY <2>2
    <3>2. \A i \in 1..Len(q) : q[i] < n + 1 BY <2>2, <2>3
    <3> QED BY <2>2, <3>1, <3>2, AppendIncreasing
  <2>6. \A i \in 1..Len(f), j \in 1..Len(Append(q, n + 1)) : f[i] < Append(q, n + 1)[j]
    BY <2>2, <2>3
  <2> QED BY <2>1, <2>4, <2>5, <2>6 DEF AddressOrder
<1> QED BY <1>2, <1>3

\* The envelope handed out is the first of those that wait.
LEMMA OrderFetched ==
  ASSUME OrderInv, NEW s \in Sessions, apiGetEnvelope(s), NEW a \in Addresses
  PROVE  AddressOrder(a)'
<1>1. /\ envelopes[a] \in Seq(Nat) /\ fetched[a] \in Seq(Nat) /\ accepted[a] \in Nat
      /\ AddressOrder(a)
  BY DEF OrderInv, TypeOK, BoxTypeOK
<1>2. CASE a # sessions[s]
  <2>1. envelopes'[a] = envelopes[a] /\ fetched'[a] = fetched[a] /\ accepted'[a] = accepted[a]
    BY <1>2 DEF apiGetEnvelope, OrderInv, TypeOK, BoxTypeOK
  <2> QED BY <1>1, <2>1, OrderEmptied
<1>3. CASE a = sessions[s]
  <2> DEFINE q == envelopes[a]
             f == fetched[a]
             n == accepted[a]
  <2>1. /\ envelopes'[a] = Tail(q) /\ accepted'[a] = n /\ fetched'[a] = Append(f, q[1])
        /\ q # <<>>
    BY <1>3 DEF apiGetEnvelope, First, OrderInv, TypeOK, BoxTypeOK
  <2>2. /\ q \in Seq(Nat) /\ f \in Seq(Nat) /\ n \in Nat
        /\ IncreasingIn(f, 1, n) /\ IncreasingIn(q, 1, n)
        /\ \A i \in 1..Len(f), j \in 1..Len(q) : f[i] < q[j]
    BY <1>1 DEF AddressOrder
  <2> HIDE DEF q, f, n
  <2>3. IncreasingIn(Tail(q), 1, n) /\ \A i \in 1..Len(Tail(q)) : q[1] < Tail(q)[i]
    BY <2>1, <2>2, TailIncreasing
  <2>4. 1 \in 1..Len(q) /\ q[1] \in 1..n BY <2>1, <2>2 DEF IncreasingIn
  <2>5. IncreasingIn(Append(f, q[1]), 1, n)
    <3>1. \A i \in 1..Len(f) : f[i] < q[1] BY <2>2, <2>4
    <3>2. n <= n BY <2>2
    <3> QED BY <2>2, <2>4, <3>1, <3>2, AppendIncreasing
  <2>6. \A i \in 1..Len(Append(f, q[1])), j \in 1..Len(Tail(q)) : Append(f, q[1])[i] < Tail(q)[j]
    <3>1. /\ \A i \in 1..Len(Append(f, q[1])) : i \in 1..Len(f) \/ Append(f, q[1])[i] = q[1]
          /\ \A i \in 1..Len(f) : Append(f, q[1])[i] = f[i]
      BY <2>2, <2>4
    <3>2. \A j \in 1..Len(Tail(q)) : j + 1 \in 1..Len(q) /\ Tail(q)[j] = q[j + 1]
      BY <2>1, <2>2
    <3> SUFFICES ASSUME NEW i \in 1..Len(Append(f, q[1])), NEW j \in 1..Len(Tail(q))
                 PROVE  Append(f, q[1])[i] < Tail(q)[j]
      OBVIOUS
    <3>3. CASE i \in 1..Len(f) BY <2>2, <3>1, <3>2, <3>3
    <3>4. CASE Append(f, q[1])[i] = q[1] BY <2>3, <3>4
    <3> QED BY <3>1, <3>3, <3>4
  <2> QED BY <2>1, <2>3, <2>5, <2>6 DEF AddressOrder
<1> QED BY <1>2, <1>3

\* Every step keeps the order.
LEMMA OrderNext == OrderInv /\ [Next]_vars => OrderInv'
<1> SUFFICES ASSUME OrderInv, [Next]_vars, NEW a \in Addresses PROVE AddressOrder(a)'
  BY TypeNext DEF OrderInv
<1> USE DEF OrderInv, TypeOK
<1>1. ASSUME NEW s \in Sessions, StoreRegistration(s) PROVE AddressOrder(a)'
  BY <1>1, OrderEmptied DEF StoreRegistration, BoxTypeOK, countVars
<1>2. ASSUME NEW q \in Requests, DeleteRegistration(q) PROVE AddressOrder(a)'
  BY <1>2, OrderEmptied DEF DeleteRegistration, BoxTypeOK, countVars
<1>3. ASSUME NEW q \in Requests, SendRouted(q) PROVE AddressOrder(a)'
  BY <1>3, OrderRouted, OrderEmptied DEF SendRouted, SendElsewhere, ThreadTypeOK, boxVars, countVars
<1>4. CASE UNCHANGED <<boxVars, accepted, fetched>>
  BY <1>4, OrderEmptied DEF boxVars
<1> QED
  BY <1>1, <1>2, <1>3, <1>4, OrderRouted, OrderFetched
     DEF Next, apiRegister, RefuseRegistration, apiUnregister, apiSendEnvelope, SenderRegistered,
         PeerRoutes, vars, countVars

\* Initially nothing was accepted.
LEMMA OrderInit == Init => OrderInv
BY TypeInit DEF Init, OrderInv, AddressOrder, IncreasingIn

\* Envelopes are handed out in the order of their acceptance and none twice, for
\* any number of concurrent registrations and polls of the address.
THEOREM FetchOrderCorrect == Spec => []FetchOrder
<1>1. OrderInv => FetchOrder BY DEF OrderInv, AddressOrder, IncreasingIn, FetchOrder
<1> QED BY <1>1, OrderInit, OrderNext, PTL DEF Spec
=============================================================================
