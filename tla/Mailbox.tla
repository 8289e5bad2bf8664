------------------------------ MODULE Mailbox ------------------------------
(***************************************************************************)
(* The mailbox service of an ACN peer: agents register over HTTP, get a     *)
(* session, and poll the envelopes routed to them.  Every handler is a      *)
(* thread; a step is one region of mailboxServer.lock.                      *)
(***************************************************************************)
EXTENDS Integers, Sequences

CONSTANTS
    Sessions,       \* session ids; each is drawn by one register request
    Addresses,      \* addresses of agents
    Requests,       \* handlers of unregister and send requests
    EnvelopesLimit, \* envelopesLimit
    MaxEnvelopes,   \* bound: envelopes accepted for an address
    Careful,        \* agents that register only when they have no session and are
                    \* not registering already
    NoAddr, NoSession

ASSUME MailboxAssumption ==
    /\ EnvelopesLimit \in Nat \ {0}
    /\ MaxEnvelopes \in Nat
    /\ Careful \subseteq Addresses
    /\ NoAddr \notin Addresses /\ NoSession \notin Sessions

VARIABLES
    spc,            \* spc[s]: where the register request of s is
    saddr,          \* saddr[s]: the address it registers
    sessions,       \* sessions[s]: address of the session, or NoAddr
    agentRecords,   \* agentRecords[a]: the registration whose record it is
    boxes,          \* addresses with an entry in the map of envelopes
    envelopes,      \* envelopes[a]: the list, of numbers
    rpc,            \* rpc[q]: what request q goes on to do
    rsess, raddr,   \* its session and address
    rsender,        \* the sender of the envelope it sends
    accepted,       \* accepted[a]: envelopes that were ever accepted
    fetched,        \* fetched[a]: the envelopes handed out, in order
    nilSent,        \* <<s, a>>: session s has sent an envelope of a that left
                    \* the peer without a record
    repeated        \* agents that had two unregister requests of one session
                    \* in progress at the same time

regVars == <<spc, saddr>>
boxVars == <<sessions, agentRecords, boxes, envelopes>>
reqVars == <<rpc, rsess, raddr, rsender>>
countVars == <<accepted, fetched, nilSent, repeated>>
vars == <<regVars, boxVars, reqVars, countVars>>

Init ==
    /\ spc = [s \in Sessions |-> "new"]
    /\ saddr = [s \in Sessions |-> NoAddr]
    /\ sessions = [s \in Sessions |-> NoAddr]
    /\ agentRecords = [a \in Addresses |-> NoSession]
    /\ boxes = {}
    /\ envelopes = [a \in Addresses |-> <<>>]
    /\ rpc = [q \in Requests |-> "idle"]
    /\ rsess = [q \in Requests |-> NoSession]
    /\ raddr = [q \in Requests |-> NoAddr]
    /\ rsender = [q \in Requests |-> NoAddr]
    /\ accepted = [a \in Addresses |-> 0]
    /\ fetched = [a \in Addresses |-> <<>>]
    /\ nilSent = {}
    /\ repeated = {}

-----------------------------------------------------------------------------
(* apiRegister                                                              *)

\* The agent is registering or has a session.  It is not, and has none, when one of two
\* unregister requests for its session has ended and the other is still on its way.
InUse(a) ==
    \/ \E s \in Sessions : saddr[s] = a /\ spc[s] = "announcing"
    \/ \E s \in Sessions : sessions[s] = a

\* The record is valid; its address is announced if announcements are enabled.
\* Nothing tests whether the address is registered already.
apiRegister(s, a) ==
    /\ spc[s] = "new"
    /\ a \in Careful => ~ InUse(a)
    /\ spc' = [spc EXCEPT ![s] = "announcing"]
    /\ saddr' = [saddr EXCEPT ![s] = a]
    /\ UNCHANGED <<boxVars, reqVars, countVars>>

\* The announcement fails.
RefuseRegistration(s) ==
    /\ spc[s] = "announcing"
    /\ spc' = [spc EXCEPT ![s] = "refused"]
    /\ UNCHANGED <<saddr, boxVars, reqVars, countVars>>

\* Mutant: the session is left out.
OpenSessionMutant(s) == UNCHANGED sessions
OpenSession(s) == sessions' = [sessions EXCEPT ![s] = saddr[s]]

\* The record, the session and an empty list, in one lock region; the session
\* is the answer.
StoreRegistration(s) ==
    /\ spc[s] = "announcing"
    /\ spc' = [spc EXCEPT ![s] = "registered"]
    /\ agentRecords' = [agentRecords EXCEPT ![saddr[s]] = s]
    /\ OpenSession(s)
    /\ boxes' = boxes \cup {saddr[s]}
    /\ envelopes' = [envelopes EXCEPT ![saddr[s]] = <<>>]
    /\ UNCHANGED <<saddr, reqVars, countVars>>

-----------------------------------------------------------------------------
(* apiUnregister: two lock regions.                                         *)

\* History: another unregister request of the session is past this point.
NoteRepeated(s) ==
    repeated' = IF \E q \in Requests : rpc[q] = "unregister" /\ rsess[q] = s
                THEN repeated \cup {sessions[s]} ELSE repeated

apiUnregister(q, s) ==
    /\ rpc[q] = "idle"
    /\ sessions[s] # NoAddr
    /\ rpc' = [rpc EXCEPT ![q] = "unregister"]
    /\ rsess' = [rsess EXCEPT ![q] = s]
    /\ raddr' = [raddr EXCEPT ![q] = sessions[s]]
    /\ NoteRepeated(s)
    /\ UNCHANGED <<rsender, regVars, boxVars, accepted, fetched, nilSent>>

EndRequest(q) ==
    /\ rpc' = [rpc EXCEPT ![q] = "idle"]
    /\ rsess' = [rsess EXCEPT ![q] = NoSession]
    /\ raddr' = [raddr EXCEPT ![q] = NoAddr]
    /\ rsender' = [rsender EXCEPT ![q] = NoAddr]

\* Mutant: the session outlives the mailbox.
CloseSessionMutant(s) == UNCHANGED sessions
CloseSession(s) == sessions' = [sessions EXCEPT ![s] = NoAddr]

\* The entries of the address are deleted, whichever session made them.
DeleteRegistration(q) ==
    /\ rpc[q] = "unregister"
    /\ agentRecords' = [agentRecords EXCEPT ![raddr[q]] = NoSession]
    /\ CloseSession(rsess[q])
    /\ boxes' = boxes \ {raddr[q]}
    /\ envelopes' = [envelopes EXCEPT ![raddr[q]] = <<>>]
    /\ EndRequest(q)
    /\ UNCHANGED <<regVars, countVars>>

-----------------------------------------------------------------------------
(* Envelopes                                                                *)

\* Mutant: the test of the limit is off by one.
HasRoomMutant(a) == Len(envelopes[a]) <= EnvelopesLimit
HasRoom(a) == Len(envelopes[a]) < EnvelopesLimit

\* Mutant: a full list forgets its oldest envelope instead.
PutMutant(a, n) ==
    envelopes' = [envelopes EXCEPT ![a] = IF HasRoom(a) THEN Append(@, n) ELSE Append(Tail(@), n)]
Put(a, n) == HasRoom(a) /\ envelopes' = [envelopes EXCEPT ![a] = Append(@, n)]

\* MailboxServer.RouteEnvelope accepts an envelope for a.
RouteEnvelope(a) ==
    /\ a \in boxes
    /\ accepted[a] < MaxEnvelopes
    /\ Put(a, accepted[a] + 1)
    /\ accepted' = [accepted EXCEPT ![a] = @ + 1]
    /\ UNCHANGED <<sessions, agentRecords, boxes, fetched, nilSent, repeated>>

\* apiSendEnvelope: the session is tested in a lock region of its own; the sender
\* of the envelope is not compared with it.
apiSendEnvelope(q, s, from, a) ==
    /\ rpc[q] = "idle"
    /\ sessions[s] # NoAddr
    /\ rpc' = [rpc EXCEPT ![q] = "send"]
    /\ rsess' = [rsess EXCEPT ![q] = s]
    /\ raddr' = [raddr EXCEPT ![q] = a]
    /\ rsender' = [rsender EXCEPT ![q] = from]
    /\ UNCHANGED <<regVars, boxVars, countVars>>

\* getEnvelopeAcnRecord, in RouteEnvelope and again before a lookup in the DHT:
\* IsAddrRegistered ...
SenderRegistered(q) ==
    /\ rpc[q] = "send"
    /\ rsender[q] \in boxes
    /\ rpc' = [rpc EXCEPT ![q] = "record"]
    /\ UNCHANGED <<rsess, raddr, rsender, regVars, boxVars, countVars>>

\* ... and GetAgentRecord, in another lock region.  The record goes along with an
\* envelope for another peer or a relay client, and nobody looks whether it is nil.
SendElsewhere(q) ==
    /\ rpc[q] = "record"
    /\ nilSent' = IF agentRecords[rsender[q]] = NoSession
                   THEN nilSent \cup {<<rsess[q], rsender[q]>>} ELSE nilSent
    /\ UNCHANGED <<boxVars, accepted, fetched, repeated>>

\* The envelope goes nowhere (a sender without any record is refused, a recipient is
\* not found), to a mailbox of this peer, or elsewhere.
SendRouted(q) ==
    /\ rpc[q] \in {"send", "record"}
    /\ rpc[q] = "send" => rsender[q] \notin boxes
    /\ \/ UNCHANGED <<boxVars, countVars>>
       \/ RouteEnvelope(raddr[q])
       \/ SendElsewhere(q)
    /\ EndRequest(q)
    /\ UNCHANGED regVars

\* An envelope from elsewhere: DHTPeer.RouteEnvelope or HandleAeaEnvelope.
PeerRoutes(a) == RouteEnvelope(a) /\ UNCHANGED <<regVars, reqVars>>

\* Mutant: the newest envelope is handed out.
FirstMutant(a) == envelopes[a][Len(envelopes[a])]
First(a) == envelopes[a][1]

\* apiGetEnvelope, with the lock held all along: the first envelope is removed
\* when it could be written.  Otherwise, or with no envelope, nothing changes.
apiGetEnvelope(s) ==
    LET a == sessions[s]
    IN  /\ a # NoAddr
        /\ envelopes[a] # <<>>
        /\ fetched' = [fetched EXCEPT ![a] = Append(@, First(a))]
        /\ envelopes' = [envelopes EXCEPT ![a] = Tail(@)]
        /\ UNCHANGED <<regVars, sessions, agentRecords, boxes, reqVars, accepted, nilSent,
                       repeated>>

-----------------------------------------------------------------------------

Next ==
    \/ \E s \in Sessions, a \in Addresses : apiRegister(s, a)
    \/ \E s \in Sessions : RefuseRegistration(s) \/ StoreRegistration(s) \/ apiGetEnvelope(s)
    \/ \E q \in Requests, s \in Sessions : apiUnregister(q, s)
    \/ \E q \in Requests, s \in Sessions, from, a \in Addresses : apiSendEnvelope(q, s, from, a)
    \/ \E q \in Requests : DeleteRegistration(q) \/ SenderRegistered(q) \/ SendRouted(q)
    \/ \E a \in Addresses : PeerRoutes(a)

Spec == Init /\ [][Next]_vars

-----------------------------------------------------------------------------
(* Properties                                                               *)

ThreadTypeOK ==
    /\ spc \in [Sessions -> {"new", "announcing", "refused", "registered"}]
    /\ saddr \in [Sessions -> Addresses \cup {NoAddr}]
    /\ \A s \in Sessions : spc[s] = "new" <=> saddr[s] = NoAddr
    /\ rpc \in [Requests -> {"idle", "unregister", "send", "record"}]
    /\ rsess \in [Requests -> Sessions \cup {NoSession}]
    /\ raddr \in [Requests -> Addresses \cup {NoAddr}]
    /\ rsender \in [Requests -> Addresses \cup {NoAddr}]
    /\ \A q \in Requests : rpc[q] # "idle" => rsess[q] \in Sessions /\ raddr[q] \in Addresses
    /\ \A q \in Requests : rpc[q] \in {"send", "record"} => rsender[q] \in Addresses

BoxTypeOK ==
    /\ sessions \in [Sessions -> Addresses \cup {NoAddr}]
    /\ agentRecords \in [Addresses -> Sessions \cup {NoSession}]
    /\ boxes = {a \in Addresses : agentRecords[a] # NoSession}
    /\ envelopes \in [Addresses -> Seq(Nat)]
    /\ \A a \in Addresses : Len(envelopes[a]) <= EnvelopesLimit
    /\ \A a \in Addresses \ boxes : envelopes[a] = <<>>

\* The variables have the values their declarations announce; the map of records
\* and the map of lists have the same keys; no list exceeds the limit.
TypeOK ==
    /\ ThreadTypeOK
    /\ BoxTypeOK
    /\ accepted \in [Addresses -> Nat]
    /\ fetched \in [Addresses -> Seq(Nat)]
    /\ nilSent \subseteq Sessions \X Addresses
    /\ repeated \subseteq Addresses

\* No mailbox is orphaned: whoever registered or unregistered the address
\* concurrently, the session of the stored record is open, so that its mailbox
\* can be polled and unregistered.
NoOrphan == \A a \in boxes : sessions[agentRecords[a]] = a

\* A careful agent is served, whatever other agents do: while its session is open its
\* mailbox exists, with the record of its registration.  One thing ends it, a repeated
\* unregister request: of two requests for one session that are between the lock regions
\* of apiUnregister together, the second deletes whatever the agent has registered since
\* the first.
SessionsServed ==
    \A s \in Sessions :
        sessions[s] \in Careful \ repeated => agentRecords[sessions[s]] = s

\* Envelopes are handed out in the order of their acceptance and none twice,
\* with any number of sessions that poll the same address.
FetchOrder ==
    \A a \in Addresses : \A i, j \in 1..Len(fetched[a]) : i < j => fetched[a][i] < fetched[a][j]

\* An envelope of a careful agent leaves the peer without its record, which the
\* far end dereferences, only when the agent has closed the session it sends with
\* in the meantime, or has repeated an unregister request.
NilOnlyIfClosed ==
    \A x \in nilSent :
        x[2] \in Careful \ repeated /\ saddr[x[1]] = x[2] => sessions[x[1]] = NoAddr

Waiting(a) == {envelopes[a][i] : i \in 1..Len(envelopes[a])}

\* An envelope accepted for a careful agent waits until it is handed out or the
\* agent unregisters: with the session that the mailbox was made for, or, having
\* repeated a request, with an older one.
KeptUntilFetched ==
    [][\A a \in Careful : \A n \in Waiting(a) \ Waiting(a)' :
           \/ fetched'[a] = Append(fetched[a], n)
           \/ \E q \in Requests :
                  /\ rpc[q] = "unregister" /\ raddr[q] = a /\ rpc'[q] = "idle"
                  /\ a \notin repeated => rsess[q] = agentRecords[a]]_vars
=============================================================================
