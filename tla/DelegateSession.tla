-------------------------- MODULE DelegateSession --------------------------
(***************************************************************************)
(* The delegate connections of one agent address at an ACN peer: how        *)
(* handleNewDelegationConnection registers a connection in agentRecords,    *)
(* tcpAddresses and acnStatuses and removes it again, and how the threads   *)
(* that deliver an envelope to the address (RouteEnvelope,                  *)
(* HandleAeaEnvelope) write to the connection and wait for the client's     *)
(* status on the channel of acnStatuses.                                    *)
(*                                                                          *)
(* The maps are modelled by their entry for the address: entries of other   *)
(* addresses do not interact.  An envelope is a number in the order of      *)
(* writing, a status is the number of the envelope the client answers; the  *)
(* peer cannot see that number, statuses carry none.                        *)
(***************************************************************************)
EXTENDS Integers, Sequences, FiniteSets

CONSTANTS
    Conns,              \* TCP connections, one handler goroutine each
    Routers,            \* threads that deliver envelopes to the address
    StatusQueueSize,    \* AcnStatusesQueueSize (1000)
    MaxEnvelopes,       \* bound: envelopes delivered to the address
    NoConn              \* no entry in a map

ASSUME SessionAssumption ==
    /\ StatusQueueSize \in Nat \ {0}
    /\ MaxEnvelopes \in Nat
    /\ NoConn \notin Conns

VARIABLES
    \* the handlers and their connections
    cpc,            \* cpc[c]: where the handler of c is
    link,           \* link[c]: the TCP connection: "none", "open", "closed"
    inbox,          \* inbox[c]: envelopes written to c, not yet answered
    upstream,       \* upstream[c]: statuses of the client, not yet read
    pushing,        \* pushing[c]: the status handler c is about to queue
    pushTo,         \* pushTo[c]: the channel it looked up, named by its maker
    \* the maps of DHTPeer
    agentRecords,   \* is there a record of the address?
    tcpAddresses,   \* the connection of the address
    acnStatuses,    \* the maker of the status channel of the address
    statuses,       \* statuses[c]: the channel made by the handler of c
    \* the delivering threads
    rpc,            \* rpc[r]: where thread r is
    renv,           \* renv[r]: the envelope it delivers
    rconn,          \* rconn[r]: the connection it found
    rqueue,         \* rqueue[r]: the channel it waits on
    written,        \* number of envelopes written so far
    confirmed,      \* <<envelope, status>> of the deliveries that succeeded
    timedOut,       \* envelopes whose wait timed out
    \* metrics and history
    nbrConns,       \* gauge metricServiceDelegateClientsCount
    overlapped,     \* the agent has connected again before the handler of its
                    \* previous connection had returned
    concurrent      \* two threads have delivered at the same time

connVars == <<cpc, link, inbox, upstream, pushing, pushTo>>
mapVars == <<agentRecords, tcpAddresses, acnStatuses, statuses>>
routerVars == <<rpc, renv, rconn, rqueue, written, confirmed, timedOut>>
history == <<overlapped, concurrent>>
vars == <<connVars, mapVars, routerVars, nbrConns, history>>

\* The last three are final: the handler has returned after the client left,
\* after a registration it refused, after a failed announcement.
Final == {"gone", "refused", "unannounced"}
Live(c) == cpc[c] \notin Final \cup {"new"}
Active(c) == cpc[c] \in {"loop", "push"}
Waiting(r) == rpc[r] \in {"await", "wait"}

Init ==
    /\ cpc = [c \in Conns |-> "new"]
    /\ link = [c \in Conns |-> "none"]
    /\ inbox = [c \in Conns |-> <<>>]
    /\ upstream = [c \in Conns |-> <<>>]
    /\ pushing = [c \in Conns |-> 0]
    /\ pushTo = [c \in Conns |-> NoConn]
    /\ agentRecords = FALSE
    /\ tcpAddresses = NoConn
    /\ acnStatuses = NoConn
    /\ statuses = [c \in Conns |-> <<>>]
    /\ rpc = [r \in Routers |-> "idle"]
    /\ renv = [r \in Routers |-> 0]
    /\ rconn = [r \in Routers |-> NoConn]
    /\ rqueue = [r \in Routers |-> NoConn]
    /\ written = 0
    /\ confirmed = {}
    /\ timedOut = {}
    /\ nbrConns = 0
    /\ overlapped = FALSE
    /\ concurrent = FALSE

-----------------------------------------------------------------------------
(* Registration: each step is a lock region or a message of                 *)
(* handleNewDelegationConnection.                                           *)

\* The agent connects and sends its registration.
Connect(c) ==
    /\ cpc[c] = "new"
    /\ overlapped' = (overlapped \/ \E d \in Conns : Live(d))
    /\ cpc' = [cpc EXCEPT ![c] = "register"]
    /\ link' = [link EXCEPT ![c] = "open"]
    /\ UNCHANGED <<inbox, upstream, pushing, pushTo, mapVars, routerVars, nbrConns, concurrent>>

\* The registration cannot be read, its proof of representation is invalid, or
\* the answer cannot be sent: the gauge goes down, the connection is closed.
RefuseRegistration(c) ==
    /\ cpc[c] = "register"
    /\ cpc' = [cpc EXCEPT ![c] = "refused"]
    /\ link' = [link EXCEPT ![c] = "closed"]
    /\ nbrConns' = nbrConns - 1
    /\ UNCHANGED <<inbox, upstream, pushing, pushTo, mapVars, routerVars, history>>

\* Success is sent to the client; then the record is stored.
AddRecord(c) ==
    /\ cpc[c] = "register"
    /\ agentRecords' = TRUE
    /\ cpc' = [cpc EXCEPT ![c] = "recorded"]
    /\ UNCHANGED <<link, inbox, upstream, pushing, pushTo, tcpAddresses, acnStatuses,
                   statuses, routerVars, nbrConns, history>>

AddConnection(c) ==
    /\ cpc[c] = "recorded"
    /\ tcpAddresses' = c
    /\ cpc' = [cpc EXCEPT ![c] = "mapped"]
    /\ UNCHANGED <<link, inbox, upstream, pushing, pushTo, agentRecords, acnStatuses,
                   statuses, routerVars, nbrConns, history>>

\* The channel of statuses.  Mutant: none is made.
MakeQueueMutant(c) == UNCHANGED acnStatuses
MakeQueue(c) == acnStatuses' = c

AddStatusQueue(c) ==
    /\ cpc[c] = "mapped"
    /\ MakeQueue(c)
    /\ cpc' = [cpc EXCEPT ![c] = "announce"]
    /\ UNCHANGED <<link, inbox, upstream, pushing, pushTo, agentRecords, tcpAddresses,
                   statuses, routerVars, nbrConns, history>>

\* Announce the address, if announcements are enabled.  On an error the handler
\* returns, and the connection it closes stays in the maps.
Announce(c) ==
    /\ cpc[c] = "announce"
    /\ \/ /\ cpc' = [cpc EXCEPT ![c] = "loop"]
          /\ nbrConns' = nbrConns + 1
          /\ UNCHANGED link
       \/ /\ cpc' = [cpc EXCEPT ![c] = "unannounced"]
          /\ link' = [link EXCEPT ![c] = "closed"]
          /\ UNCHANGED nbrConns
    /\ UNCHANGED <<inbox, upstream, pushing, pushTo, mapVars, routerVars, history>>

-----------------------------------------------------------------------------
(* The read loop and the return of the handler.                             *)

\* A status is read; AddAcnStatusMessage looks the channel up.
ReadStatus(c) ==
    /\ cpc[c] = "loop"
    /\ upstream[c] # <<>>
    /\ upstream' = [upstream EXCEPT ![c] = Tail(@)]
    /\ pushing' = [pushing EXCEPT ![c] = Head(upstream[c])]
    /\ pushTo' = [pushTo EXCEPT ![c] = acnStatuses]
    /\ cpc' = [cpc EXCEPT ![c] = "push"]
    /\ UNCHANGED <<link, inbox, mapVars, routerVars, nbrConns, history>>

\* Mutants: the capacity is off by one, either way.
QueueHasRoomLess(q) == Len(statuses[q]) < StatusQueueSize - 1
QueueHasRoomMore(q) == Len(statuses[q]) <= StatusQueueSize
QueueHasRoom(q) == Len(statuses[q]) < StatusQueueSize

\* ... and sends, outside of the lock.  The send blocks while the channel is
\* full, and for ever when there was none: a nil channel.
PushStatus(c) ==
    /\ cpc[c] = "push"
    /\ pushTo[c] # NoConn
    /\ QueueHasRoom(pushTo[c])
    /\ statuses' = [statuses EXCEPT ![pushTo[c]] = Append(@, pushing[c])]
    /\ pushing' = [pushing EXCEPT ![c] = 0]
    /\ pushTo' = [pushTo EXCEPT ![c] = NoConn]
    /\ cpc' = [cpc EXCEPT ![c] = "loop"]
    /\ UNCHANGED <<link, inbox, upstream, agentRecords, tcpAddresses, acnStatuses,
                   routerVars, nbrConns, history>>

\* The client closes the connection.
ClientClose(c) ==
    /\ link[c] = "open"
    /\ link' = [link EXCEPT ![c] = "closed"]
    /\ UNCHANGED <<cpc, inbox, upstream, pushing, pushTo, mapVars, routerVars, nbrConns, history>>

\* Reading fails: the connection was closed, or what it brings is no ACN message.
ReadFails(c) ==
    /\ cpc[c] = "loop"
    /\ nbrConns' = nbrConns - 1
    /\ cpc' = [cpc EXCEPT ![c] = "remove"]
    /\ UNCHANGED <<link, inbox, upstream, pushing, pushTo, mapVars, routerVars, history>>

\* Mutant: the return without removing the connection.
RemoveConnectionMutant(c) ==
    /\ cpc[c] = "remove"
    /\ cpc' = [cpc EXCEPT ![c] = "removeStatus"]
    /\ UNCHANGED <<link, inbox, upstream, pushing, pushTo, mapVars, routerVars, nbrConns, history>>

\* The entries of the address are deleted, whichever connection made them.
RemoveConnection(c) ==
    /\ cpc[c] = "remove"
    /\ tcpAddresses' = NoConn
    /\ cpc' = [cpc EXCEPT ![c] = "removeStatus"]
    /\ UNCHANGED <<link, inbox, upstream, pushing, pushTo, agentRecords, acnStatuses,
                   statuses, routerVars, nbrConns, history>>

RemoveStatusQueue(c) ==
    /\ cpc[c] = "removeStatus"
    /\ acnStatuses' = NoConn
    /\ cpc' = [cpc EXCEPT ![c] = "gone"]
    /\ link' = [link EXCEPT ![c] = "closed"]
    /\ UNCHANGED <<inbox, upstream, pushing, pushTo, agentRecords, tcpAddresses,
                   statuses, routerVars, nbrConns, history>>

\* The client answers the envelopes it gets, in order.
ClientAnswers(c) ==
    /\ link[c] = "open"
    /\ inbox[c] # <<>>
    /\ inbox' = [inbox EXCEPT ![c] = Tail(@)]
    /\ upstream' = [upstream EXCEPT ![c] = Append(@, Head(inbox[c]))]
    /\ UNCHANGED <<cpc, link, pushing, pushTo, mapVars, routerVars, nbrConns, history>>

-----------------------------------------------------------------------------
(* Delivering an envelope to the address.                                   *)

\* The connection is looked up; what follows uses it without the lock.
FindConnection(r) ==
    /\ rpc[r] = "idle"
    /\ tcpAddresses # NoConn
    /\ rconn' = [rconn EXCEPT ![r] = tcpAddresses]
    /\ rpc' = [rpc EXCEPT ![r] = "write"]
    /\ UNCHANGED <<connVars, mapVars, renv, rqueue, written, confirmed, timedOut,
                   nbrConns, history>>

\* History: is another thread waiting for its status?
NoteConcurrency(r) == concurrent' = (concurrent \/ \E q \in Routers \ {r} : Waiting(q))

\* Writing to an open connection reaches the client; to a closed one it fails,
\* or is accepted and lost.
WriteEnvelope(r) ==
    /\ rpc[r] = "write"
    /\ written < MaxEnvelopes
    /\ written' = written + 1
    /\ NoteConcurrency(r)
    /\ \/ /\ link[rconn[r]] = "open"
          /\ inbox' = [inbox EXCEPT ![rconn[r]] = Append(@, written + 1)]
          /\ renv' = [renv EXCEPT ![r] = written + 1]
          /\ rpc' = [rpc EXCEPT ![r] = "await"]
          /\ UNCHANGED rconn
       \/ /\ link[rconn[r]] = "closed"
          /\ renv' = [renv EXCEPT ![r] = written + 1]
          /\ rpc' = [rpc EXCEPT ![r] = "await"]
          /\ UNCHANGED <<inbox, rconn>>
       \/ /\ link[rconn[r]] = "closed"
          /\ rpc' = [rpc EXCEPT ![r] = "idle"]
          /\ rconn' = [rconn EXCEPT ![r] = NoConn]
          /\ UNCHANGED <<inbox, renv>>
    /\ UNCHANGED <<cpc, link, upstream, pushing, pushTo, mapVars, rqueue, confirmed,
                   timedOut, nbrConns, overlapped>>

\* AwaitAcnStatus looks the channel up by address, not by connection.
FindQueue(r) ==
    /\ rpc[r] = "await"
    /\ rqueue' = [rqueue EXCEPT ![r] = acnStatuses]
    /\ rpc' = [rpc EXCEPT ![r] = "wait"]
    /\ UNCHANGED <<connVars, mapVars, renv, rconn, written, confirmed, timedOut,
                   nbrConns, history>>

RouterReturns(r) ==
    /\ rpc' = [rpc EXCEPT ![r] = "idle"]
    /\ renv' = [renv EXCEPT ![r] = 0]
    /\ rconn' = [rconn EXCEPT ![r] = NoConn]
    /\ rqueue' = [rqueue EXCEPT ![r] = NoConn]

\* Mutant: the status is peeked at and left in the channel.
TakeMutant(q) == UNCHANGED statuses
Take(q) == statuses' = [statuses EXCEPT ![q] = Tail(@)]

ReceiveStatus(r) ==
    /\ rpc[r] = "wait"
    /\ rqueue[r] # NoConn
    /\ statuses[rqueue[r]] # <<>>
    /\ Take(rqueue[r])
    /\ confirmed' = confirmed \cup {<<renv[r], Head(statuses[rqueue[r]])>>}
    /\ RouterReturns(r)
    /\ UNCHANGED <<connVars, agentRecords, tcpAddresses, acnStatuses, written, timedOut,
                   nbrConns, history>>

\* Five seconds without a status; there is no way to take back the envelope.
StatusTimeout(r) ==
    /\ rpc[r] = "wait"
    /\ timedOut' = timedOut \cup {renv[r]}
    /\ RouterReturns(r)
    /\ UNCHANGED <<connVars, mapVars, written, confirmed, nbrConns, history>>

-----------------------------------------------------------------------------

HandlerStep(c) ==
    \/ RefuseRegistration(c) \/ AddRecord(c) \/ AddConnection(c) \/ AddStatusQueue(c)
    \/ Announce(c) \/ ReadStatus(c) \/ PushStatus(c)
    \/ RemoveConnection(c) \/ RemoveStatusQueue(c)

RouterStep(r) ==
    FindConnection(r) \/ WriteEnvelope(r) \/ FindQueue(r) \/ ReceiveStatus(r) \/ StatusTimeout(r)

ClientStep(c) == Connect(c) \/ ClientClose(c) \/ ClientAnswers(c)

Next ==
    \/ \E c \in Conns : HandlerStep(c) \/ ReadFails(c) \/ ClientStep(c)
    \/ \E r \in Routers : RouterStep(r)

Spec == Init /\ [][Next]_vars

\* The handlers run, reading from a closed connection fails in the end, and a
\* wait for a status ends with one or with the timeout.  Nothing is assumed of
\* the client.
FairSpec ==
    /\ Spec
    /\ \A c \in Conns :
        /\ WF_vars(HandlerStep(c))
        /\ WF_vars(link[c] = "closed" /\ ReadFails(c))
    /\ \A r \in Routers : WF_vars(Waiting(r) /\ RouterStep(r))

-----------------------------------------------------------------------------
(* Properties                                                               *)

HandlerStates ==
    {"new", "register", "recorded", "mapped", "announce", "loop", "push",
     "remove", "removeStatus"} \cup Final

ConnTypeOK ==
    /\ cpc \in [Conns -> HandlerStates]
    /\ link \in [Conns -> {"none", "open", "closed"}]
    /\ inbox \in [Conns -> Seq(Nat)]
    /\ upstream \in [Conns -> Seq(Nat)]
    /\ pushing \in [Conns -> Nat]
    /\ pushTo \in [Conns -> Conns \cup {NoConn}]

MapTypeOK ==
    /\ agentRecords \in BOOLEAN
    /\ tcpAddresses \in Conns \cup {NoConn}
    /\ acnStatuses \in Conns \cup {NoConn}
    /\ statuses \in [Conns -> Seq(Nat)]
    /\ \A c \in Conns : Len(statuses[c]) <= StatusQueueSize
    /\ nbrConns \in Int
    /\ overlapped \in BOOLEAN /\ concurrent \in BOOLEAN

RouterTypeOK ==
    /\ rpc \in [Routers -> {"idle", "write", "await", "wait"}]
    /\ renv \in [Routers -> Nat]
    /\ rconn \in [Routers -> Conns \cup {NoConn}]
    /\ \A r \in Routers : rconn[r] = NoConn <=> rpc[r] = "idle"
    /\ rqueue \in [Routers -> Conns \cup {NoConn}]
    /\ written \in 0..MaxEnvelopes
    /\ confirmed \subseteq Nat \X Nat
    /\ timedOut \subseteq Nat

\* The variables have the values their declarations announce, and a status
\* channel never holds more than AcnStatusesQueueSize.
TypeOK == ConnTypeOK /\ MapTypeOK /\ RouterTypeOK

\* While a handler serves its connection, both maps lead to that connection:
\* what is sent to the agent reaches it, and the statuses it sends are queued
\* where AwaitAcnStatus waits.  Holds until connections overlap.
ServedIsMapped ==
    ~ overlapped => \A c \in Conns : Active(c) => tcpAddresses = c /\ acnStatuses = c

\* The inductive strengthening of ServedIsMapped: at most one handler is live,
\* each map leads to it from the step that adds its entry to the step that deletes
\* it, and a pending status goes to its own channel.
SerialInv ==
    /\ \A c, d \in Conns : Live(c) /\ Live(d) => c = d
    /\ \A c \in Conns :
        /\ cpc[c] \in {"mapped", "announce", "loop", "push", "remove"}
               => tcpAddresses = c
        /\ cpc[c] \in {"announce", "loop", "push", "remove", "removeStatus"}
               => acnStatuses = c
        /\ cpc[c] = "push" => pushTo[c] = c

\* The map never leads to a connection whose handler has returned, except when
\* the announcement of the address failed.
MappedIsServed ==
    tcpAddresses # NoConn =>
        cpc[tcpAddresses] \in {"mapped", "announce", "loop", "push", "remove", "unannounced"}

\* As long as envelopes are delivered one after the other, by whichever thread
\* and over whichever connection, the status taken is the one of the envelope,
\* or a late one, of an earlier envelope and after some wait timed out.
OwnStatusUnlessLate ==
    ~ concurrent =>
        \A x \in confirmed :
            x[1] = x[2] \/ (x[2] < x[1] /\ \E e \in timedOut : e <= x[2])

\* A connection that was closed is left by its handler, which removes it: unless
\* connections overlap, or more waits time out than the channel has room for,
\* so that late statuses can fill it and block the handler for ever.
ClosedIsCleaned ==
    \A c \in Conns :
        (link[c] = "closed") ~>
            \/ cpc[c] \in Final
            \/ overlapped
            \/ Cardinality(timedOut) > StatusQueueSize

\* The help text of the gauge metricServiceDelegateClientsCount: "Number of active
\* delagate connections".  It is that number.
GaugeCounts == nbrConns = Cardinality({c \in Conns : Active(c)})

\* What the code gives instead: the registrations that were refused are subtracted,
\* since those paths of the handler decrement what only the announcement, at the end
\* of a registration, increments.
GaugeDrift ==
    nbrConns = Cardinality({c \in Conns : Active(c)})
                 - Cardinality({c \in Conns : cpc[c] = "refused"})
=============================================================================
