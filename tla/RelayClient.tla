---------------------------- MODULE RelayClient ----------------------------
(***************************************************************************)
(* A relayed node (dht/dhtclient): it starts by connecting to its relay     *)
(* peer and registering its agent there, reconnects when the connection is  *)
(* lost (Notifee.Disconnected), and routes the envelopes of its agent by    *)
(* asking the relay for the target and sending through a stream.  The relay *)
(* may crash and restart, with or without stored records; it is the only    *)
(* entry peer of the client.                                                *)
(*                                                                          *)
(* New and RouteEnvelope run one after the other, so one program counter    *)
(* serves both.  An envelope is a number; of the relay only its entry for   *)
(* this client is modelled, and of the target what its side answers.        *)
(***************************************************************************)
EXTENDS Integers, FiniteSets

CONSTANTS
    Persistent,         \* does the relay store agent records?
    MaxEnvelopes,       \* bound: envelopes the agent sends
    MaxCrashes,         \* bound: crashes of the relay
    MaxDrops            \* bound: connections lost otherwise

\* Whom an envelope is for: the client's own agent; another relayed node, or a mailbox;
\* the agent of a DHT peer; a delegate client of one.
Targets == {"self", "node", "peerAgent", "delegate"}

ASSUME RelayClientAssumption ==
    /\ Persistent \in BOOLEAN
    /\ MaxEnvelopes \in Nat
    /\ MaxCrashes \in Nat
    /\ MaxDrops \in Nat

VARIABLES
    \* the relay peer
    relayUp,
    dhtAddresses,       \* has it an entry for the client's agent?
    answered,           \* a registration was answered SUCCESS and is not yet stored
    crashes, drops,     \* numbers of crashes and of other losses
    \* the host of the client
    link,               \* is there a connection to the relay?
    closing,
    notified,           \* has New installed the Notifee?
    reconnecting,       \* number of calls of Disconnected that have not returned
    \* New, then RouteEnvelope for one envelope after the other
    pc,
    goal,               \* what the loop wants: "bootstrap", "relay", "target"
    err,                \* err of the loop: "none", "failed", "timeout"
    disconnected,       \* an attempt of the loop has failed
    expired,            \* the context of the loop is done
    stream,             \* is there a stream to the relay for the lookup?
    envelope,           \* number of the envelope that is routed
    target,             \* whom it is for
    status,             \* the target's status: "none", "success", "error"
    processEnvelope,    \* main has set the callback
    \* history
    delivered,          \* envelopes an agent has got
    ignored,            \* envelopes to itself that came before the callback
    lost,               \* envelopes for which a DHT peer has answered SUCCESS and
                        \* which its agent or delegate client has not got
    succeeded,          \* envelopes for which RouteEnvelope returned no error
    lostEarly           \* the connection was lost before the Notifee was there

relayVars == <<relayUp, dhtAddresses, answered, crashes, drops>>
hostVars == <<link, closing, notified, reconnecting>>
loopVars == <<goal, err, disconnected, expired, stream>>
routeVars == <<envelope, target, status, processEnvelope>>
outcomes == <<delivered, ignored, lost, succeeded>>
history == <<outcomes, lostEarly>>
vars == <<relayVars, hostVars, pc, loopVars, routeVars, history>>

Init ==
    /\ relayUp \in BOOLEAN
    /\ dhtAddresses = FALSE
    /\ answered = FALSE
    /\ crashes = 0
    /\ drops = 0
    /\ link = FALSE
    /\ closing = FALSE
    /\ notified = FALSE
    /\ reconnecting = 0
    /\ pc = "attempt"
    /\ goal = "bootstrap"
    /\ err = "none"
    /\ disconnected = FALSE
    /\ expired = FALSE
    /\ stream = FALSE
    /\ envelope = 0
    /\ target = "self"
    /\ status = "none"
    /\ processEnvelope = FALSE
    /\ delivered = {}
    /\ ignored = {}
    /\ lost = {}
    /\ succeeded = {}
    /\ lostEarly = FALSE

-----------------------------------------------------------------------------
(* The relay and the network.                                               *)

\* A lost connection ends its streams and calls Disconnected, if the Notifee is
\* there.
LoseLink ==
    /\ link' = FALSE
    /\ stream' = FALSE
    /\ reconnecting' = IF link /\ notified THEN reconnecting + 1 ELSE reconnecting
    /\ lostEarly' = (lostEarly \/ (link /\ ~ notified))

\* A record that could not be saved is logged and lost.
RelayCrash ==
    /\ relayUp
    /\ crashes < MaxCrashes
    /\ relayUp' = FALSE
    /\ crashes' = crashes + 1
    /\ dhtAddresses' \in {FALSE, Persistent /\ dhtAddresses}
    /\ answered' = FALSE
    /\ LoseLink
    /\ UNCHANGED <<drops, closing, notified, pc, goal, err, disconnected, expired, routeVars,
                   outcomes>>

RelayStart ==
    /\ ~ relayUp
    /\ relayUp' = TRUE
    /\ UNCHANGED <<dhtAddresses, answered, crashes, drops, hostVars, pc, loopVars,
                   routeVars, history>>

\* handleAeaRegisterStream answers first and adds the address after that.
RelayStores ==
    /\ answered
    /\ dhtAddresses' = TRUE
    /\ answered' = FALSE
    /\ UNCHANGED <<relayUp, crashes, drops, hostVars, pc, loopVars, routeVars, history>>

LinkLost ==
    /\ link
    /\ drops < MaxDrops
    /\ drops' = drops + 1
    /\ LoseLink
    /\ UNCHANGED <<relayUp, dhtAddresses, answered, crashes, closing, notified, pc,
                   goal, err, disconnected, expired, routeVars, outcomes>>

\* The automatic relay of libp2p connects on its own, or does not.
AutoRelayConnects ==
    /\ relayUp /\ ~ link /\ ~ closing
    /\ link' = TRUE
    /\ UNCHANGED <<relayVars, closing, notified, reconnecting, pc, loopVars, routeVars, history>>

-----------------------------------------------------------------------------
(* Notifee.Disconnected: connect, until it succeeds or the client closes.   *)

\* Connect returns nil when there is a connection already.
NotifeeConnects ==
    /\ reconnecting > 0
    /\ ~ closing
    /\ relayUp
    /\ link' = TRUE
    /\ reconnecting' = reconnecting - 1
    /\ UNCHANGED <<relayVars, closing, notified, pc, loopVars, routeVars, history>>

\* Mutants: the loop is left after one attempt; an attempt that fails starts
\* another loop beside this one.
AfterFailureLeaves == reconnecting' = reconnecting - 1
AfterFailureForks == reconnecting' = reconnecting + 1
AfterFailure == UNCHANGED reconnecting

NotifeeFails ==
    /\ reconnecting > 0
    /\ ~ closing
    /\ AfterFailure
    /\ UNCHANGED <<relayVars, link, closing, notified, pc, loopVars, routeVars, history>>

NotifeeCloses ==
    /\ reconnecting > 0
    /\ closing
    /\ reconnecting' = reconnecting - 1
    /\ UNCHANGED <<relayVars, link, closing, notified, pc, loopVars, routeVars, history>>

-----------------------------------------------------------------------------
(* bootstrapLoopUntilTimeout and newStreamLoopUntilTimeout.                 *)

StartLoop(g) ==
    /\ pc' = "attempt"
    /\ goal' = g
    /\ err' = "none"
    /\ disconnected' = FALSE
    /\ expired' = FALSE
    /\ stream' = FALSE

\* One BootstrapConnect or NewStream: what it takes to succeed, and its effect.
\* Both connect to a peer they have no connection to.
AttemptSucceeds ==
    /\ ~ closing
    /\ ~ expired
    /\ goal = "target" \/ relayUp
    /\ err' = "none"
    /\ link' = (link \/ goal # "target")
    /\ stream' = (goal = "relay")

AttemptFails ==
    /\ err' = "failed"
    /\ UNCHANGED <<link, stream>>

FirstAttempt ==
    /\ pc = "attempt"
    /\ AttemptSucceeds \/ AttemptFails
    /\ pc' = "loop"
    /\ UNCHANGED <<relayVars, closing, notified, reconnecting, goal, disconnected, expired,
                   routeVars, history>>

\* The deadline of the context.
ContextDone ==
    /\ pc \in {"attempt", "loop"}
    /\ ~ expired
    /\ expired' = TRUE
    /\ UNCHANGED <<relayVars, hostVars, pc, goal, err, disconnected, stream, routeVars, history>>

\* for err != nil
LoopGoesOn == pc = "loop" /\ err # "none"

LoopRetries ==
    /\ LoopGoesOn
    /\ ~ expired
    /\ disconnected' = TRUE
    /\ AttemptSucceeds \/ AttemptFails
    /\ UNCHANGED <<relayVars, closing, notified, reconnecting, pc, goal, expired, routeVars,
                   history>>

\* The branch of the select for a context that is done sets err, and no more.
LoopTimesOut ==
    /\ LoopGoesOn
    /\ expired
    /\ disconnected' = TRUE
    /\ err' = "timeout"
    /\ UNCHANGED <<relayVars, hostVars, pc, goal, expired, stream, routeVars, history>>

\* newStreamLoopUntilTimeout: "register again in case of disconnection".
MustRegister == disconnected

LoopEnds ==
    /\ pc = "loop"
    /\ err = "none"
    /\ pc' = CASE goal = "bootstrap" -> "circuit"
               [] goal # "bootstrap" /\ MustRegister -> "register"
               [] goal = "relay" /\ ~ MustRegister -> "lookup"
               [] goal = "target" /\ ~ MustRegister -> "send"
    /\ UNCHANGED <<relayVars, hostVars, loopVars, routeVars, history>>

-----------------------------------------------------------------------------
(* New                                                                      *)

\* An error of New: Close, and main ends the process.
NewFails ==
    /\ pc' = "failed"
    /\ closing' = TRUE
    /\ link' = FALSE

\* dht.Bootstrap and waitForCircuitAddress.
WaitForCircuit ==
    /\ pc = "circuit"
    /\ \/ pc' = "register" /\ UNCHANGED <<link, closing>>
       \/ NewFails
    /\ UNCHANGED <<relayVars, notified, reconnecting, loopVars, routeVars, history>>

\* registerAgentAddress: a stream to the relay, the record, the status.  An error
\* may hide a registration that the relay has answered.
Register ==
    /\ pc = "register"
    /\ \/ /\ relayUp /\ ~ closing
          /\ answered' = TRUE
          /\ link' = TRUE
          /\ pc' = CASE goal = "bootstrap" -> "notify"
                     [] goal = "relay" -> "lookup"
                     [] goal = "target" -> "send"
          /\ UNCHANGED closing
       \/ /\ answered' \in {answered, relayUp \/ answered}
          /\ IF goal = "bootstrap" THEN NewFails
             ELSE pc' = "idle" /\ UNCHANGED <<link, closing>>
    /\ UNCHANGED <<relayUp, dhtAddresses, crashes, drops, notified, reconnecting, loopVars,
                   routeVars, history>>

\* The Notifee is installed; New returns.
Notify ==
    /\ pc = "notify"
    /\ notified' = TRUE
    /\ pc' = "idle"
    /\ UNCHANGED <<relayVars, link, closing, reconnecting, loopVars, routeVars, history>>

\* main, after New: the callback, and Close at the end.
SetProcessEnvelope ==
    /\ notified
    /\ ~ processEnvelope
    /\ processEnvelope' = TRUE
    /\ UNCHANGED <<relayVars, hostVars, pc, loopVars, envelope, target, status, history>>

\* Close while the routing goroutine runs on: it finds no host any more.
Close ==
    /\ notified
    /\ ~ closing
    /\ closing' = TRUE
    /\ LoseLink
    /\ UNCHANGED <<relayVars, notified, pc, goal, err, disconnected, expired, routeVars,
                   outcomes>>

-----------------------------------------------------------------------------
(* RouteEnvelope                                                            *)

ReturnError == pc' = "idle" /\ UNCHANGED succeeded
ReturnNil == pc' = "idle" /\ succeeded' = succeeded \cup {envelope}

\* Envelopes with another sender are refused before anything happens.
RouteEnvelope(to) ==
    /\ pc = "idle"
    /\ ~ closing
    /\ envelope < MaxEnvelopes
    /\ envelope' = envelope + 1
    /\ target' = to
    /\ status' = "none"
    /\ IF to = "self" THEN pc' = "self" /\ UNCHANGED loopVars ELSE StartLoop("relay")
    /\ UNCHANGED <<relayVars, hostVars, processEnvelope, history>>

\* An envelope to the own agent: handed to it; then, unlike in DHTPeer, routed
\* through the relay as well.
RouteToSelf ==
    /\ pc = "self"
    /\ \/ /\ processEnvelope
          /\ delivered' = delivered \cup {envelope}
          /\ StartLoop("relay")
          /\ UNCHANGED <<ignored, succeeded>>
       \/ /\ processEnvelope
          /\ ReturnError
          /\ UNCHANGED <<loopVars, delivered, ignored>>
       \/ /\ ~ processEnvelope
          /\ ignored' = ignored \cup {envelope}
          /\ ReturnNil
          /\ UNCHANGED <<loopVars, delivered>>
    /\ UNCHANGED <<relayVars, hostVars, routeVars, lost, lostEarly>>

\* PerformAddressLookup and the checks of the record.
Lookup ==
    /\ pc = "lookup"
    /\ \/ stream /\ pc' = "connect" /\ UNCHANGED succeeded
       \/ ReturnError
    /\ UNCHANGED <<relayVars, hostVars, loopVars, routeVars, delivered, ignored, lost, lostEarly>>

\* Through the own relay, or what the DHT finds.  A host cannot dial itself.
ConnectTarget ==
    /\ pc = "connect"
    /\ \/ /\ target # "self"
          /\ ~ closing
          /\ StartLoop("target")
          /\ UNCHANGED succeeded
       \/ ReturnError /\ UNCHANGED loopVars
    /\ UNCHANGED <<relayVars, hostVars, routeVars, delivered, ignored, lost, lostEarly>>

SendEnvelope ==
    /\ pc = "send"
    /\ \/ ~ closing /\ pc' = "await" /\ UNCHANGED succeeded
       \/ ReturnError
    /\ UNCHANGED <<relayVars, hostVars, loopVars, routeVars, delivered, ignored, lost, lostEarly>>

\* Mutant: the error of the agent is not reported, as in DHTPeer.
AgentFailedMutant == "success"
AgentFailed == "error"

\* The stream handler of the other side and its HandleAeaEnvelope: the target gets the
\* envelope, or not, and the status says so, with two exceptions.  A DHT peer ignores the
\* error of its own agent, and for a delegate client it takes any status from the
\* client's address, or gives up waiting for it.
TargetHandles ==
    /\ pc = "await"
    /\ status = "none"
    /\ \/ delivered' = delivered \cup {envelope} /\ status' = "success" /\ UNCHANGED lost
       \/ status' = AgentFailed /\ UNCHANGED <<delivered, lost>>
       \/ /\ target \in {"peerAgent", "delegate"}
          /\ lost' = lost \cup {envelope}
          /\ status' = "success"
          /\ UNCHANGED delivered
       \/ /\ target = "delegate"
          /\ delivered' = delivered \cup {envelope}
          /\ status' = "error"
          /\ UNCHANGED lost
    /\ UNCHANGED <<relayVars, hostVars, pc, loopVars, envelope, target, processEnvelope,
                   ignored, succeeded, lostEarly>>

\* The status is read, or the stream breaks before or after the target has it.
ReadStatus ==
    /\ pc = "await"
    /\ \/ status = "success" /\ ReturnNil
       \/ ReturnError
    /\ UNCHANGED <<relayVars, hostVars, loopVars, routeVars, delivered, ignored, lost, lostEarly>>

-----------------------------------------------------------------------------

Relay == RelayCrash \/ RelayStart \/ RelayStores
Network == LinkLost \/ AutoRelayConnects
Disconnected == NotifeeConnects \/ NotifeeFails \/ NotifeeCloses
Loop == FirstAttempt \/ LoopRetries \/ LoopTimesOut \/ LoopEnds
Start == WaitForCircuit \/ Notify
Routing == RouteToSelf \/ Lookup \/ ConnectTarget \/ SendEnvelope \/ ReadStatus
Main == SetProcessEnvelope \/ Close \/ \E to \in Targets : RouteEnvelope(to)

Next ==
    \/ Relay \/ Network \/ Disconnected \/ ContextDone \/ Loop \/ Start \/ Register
    \/ Routing \/ TargetHandles \/ Main

Spec == Init /\ [][Next]_vars

\* New and RouteEnvelope run, a deadline comes, a loop of Disconnected connects to
\* a relay that is up, and a started relay handler goes on.
FairSpec ==
    /\ Spec
    /\ WF_vars(Loop \/ Start \/ Register \/ Routing)
    /\ WF_vars(ContextDone)
    /\ WF_vars(NotifeeConnects \/ NotifeeCloses)
    /\ WF_vars(RelayStores)

-----------------------------------------------------------------------------
(* Properties                                                               *)

FlagsOK ==
    /\ relayUp \in BOOLEAN /\ dhtAddresses \in BOOLEAN /\ answered \in BOOLEAN
    /\ link \in BOOLEAN /\ closing \in BOOLEAN /\ notified \in BOOLEAN
    /\ disconnected \in BOOLEAN /\ expired \in BOOLEAN /\ stream \in BOOLEAN
    /\ processEnvelope \in BOOLEAN /\ lostEarly \in BOOLEAN

CountsOK ==
    /\ crashes \in 0..MaxCrashes
    /\ drops \in 0..MaxDrops
    /\ reconnecting \in Nat
    /\ reconnecting <= crashes + drops + (IF closing THEN 1 ELSE 0)

RouteOK ==
    /\ pc \in {"attempt", "loop", "circuit", "register", "notify", "failed", "idle", "self",
               "lookup", "connect", "send", "await"}
    /\ goal \in {"bootstrap", "relay", "target"}
    /\ err \in {"none", "failed", "timeout"}
    /\ status \in {"none", "success", "error"}
    /\ target \in Targets
    /\ envelope \in 0..MaxEnvelopes
    /\ delivered \subseteq 1..MaxEnvelopes
    /\ ignored \subseteq 1..MaxEnvelopes
    /\ lost \subseteq 1..MaxEnvelopes
    /\ succeeded \subseteq 1..MaxEnvelopes

\* The type invariant.  There is at most one loop of Disconnected for each loss of
\* the connection, of which Close is the last.
TypeOK == FlagsOK /\ CountsOK /\ RouteOK

\* RouteEnvelope returns no error for an envelope that nobody has got in two cases only:
\* it was for the own agent and came before main has set processEnvelope, or the peer of
\* an agent or a delegate client has answered for it.  A relayed node and a mailbox have
\* got theirs: a node's HandleAeaEnvelope reports the error of its agent, and every other
\* failure on the way returns one, over retried streams and registrations.
NoErrorMeansDelivered == succeeded \subseteq delivered \cup ignored \cup lost

\* A connection to the relay that is lost after New has returned is restored when
\* the relay is up, unless the client closes or an earlier loss went unnoticed:
\* Disconnected tries again until it has succeeded.
Reconnects ==
    notified /\ ~ link /\ relayUp ~> link \/ closing \/ ~ relayUp \/ lostEarly

\* dhtclient.go, bootstrapLoopUntilTimeout and newStreamLoopUntilTimeout: they loop
\* until there is a connection or the timeout is reached.
LoopReturns == pc = "loop" ~> pc # "loop"
=============================================================================
