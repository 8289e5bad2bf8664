------------------------- MODULE RelayClientProofs -------------------------
(***************************************************************************)
(* Theorems about RelayClient, for every bound and for a relay that stores  *)
(* agent records or does not.                                               *)
(***************************************************************************)
EXTENDS RelayClient, TLAPS

\* Where RouteEnvelope is at work there is an envelope; New is not.
AtWork ==
    \/ pc \in {"self", "lookup", "connect", "send", "await"}
    \/ pc \in {"attempt", "loop", "register"} /\ goal # "bootstrap"

EnvelopeInv == (AtWork => envelope > 0) /\ (pc = "circuit" => goal = "bootstrap")

RouteInv == RouteOK /\ EnvelopeInv

-----------------------------------------------------------------------------

\* The flags stay flags.
LEMMA FlagsNext == ASSUME FlagsOK, [Next]_vars PROVE FlagsOK'
<1> USE RelayClientAssumption DEF FlagsOK
<1>1. CASE RelayCrash
  BY <1>1 DEF RelayCrash, LoseLink, loopVars, routeVars, outcomes
<1>2. CASE RelayStart
  BY <1>2 DEF RelayStart, hostVars, loopVars, routeVars, history, outcomes
<1>3. CASE RelayStores
  BY <1>3 DEF RelayStores, hostVars, loopVars, routeVars, history, outcomes
<1>4. CASE LinkLost
  BY <1>4 DEF LinkLost, LoseLink, loopVars, routeVars, outcomes
<1>5. CASE AutoRelayConnects
  BY <1>5 DEF AutoRelayConnects, relayVars, loopVars, routeVars, history, outcomes
<1>6. CASE NotifeeConnects
  BY <1>6 DEF NotifeeConnects, relayVars, loopVars, routeVars, history, outcomes
<1>7. CASE NotifeeFails
  BY <1>7 DEF NotifeeFails, AfterFailure, relayVars, loopVars, routeVars, history,
     outcomes
<1>8. CASE NotifeeCloses
  BY <1>8 DEF NotifeeCloses, relayVars, loopVars, routeVars, history, outcomes
<1>9. CASE ContextDone
  BY <1>9 DEF ContextDone, relayVars, hostVars, routeVars, history, outcomes
<1>10. CASE FirstAttempt
  BY <1>10 DEF FirstAttempt, AttemptSucceeds, AttemptFails, relayVars, routeVars,
     history, outcomes
<1>11. CASE LoopRetries
  BY <1>11 DEF LoopRetries, LoopGoesOn, AttemptSucceeds, AttemptFails, relayVars,
     routeVars, history, outcomes
<1>12. CASE LoopTimesOut
  BY <1>12 DEF LoopTimesOut, LoopGoesOn, relayVars, hostVars, routeVars, history,
     outcomes
<1>13. CASE LoopEnds
  BY <1>13 DEF LoopEnds, relayVars, hostVars, loopVars, routeVars, history, outcomes
<1>14. CASE WaitForCircuit
  <2>1. UNCHANGED <<relayVars, notified, loopVars, routeVars, history>>
    BY <1>14 DEF WaitForCircuit
  <2>2. link' \in BOOLEAN /\ closing' \in BOOLEAN
    BY <1>14 DEF WaitForCircuit, NewFails
  <2> QED
    BY <2>1, <2>2 DEF relayVars, loopVars, routeVars, history, outcomes
<1>15. CASE Notify
  BY <1>15 DEF Notify, relayVars, loopVars, routeVars, history, outcomes
<1>16. CASE Register
  <2>1. UNCHANGED <<relayUp, dhtAddresses, notified, loopVars, routeVars, history>>
    BY <1>16 DEF Register
  <2>2. link' \in BOOLEAN /\ closing' \in BOOLEAN
    BY <1>16 DEF Register, NewFails
  <2>3. answered' \in BOOLEAN
    BY <1>16 DEF Register
  <2> QED
    BY <2>1, <2>2, <2>3 DEF loopVars, routeVars, history
<1>17. CASE RouteToSelf
  <2>1. UNCHANGED <<relayVars, hostVars, routeVars, lost, lostEarly>>
    BY <1>17 DEF RouteToSelf
  <2>2. disconnected' \in BOOLEAN /\ expired' \in BOOLEAN /\ stream' \in BOOLEAN
    BY <1>17 DEF RouteToSelf, StartLoop, loopVars
  <2> QED
    BY <2>1, <2>2 DEF relayVars, hostVars, routeVars
<1>18. CASE Lookup
  BY <1>18 DEF Lookup, ReturnError, relayVars, hostVars, loopVars, routeVars
<1>19. CASE SendEnvelope
  BY <1>19 DEF SendEnvelope, ReturnError, relayVars, hostVars, loopVars, routeVars
<1>20. CASE ConnectTarget
  <2>1. UNCHANGED <<relayVars, hostVars, routeVars, lost, lostEarly>>
    BY <1>20 DEF ConnectTarget
  <2>2. disconnected' \in BOOLEAN /\ expired' \in BOOLEAN /\ stream' \in BOOLEAN
    BY <1>20 DEF ConnectTarget, StartLoop, loopVars
  <2> QED
    BY <2>1, <2>2 DEF relayVars, hostVars, routeVars
<1>21. CASE ReadStatus
  BY <1>21 DEF ReadStatus, ReturnNil, ReturnError, relayVars, hostVars, loopVars,
     routeVars
<1>22. CASE TargetHandles
  BY <1>22 DEF TargetHandles, AgentFailed, relayVars, hostVars, loopVars
<1>23. CASE SetProcessEnvelope
  BY <1>23 DEF SetProcessEnvelope, relayVars, hostVars, loopVars, history, outcomes
<1>24. CASE Close
  BY <1>24 DEF Close, LoseLink, relayVars, routeVars, outcomes
<1>25. ASSUME NEW to \in Targets, RouteEnvelope(to) PROVE FlagsOK'
  BY <1>25, ZenonT(40) DEF RouteEnvelope, StartLoop, relayVars, hostVars, loopVars, history,
     outcomes
<1>26. CASE UNCHANGED vars
  BY <1>26 DEF vars, relayVars, hostVars, loopVars, routeVars, history, outcomes
<1> QED
  BY <1>1, <1>2, <1>3, <1>4, <1>5, <1>6, <1>7, <1>8, <1>9, <1>10, <1>11, <1>12, <1>13,
     <1>14, <1>15, <1>16, <1>17, <1>18, <1>19, <1>20, <1>21, <1>22, <1>23, <1>24,
     <1>25, <1>26
     DEF Next, Relay, Network, Disconnected, Loop, Start, Routing, Main

\* The number of running loops of Disconnected grows only with a crash, another
\* loss of the connection, or Close.
LEMMA CountsNext == ASSUME CountsOK, [Next]_vars PROVE CountsOK'
<1> USE RelayClientAssumption DEF CountsOK
<1>1. CASE RelayCrash
  BY <1>1 DEF RelayCrash, LoseLink, loopVars, routeVars, outcomes
<1>2. CASE RelayStart
  BY <1>2 DEF RelayStart, hostVars, loopVars, routeVars, history, outcomes
<1>3. CASE RelayStores
  BY <1>3 DEF RelayStores, hostVars, loopVars, routeVars, history, outcomes
<1>4. CASE LinkLost
  BY <1>4 DEF LinkLost, LoseLink, loopVars, routeVars, outcomes
<1>5. CASE AutoRelayConnects
  BY <1>5 DEF AutoRelayConnects, relayVars, loopVars, routeVars, history, outcomes
<1>6. CASE NotifeeConnects
  BY <1>6 DEF NotifeeConnects, relayVars, loopVars, routeVars, history, outcomes
<1>7. CASE NotifeeFails
  BY <1>7 DEF NotifeeFails, AfterFailure, relayVars, loopVars, routeVars, history,
     outcomes
<1>8. CASE NotifeeCloses
  BY <1>8 DEF NotifeeCloses, relayVars, loopVars, routeVars, history, outcomes
<1>9. CASE ContextDone
  BY <1>9 DEF ContextDone, relayVars, hostVars, routeVars, history, outcomes
<1>10. CASE FirstAttempt
  BY <1>10 DEF FirstAttempt, AttemptSucceeds, AttemptFails, relayVars, routeVars,
     history, outcomes
<1>11. CASE LoopRetries
  BY <1>11 DEF LoopRetries, LoopGoesOn, AttemptSucceeds, AttemptFails, relayVars,
     routeVars, history, outcomes
<1>12. CASE LoopTimesOut
  BY <1>12 DEF LoopTimesOut, LoopGoesOn, relayVars, hostVars, routeVars, history,
     outcomes
<1>13. CASE LoopEnds
  BY <1>13 DEF LoopEnds, relayVars, hostVars, loopVars, routeVars, history, outcomes
<1>14. CASE WaitForCircuit
  BY <1>14 DEF WaitForCircuit, NewFails, relayVars, loopVars, routeVars, history,
     outcomes
<1>15. CASE Notify
  BY <1>15 DEF Notify, relayVars, loopVars, routeVars, history, outcomes
<1>16. CASE Register
  BY <1>16 DEF Register, NewFails, loopVars, routeVars, history, outcomes
<1>17. CASE RouteToSelf
  BY <1>17 DEF RouteToSelf, StartLoop, ReturnError, ReturnNil, relayVars, hostVars,
     loopVars, routeVars
<1>18. CASE Lookup
  BY <1>18 DEF Lookup, ReturnError, relayVars, hostVars, loopVars, routeVars
<1>19. CASE SendEnvelope
  BY <1>19 DEF SendEnvelope, ReturnError, relayVars, hostVars, loopVars, routeVars
<1>20. CASE ConnectTarget
  BY <1>20 DEF ConnectTarget, StartLoop, ReturnError, relayVars, hostVars, loopVars,
     routeVars
<1>21. CASE ReadStatus
  BY <1>21 DEF ReadStatus, ReturnNil, ReturnError, relayVars, hostVars, loopVars,
     routeVars
<1>22. CASE TargetHandles
  BY <1>22 DEF TargetHandles, AgentFailed, relayVars, hostVars, loopVars
<1>23. CASE SetProcessEnvelope
  BY <1>23 DEF SetProcessEnvelope, relayVars, hostVars, loopVars, history, outcomes
<1>24. CASE Close
  BY <1>24 DEF Close, LoseLink, relayVars, routeVars, outcomes
<1>25. ASSUME NEW to \in Targets, RouteEnvelope(to) PROVE CountsOK'
  BY <1>25 DEF RouteEnvelope, StartLoop, relayVars, hostVars, loopVars, history,
     outcomes
<1>26. CASE UNCHANGED vars
  BY <1>26 DEF vars, relayVars, hostVars, loopVars, routeVars, history, outcomes
<1> QED
  BY <1>1, <1>2, <1>3, <1>4, <1>5, <1>6, <1>7, <1>8, <1>9, <1>10, <1>11, <1>12, <1>13,
     <1>14, <1>15, <1>16, <1>17, <1>18, <1>19, <1>20, <1>21, <1>22, <1>23, <1>24,
     <1>25, <1>26
     DEF Next, Relay, Network, Disconnected, Loop, Start, Routing, Main

\* The steps of New and RouteEnvelope keep to their program.
LEMMA RouteNext == ASSUME RouteInv, [Next]_vars PROVE RouteInv'
<1> USE RelayClientAssumption DEF RouteInv, RouteOK, EnvelopeInv, AtWork
<1>1. CASE RelayCrash
  BY <1>1 DEF RelayCrash, LoseLink, loopVars, routeVars, outcomes
<1>2. CASE RelayStart
  BY <1>2 DEF RelayStart, hostVars, loopVars, routeVars, history, outcomes
<1>3. CASE RelayStores
  BY <1>3 DEF RelayStores, hostVars, loopVars, routeVars, history, outcomes
<1>4. CASE LinkLost
  BY <1>4 DEF LinkLost, LoseLink, loopVars, routeVars, outcomes
<1>5. CASE AutoRelayConnects
  BY <1>5 DEF AutoRelayConnects, relayVars, loopVars, routeVars, history, outcomes
<1>6. CASE NotifeeConnects
  BY <1>6 DEF NotifeeConnects, relayVars, loopVars, routeVars, history, outcomes
<1>7. CASE NotifeeFails
  BY <1>7 DEF NotifeeFails, AfterFailure, relayVars, loopVars, routeVars, history,
     outcomes
<1>8. CASE NotifeeCloses
  BY <1>8 DEF NotifeeCloses, relayVars, loopVars, routeVars, history, outcomes
<1>9. CASE ContextDone
  BY <1>9 DEF ContextDone, relayVars, hostVars, routeVars, history, outcomes
<1>10. CASE FirstAttempt
  BY <1>10 DEF FirstAttempt, AttemptSucceeds, AttemptFails, relayVars, routeVars,
     history, outcomes
<1>11. CASE LoopRetries
  BY <1>11 DEF LoopRetries, LoopGoesOn, AttemptSucceeds, AttemptFails, relayVars,
     routeVars, history, outcomes
<1>12. CASE LoopTimesOut
  BY <1>12 DEF LoopTimesOut, LoopGoesOn, relayVars, hostVars, routeVars, history,
     outcomes
<1>13. CASE LoopEnds
  BY <1>13 DEF LoopEnds, relayVars, hostVars, loopVars, routeVars, history, outcomes
<1>14. CASE WaitForCircuit
  BY <1>14 DEF WaitForCircuit, NewFails, relayVars, loopVars, routeVars, history,
     outcomes
<1>15. CASE Notify
  BY <1>15 DEF Notify, relayVars, loopVars, routeVars, history, outcomes
<1>16. CASE Register
  BY <1>16 DEF Register, NewFails, loopVars, routeVars, history, outcomes
<1>17. CASE RouteToSelf
  <2>1. envelope \in 1..MaxEnvelopes
    BY <1>17 DEF RouteToSelf
  <2>2. UNCHANGED <<envelope, target, status, lost>>
    BY <1>17 DEF RouteToSelf, routeVars
  <2>3. /\ delivered' \subseteq 1..MaxEnvelopes
        /\ ignored' \subseteq 1..MaxEnvelopes
        /\ succeeded' \subseteq 1..MaxEnvelopes
    BY <1>17, <2>1 DEF RouteToSelf, ReturnError, ReturnNil
  <2>4. /\ pc' \in {"attempt", "idle"}
        /\ goal' \in {"bootstrap", "relay", "target"}
        /\ err' \in {"none", "failed", "timeout"}
    BY <1>17 DEF RouteToSelf, StartLoop, ReturnError, ReturnNil, loopVars
  <2> QED
    BY <2>1, <2>2, <2>3, <2>4
<1>18. CASE Lookup
  BY <1>18 DEF Lookup, ReturnError, relayVars, hostVars, loopVars, routeVars
<1>19. CASE SendEnvelope
  BY <1>19 DEF SendEnvelope, ReturnError, relayVars, hostVars, loopVars, routeVars
<1>20. CASE ConnectTarget
  BY <1>20 DEF ConnectTarget, StartLoop, ReturnError, relayVars, hostVars, loopVars,
     routeVars
<1>21. CASE ReadStatus
  <2>1. envelope \in 1..MaxEnvelopes
    BY <1>21 DEF ReadStatus
  <2>2. succeeded' \subseteq 1..MaxEnvelopes /\ pc' = "idle"
    BY <1>21, <2>1 DEF ReadStatus, ReturnNil, ReturnError
  <2> QED
    BY <1>21, <2>2 DEF ReadStatus, loopVars, routeVars
<1>22. CASE TargetHandles
  <2>1. envelope \in 1..MaxEnvelopes
    BY <1>22 DEF TargetHandles
  <2>2. /\ delivered' \subseteq 1..MaxEnvelopes
        /\ lost' \subseteq 1..MaxEnvelopes
        /\ status' \in {"success", "error"}
    BY <1>22, <2>1 DEF TargetHandles, AgentFailed
  <2> QED
    BY <1>22, <2>1, <2>2 DEF TargetHandles, loopVars
<1>23. CASE SetProcessEnvelope
  BY <1>23 DEF SetProcessEnvelope, relayVars, hostVars, loopVars, history, outcomes
<1>24. CASE Close
  BY <1>24 DEF Close, LoseLink, relayVars, routeVars, outcomes
<1>25. ASSUME NEW to \in Targets, RouteEnvelope(to) PROVE RouteInv'
  BY <1>25 DEF RouteEnvelope, StartLoop, relayVars, hostVars, loopVars, history,
     outcomes
<1>26. CASE UNCHANGED vars
  BY <1>26 DEF vars, relayVars, hostVars, loopVars, routeVars, history, outcomes
<1> QED
  BY <1>1, <1>2, <1>3, <1>4, <1>5, <1>6, <1>7, <1>8, <1>9, <1>10, <1>11, <1>12, <1>13,
     <1>14, <1>15, <1>16, <1>17, <1>18, <1>19, <1>20, <1>21, <1>22, <1>23, <1>24,
     <1>25, <1>26
     DEF Next, Relay, Network, Disconnected, Loop, Start, Routing, Main

\* The types hold in every reachable state, and with them the bound on the loops of
\* Notifee.Disconnected: at most one for each connection that was lost.
THEOREM TypeCorrect == Spec => []TypeOK
<1>1. Init => FlagsOK /\ CountsOK /\ RouteInv
  <2> SUFFICES ASSUME Init PROVE FlagsOK /\ CountsOK /\ RouteInv
    OBVIOUS
  <2>1. FlagsOK
    BY DEF Init, FlagsOK
  <2>2. CountsOK
    BY RelayClientAssumption DEF Init, CountsOK
  <2>3. RouteInv
    BY RelayClientAssumption DEF Init, RouteInv, RouteOK, EnvelopeInv, AtWork, Targets
  <2> QED
    BY <2>1, <2>2, <2>3
<1>2. FlagsOK /\ CountsOK /\ RouteInv => TypeOK
  BY DEF TypeOK, RouteInv
<1> QED
  BY <1>1, <1>2, FlagsNext, CountsNext, RouteNext, PTL DEF Spec

-----------------------------------------------------------------------------

\* The status SUCCESS is that of the envelope which is routed, and its target has it or
\* a DHT peer has answered for it; it is read only later, after connections may have gone
\* and come back.
StatusInv == status = "success" => envelope \in delivered \cup lost

DeliveryInv == StatusInv /\ NoErrorMeansDelivered

\* Each step keeps both: a success is added only with its status.
LEMMA DeliveryNext == ASSUME DeliveryInv, [Next]_vars PROVE DeliveryInv'
<1> USE DEF DeliveryInv, StatusInv, NoErrorMeansDelivered
<1>1. CASE RelayCrash
  BY <1>1 DEF RelayCrash, LoseLink, loopVars, routeVars, outcomes
<1>2. CASE RelayStart
  BY <1>2 DEF RelayStart, hostVars, loopVars, routeVars, history, outcomes
<1>3. CASE RelayStores
  BY <1>3 DEF RelayStores, hostVars, loopVars, routeVars, history, outcomes
<1>4. CASE LinkLost
  BY <1>4 DEF LinkLost, LoseLink, loopVars, routeVars, outcomes
<1>5. CASE AutoRelayConnects
  BY <1>5 DEF AutoRelayConnects, relayVars, loopVars, routeVars, history, outcomes
<1>6. CASE NotifeeConnects
  BY <1>6 DEF NotifeeConnects, relayVars, loopVars, routeVars, history, outcomes
<1>7. CASE NotifeeFails
  BY <1>7 DEF NotifeeFails, AfterFailure, relayVars, loopVars, routeVars, history,
     outcomes
<1>8. CASE NotifeeCloses
  BY <1>8 DEF NotifeeCloses, relayVars, loopVars, routeVars, history, outcomes
<1>9. CASE ContextDone
  BY <1>9 DEF ContextDone, relayVars, hostVars, routeVars, history, outcomes
<1>10. CASE FirstAttempt
  BY <1>10 DEF FirstAttempt, AttemptSucceeds, AttemptFails, relayVars, routeVars,
     history, outcomes
<1>11. CASE LoopRetries
  BY <1>11 DEF LoopRetries, LoopGoesOn, AttemptSucceeds, AttemptFails, relayVars,
     routeVars, history, outcomes
<1>12. CASE LoopTimesOut
  BY <1>12 DEF LoopTimesOut, LoopGoesOn, relayVars, hostVars, routeVars, history,
     outcomes
<1>13. CASE LoopEnds
  BY <1>13 DEF LoopEnds, relayVars, hostVars, loopVars, routeVars, history, outcomes
<1>14. CASE WaitForCircuit
  BY <1>14 DEF WaitForCircuit, NewFails, relayVars, loopVars, routeVars, history,
     outcomes
<1>15. CASE Notify
  BY <1>15 DEF Notify, relayVars, loopVars, routeVars, history, outcomes
<1>16. CASE Register
  BY <1>16 DEF Register, NewFails, loopVars, routeVars, history, outcomes
<1>17. CASE RouteToSelf
  BY <1>17 DEF RouteToSelf, StartLoop, ReturnError, ReturnNil, relayVars, hostVars,
     loopVars, routeVars
<1>18. CASE Lookup
  BY <1>18 DEF Lookup, ReturnError, relayVars, hostVars, loopVars, routeVars
<1>19. CASE SendEnvelope
  BY <1>19 DEF SendEnvelope, ReturnError, relayVars, hostVars, loopVars, routeVars
<1>20. CASE ConnectTarget
  BY <1>20 DEF ConnectTarget, StartLoop, ReturnError, relayVars, hostVars, loopVars,
     routeVars
<1>21. CASE ReadStatus
  BY <1>21 DEF ReadStatus, ReturnNil, ReturnError, relayVars, hostVars, loopVars,
     routeVars
<1>22. CASE TargetHandles
  BY <1>22 DEF TargetHandles, AgentFailed, relayVars, hostVars, loopVars
<1>23. CASE SetProcessEnvelope
  BY <1>23 DEF SetProcessEnvelope, relayVars, hostVars, loopVars, history, outcomes
<1>24. CASE Close
  BY <1>24 DEF Close, LoseLink, relayVars, routeVars, outcomes
<1>25. ASSUME NEW to \in Targets, RouteEnvelope(to) PROVE DeliveryInv'
  BY <1>25 DEF RouteEnvelope, StartLoop, relayVars, hostVars, loopVars, history,
     outcomes
<1>26. CASE UNCHANGED vars
  BY <1>26 DEF vars, relayVars, hostVars, loopVars, routeVars, history, outcomes
<1> QED
  BY <1>1, <1>2, <1>3, <1>4, <1>5, <1>6, <1>7, <1>8, <1>9, <1>10, <1>11, <1>12, <1>13,
     <1>14, <1>15, <1>16, <1>17, <1>18, <1>19, <1>20, <1>21, <1>22, <1>23, <1>24,
     <1>25, <1>26
     DEF Next, Relay, Network, Disconnected, Loop, Start, Routing, Main

\* RouteEnvelope returns no error only for an envelope that its target has got, that came
\* before the callback of the own agent, or that a DHT peer has answered for although its
\* agent or delegate client has not got it: for every order of crashes, losses and timeouts.
THEOREM NoErrorCorrect == Spec => []NoErrorMeansDelivered
<1>1. Init => DeliveryInv
  BY DEF Init, DeliveryInv, StatusInv, NoErrorMeansDelivered
<1>2. DeliveryInv => NoErrorMeansDelivered
  BY DEF DeliveryInv
<1> QED
  BY <1>1, <1>2, DeliveryNext, PTL DEF Spec
=============================================================================
