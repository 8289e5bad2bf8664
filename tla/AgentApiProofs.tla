--------------------------- MODULE AgentApiProofs ---------------------------
(***************************************************************************)
(* Proofs about AgentApi, for any capacities of the queues, any number of   *)
(* messages and envelopes, and an agent that writes what it likes.          *)
(***************************************************************************)
EXTENDS AgentApi, SequenceTheorems, FiniteSetTheorems, TLAPS

USE AgentApiAssumption

\* The messages of the agent bear the numbers of what it has written.
OwnInv ==
    /\ \A i \in 1..Len(toNode) :
          toNode[i].kind # "status" => toNode[i].id \in 1..fromAgent
    /\ lpc \in {"answer", "forward"} => lmsg.id \in 1..fromAgent
    /\ \A i \in 1..Len(out_queue) : out_queue[i].id \in 1..fromAgent
    /\ rpc \in {"route", "put"} => rmsg.id \in 1..fromAgent

TypeInv == TypeOK /\ OwnInv

\* What a queue holds after a send.
LEMMA Sent ==
  ASSUME NEW S, NEW q \in Seq(S), NEW x \in S
  PROVE  /\ Append(q, x) \in Seq(S) /\ Len(q) \in Nat /\ Len(Append(q, x)) = Len(q) + 1
         /\ \A i \in 1..Len(q) : Append(q, x)[i] = q[i] /\ q[i] \in S
         /\ Append(q, x)[Len(q) + 1] = x
         /\ \A i \in 1..Len(Append(q, x)) : i \in 1..Len(q) \/ i = Len(q) + 1
BY AppendProperties, LenProperties, ElementOfSeq

\* And after a receive.
LEMMA Received ==
  ASSUME NEW S, NEW q \in Seq(S), q # <<>>
  PROVE  /\ Head(q) \in S /\ Tail(q) \in Seq(S) /\ Head(q) = q[1]
         /\ Len(q) \in Nat \ {0} /\ Len(Tail(q)) = Len(q) - 1
         /\ \A i \in 1..Len(Tail(q)) : Tail(q)[i] = q[i + 1] /\ i + 1 \in 1..Len(q)
BY HeadTailProperties, LenProperties, EmptySeq

\* At the start there is nothing anywhere.
LEMMA TypeInit == Init => TypeInv
<1> SUFFICES ASSUME Init PROVE TypeInv OBVIOUS
<1>1. <<>> \in Seq(Messages) /\ <<>> \in Seq(Nat) /\ <<>> \in Seq(1..MaxFromAgent) /\ Len(<<>>) = 0
  OBVIOUS
<1>2. NoMessage \in Messages BY DEF NoMessage, Messages, Kinds
<1>3. 0 \in 0..MaxFromAgent /\ 0 \in 0..MaxIncoming /\ 0 <= SendQueueSize /\ 0 <= OutQueueSize
      /\ 0 <= StatusQueueSize
  OBVIOUS
<1>4. TypeOK BY <1>1, <1>2, <1>3 DEF Init, TypeOK
<1>5. OwnInv BY <1>1 DEF Init, OwnInv
<1> QED BY <1>4, <1>5 DEF TypeInv

\* The agent numbers what it writes.
LEMMA TypeAgent ==
  ASSUME TypeInv, Agent
  PROVE  TypeInv'
<1>0. toNode \in Seq(Messages) /\ fromAgent \in 0..MaxFromAgent /\ toAgent \in Seq(Nat)
  BY DEF TypeInv, TypeOK
<1>1. ASSUME NEW kind \in Kinds, AgentWrites(kind) PROVE TypeInv'
  <2>1. PICK m : m = [kind |-> kind, id |-> fromAgent + 1] OBVIOUS
  <2>2. m \in Messages /\ m.id = fromAgent + 1 /\ fromAgent + 1 \in 1..MaxFromAgent
    BY <1>0, <1>1, <2>1 DEF AgentWrites, Messages
  <2>3. toNode' = Append(toNode, m) /\ fromAgent' = fromAgent + 1
    BY <1>1, <2>1 DEF AgentWrites
  <2>4. TypeOK'
    BY <1>1, <2>2, <2>3, Sent, SMTT(30)
       DEF TypeInv, TypeOK, AgentWrites, queueVars, loopVars, history, sendResults
  <2>5. \A i \in 1..Len(toNode') : toNode'[i].kind # "status" => toNode'[i].id \in 1..fromAgent'
    BY <1>0, <2>2, <2>3, Sent DEF TypeInv, OwnInv
  <2>6. \A n \in 1..fromAgent : n \in 1..fromAgent' BY <1>0, <2>3
  <2>7. UNCHANGED <<lpc, lmsg, rpc, rmsg, out_queue>>
    BY <1>1 DEF AgentWrites, queueVars, loopVars
  <2> QED BY <2>4, <2>5, <2>6, <2>7 DEF TypeInv, OwnInv
<1>2. ASSUME AgentAnswers PROVE TypeInv'
  <2>1. PICK m : m = [kind |-> "status", id |-> Head(toAgent)] OBVIOUS
  <2>2. m \in Messages /\ m.kind = "status" /\ toAgent' \in Seq(Nat)
    BY <1>0, <1>2, <2>1, Received DEF AgentAnswers, Messages
  <2>3. toNode' = Append(toNode, m) BY <1>2, <2>1 DEF AgentAnswers
  <2>4. TypeOK'
    <3>1. toNode' \in Seq(Messages) BY <1>0, <2>2, <2>3, Sent
    <3>2. UNCHANGED <<pipe, fromAgent, queueVars, loopVars, history>> BY <1>2 DEF AgentAnswers
    <3> QED
      BY <2>2, <3>1, <3>2 DEF TypeInv, TypeOK, queueVars, loopVars, history, sendResults
  <2>5. UNCHANGED <<fromAgent, lpc, lmsg, rpc, rmsg, out_queue>>
    BY <1>2 DEF AgentAnswers, queueVars, loopVars
  <2>6. \A i \in 1..Len(toNode') : toNode'[i].kind # "status" => toNode'[i].id \in 1..fromAgent'
    BY <1>0, <2>2, <2>3, <2>5, Sent DEF TypeInv, OwnInv
  <2> QED BY <2>4, <2>5, <2>6 DEF TypeInv, OwnInv
<1>3. ASSUME AgentGone PROVE TypeInv'
  BY <1>3 DEF TypeInv, TypeOK, OwnInv, AgentGone, queueVars, loopVars, history, sendResults
<1> QED BY <1>1, <1>2, <1>3 DEF Agent

\* The listener passes on what it reads.
LEMMA TypeListener ==
  ASSUME TypeInv, Listener
  PROVE  TypeInv'
<1>0. /\ toNode \in Seq(Messages) /\ out_queue \in Seq(Messages) /\ acn_status_chan \in Seq(Nat)
      /\ send_queue \in Seq(Nat) /\ lmsg \in Messages /\ rmsg \in Messages
      /\ fromAgent \in 0..MaxFromAgent
  BY DEF TypeInv, TypeOK
<1>n. NoMessage \in Messages BY DEF NoMessage, Messages, Kinds
<1>m. \A m \in Messages : m.id \in Nat BY DEF Messages
<1>1. CASE Read
  <2>1. PICK h : h = Head(toNode) OBVIOUS
  <2>2. /\ h \in Messages /\ h = toNode[1] /\ 1 \in 1..Len(toNode)
        /\ toNode' \in Seq(Messages)
        /\ \A i \in 1..Len(toNode') : toNode'[i] = toNode[i + 1] /\ i + 1 \in 1..Len(toNode)
    BY <1>0, <1>1, <2>1, Received DEF Read
  <2>3. lmsg' \in Messages BY <1>1, <1>n, <2>1, <2>2 DEF Read
  <2>4. /\ lpc' \in {"read", "status", "answer"}
        /\ lpc' = "answer" => lmsg' = h /\ h.kind # "status"
    BY <1>1, <2>1 DEF Read
  <2>5. TypeOK'
    <3>1. UNCHANGED <<pipe, toAgent, fromAgent, queueVars, spc, senv, rpc, rmsg, processEnvelope,
                      history>>
      BY <1>1 DEF Read
    <3> QED
      BY <2>2, <2>3, <2>4, <3>1 DEF TypeInv, TypeOK, queueVars, history, sendResults
  <2>6. UNCHANGED <<fromAgent, rpc, rmsg, out_queue>> BY <1>1 DEF Read, queueVars
  <2> QED BY <2>2, <2>4, <2>5, <2>6 DEF TypeInv, OwnInv
<1>2. CASE AnswerEnvelope
  <2>1. lpc = "answer" => lmsg.id \in 1..MaxFromAgent BY <1>0 DEF TypeInv, OwnInv
  <2>2. acked' \subseteq 1..MaxFromAgent /\ lmsg' \in Messages
        /\ (lpc' = "read" \/ (lpc' = "forward" /\ lmsg' = lmsg))
    BY <1>2, <1>n, <2>1 DEF AnswerEnvelope, ListenerContinues, TypeInv, TypeOK
  <2>3. TypeOK'
    BY <1>2, <2>2, SMTT(30) DEF TypeInv, TypeOK, AnswerEnvelope, pipeVars, queueVars, sendResults
  <2>4. OwnInv' BY <1>2, <2>2 DEF TypeInv, OwnInv, AnswerEnvelope, pipeVars, queueVars
  <2> QED BY <2>3, <2>4 DEF TypeInv
<1>3. CASE ForwardEnvelope
  <2>1. out_queue' = Append(out_queue, lmsg) /\ Len(out_queue) < OutQueueSize
        /\ lpc = "forward" /\ lmsg' = NoMessage /\ lpc' \in {"done", "read"}
    BY <1>3 DEF ForwardEnvelope, Forward
  <2>2. out_queue' \in Seq(Messages) /\ Len(out_queue') <= OutQueueSize
    BY <1>0, <2>1, Sent
  <2>3. TypeOK'
    BY <1>3, <1>n, <2>1, <2>2
       DEF TypeInv, TypeOK, ForwardEnvelope, pipeVars, history, sendResults
  <2>4. UNCHANGED <<toNode, fromAgent, rpc, rmsg>> BY <1>3 DEF ForwardEnvelope, pipeVars
  <2>5. \A i \in 1..Len(out_queue') : out_queue'[i].id \in 1..fromAgent
    BY <1>0, <2>1, Sent DEF TypeInv, OwnInv
  <2> QED BY <2>1, <2>3, <2>4, <2>5 DEF TypeInv, OwnInv
<1>4. CASE AddAcnStatusMessage
  <2>1. acn_status_chan' \in Seq(Nat) /\ Len(acn_status_chan') <= StatusQueueSize
    BY <1>0, <1>4, <1>m, Sent DEF AddAcnStatusMessage, StatusHasRoom
  <2>2. TypeOK'
    BY <1>4, <1>n, <2>1
       DEF TypeInv, TypeOK, AddAcnStatusMessage, ListenerContinues, pipeVars, history, sendResults
  <2>3. OwnInv' BY <1>4 DEF TypeInv, OwnInv, AddAcnStatusMessage, ListenerContinues, pipeVars
  <2> QED BY <2>2, <2>3 DEF TypeInv
<1>5. CASE StopSendsNil
  <2>1. send_queue' \in Seq(Nat) /\ Len(send_queue') <= SendQueueSize
    BY <1>0, <1>5, Sent DEF StopSendsNil
  <2>2. TypeOK' BY <1>5, <2>1 DEF TypeInv, TypeOK, StopSendsNil, pipeVars, history, sendResults
  <2>3. OwnInv' BY <1>5 DEF TypeInv, OwnInv, StopSendsNil, pipeVars
  <2> QED BY <2>2, <2>3 DEF TypeInv
<1>6. CASE ReadFails \/ StopSetsClosing \/ StopClosesPipe \/ StopClosesOut \/ StopClosesSend
  <2>1. /\ UNCHANGED <<toNode, toAgent, fromAgent, send_queue, out_queue, acn_status_chan, lmsg,
                       spc, senv, rpc, rmsg, processEnvelope, history>>
        /\ pipe' \in {pipe, "closed"}
        /\ lpc' \in {"stop", "closePipe", "closeOut", "closeSend", "done"}
    BY <1>6 DEF ReadFails, StopSetsClosing, StopClosesPipe, StopClosesOut, CloseOut,
                StopClosesSend, pipeVars, queueVars
  <2>2. closing' \in BOOLEAN /\ outOpen' \in BOOLEAN /\ sendOpen' \in BOOLEAN
    BY <1>6 DEF TypeInv, TypeOK, ReadFails, StopSetsClosing, StopClosesPipe, StopClosesOut,
                CloseOut, StopClosesSend, queueVars
  <2>3. TypeOK' BY <2>1, <2>2, SMTT(30) DEF TypeInv, TypeOK, history, sendResults
  <2>4. OwnInv' BY <2>1 DEF TypeInv, OwnInv
  <2> QED BY <2>3, <2>4 DEF TypeInv
<1> QED BY <1>1, <1>2, <1>3, <1>4, <1>5, <1>6 DEF Listener

\* The send loop keeps numbers.
LEMMA TypeSender ==
  ASSUME TypeInv, Sender
  PROVE  TypeInv'
<1>0. /\ send_queue \in Seq(Nat) /\ Len(send_queue) <= SendQueueSize /\ toAgent \in Seq(Nat)
      /\ acn_status_chan \in Seq(Nat) /\ Len(acn_status_chan) <= StatusQueueSize /\ senv \in Nat
  BY DEF TypeInv, TypeOK
<1>1. OwnInv'
  BY DEF TypeInv, OwnInv, Sender, Receive, WriteEnvelope, TakeStatus, StatusTimeout, CheckClosing,
         pipeVars, queueVars
<1>2. CASE Receive
  <2>1. senv' \in Nat /\ send_queue' \in Seq(Nat) /\ Len(send_queue') <= SendQueueSize
        /\ spc' \in {"done", "write"}
    <3>1. CASE send_queue = <<>> BY <1>0, <1>2, <3>1 DEF Receive
    <3>2. CASE send_queue # <<>>
      <4>1. senv' = Head(send_queue) /\ send_queue' = Tail(send_queue) /\ spc' \in {"done", "write"}
        BY <1>2, <3>2 DEF Receive
      <4> QED BY <1>0, <3>2, <4>1, Received
    <3> QED BY <3>1, <3>2
  <2> QED BY <1>1, <1>2, <2>1, SMTT(30) DEF TypeInv, TypeOK, Receive, pipeVars, history, sendResults
<1>3. CASE WriteEnvelope
  <2>1. toAgent' \in Seq(Nat) /\ failed' \subseteq Nat /\ spc' \in {"wait", "check"}
    <3>1. Append(toAgent, senv) \in Seq(Nat) BY <1>0, Sent
    <3>2. toAgent' \in {toAgent, Append(toAgent, senv)} /\ failed' \in {failed, failed \cup {senv}}
          /\ spc' \in {"wait", "check"}
      BY <1>3 DEF WriteEnvelope
    <3> QED BY <1>0, <3>1, <3>2 DEF TypeInv, TypeOK
  <2>2. UNCHANGED <<pipe, toNode, fromAgent, queueVars, lpc, lmsg, senv, rpc, rmsg,
                    processEnvelope, incoming, accepted, acked, routed, confirmed, unconfirmed,
                    panicked>>
    BY <1>3 DEF WriteEnvelope
  <2> QED BY <1>1, <2>1, <2>2, SMTT(30) DEF TypeInv, TypeOK, queueVars
<1>4. CASE TakeStatus
  <2>1. PICK h : h = Head(acn_status_chan) OBVIOUS
  <2>2. h \in Nat /\ acn_status_chan' \in Seq(Nat) /\ Len(acn_status_chan') <= StatusQueueSize
    BY <1>0, <1>4, <2>1, Received DEF TakeStatus, Take
  <2>3. confirmed' = confirmed \cup {<<senv, h>>} BY <1>4, <2>1 DEF TakeStatus
  <2>4. confirmed' \subseteq Nat \X Nat BY <1>0, <2>2, <2>3 DEF TypeInv, TypeOK
  <2> QED BY <1>1, <1>4, <2>2, <2>4 DEF TypeInv, TypeOK, TakeStatus, pipeVars
<1>5. CASE StatusTimeout
  BY <1>0, <1>1, <1>5 DEF TypeInv, TypeOK, StatusTimeout, pipeVars, queueVars
<1>6. CASE CheckClosing
  BY <1>1, <1>6 DEF TypeInv, TypeOK, CheckClosing, pipeVars, queueVars, history, sendResults
<1> QED BY <1>2, <1>3, <1>4, <1>5, <1>6 DEF Sender

\* The routing goroutine, main and the handlers of the node keep the types.
LEMMA TypeNode ==
  ASSUME TypeInv, Router \/ SetProcessEnvelope \/ IncomingPuts
  PROVE  TypeInv'
<1>0. /\ send_queue \in Seq(Nat) /\ accepted \in Nat /\ out_queue \in Seq(Messages)
      /\ fromAgent \in 0..MaxFromAgent /\ routed \in Seq(1..MaxFromAgent)
      /\ Len(out_queue) <= OutQueueSize
  BY DEF TypeInv, TypeOK
<1>n. NoMessage \in Messages BY DEF NoMessage, Messages, Kinds
<1>1. ASSUME Put PROVE send_queue' \in Seq(Nat) /\ Len(send_queue') <= SendQueueSize /\ accepted' \in Nat
  BY <1>0, <1>1, Sent DEF Put
<1>2. ASSUME RouteReturns, rpc \in {"route", "put"}
      PROVE  routed' \in Seq(1..MaxFromAgent) /\ rpc' = "range" /\ rmsg' = NoMessage
  <2>1. rmsg.id \in 1..MaxFromAgent BY <1>0, <1>2 DEF TypeInv, OwnInv
  <2> QED BY <1>0, <1>2, <2>1, Sent DEF RouteReturns
<1>3. CASE RangeQueue
  <2>1. CASE out_queue # <<>>
    <3>1. PICK h : h = Head(out_queue) OBVIOUS
    <3>2. /\ h \in Messages /\ h = out_queue[1] /\ 1 \in 1..Len(out_queue)
          /\ out_queue' \in Seq(Messages) /\ Len(out_queue') <= OutQueueSize
          /\ \A i \in 1..Len(out_queue') :
                out_queue'[i] = out_queue[i + 1] /\ i + 1 \in 1..Len(out_queue)
      <4>1. out_queue' = Tail(out_queue) BY <1>3, <2>1 DEF RangeQueue
      <4>2. Len(out_queue') = Len(out_queue) - 1 BY <1>0, <2>1, <4>1, Received
      <4> QED BY <1>0, <2>1, <3>1, <4>1, <4>2, Received
    <3>3. rmsg' = h /\ rpc' = "route" BY <1>3, <2>1, <3>1 DEF RangeQueue
    <3>4. TypeOK' BY <1>3, <3>2, <3>3 DEF TypeInv, TypeOK, RangeQueue, pipeVars, history, sendResults
    <3>5. OwnInv' BY <1>3, <3>2, <3>3 DEF TypeInv, OwnInv, RangeQueue, pipeVars
    <3> QED BY <3>4, <3>5 DEF TypeInv
  <2>2. CASE out_queue = <<>>
    BY <1>3, <2>2 DEF TypeInv, TypeOK, OwnInv, RangeQueue, pipeVars, history, sendResults
  <2> QED BY <2>1, <2>2
<1>4. CASE Route
  <2>1. CASE rpc' = "put" /\ UNCHANGED <<routed, rmsg>>
    BY <1>4, <2>1 DEF TypeInv, TypeOK, OwnInv, Route, pipeVars, queueVars, sendResults
  <2>2. CASE RouteReturns
    BY <1>2, <1>4, <1>n, <2>2
       DEF TypeInv, TypeOK, OwnInv, Route, pipeVars, queueVars, sendResults
  <2> QED BY <1>4, <2>1, <2>2 DEF Route
<1>5. CASE RouterPuts
  <2>1. CASE Put /\ RouteReturns /\ UNCHANGED panicked
    BY <1>1, <1>2, <1>5, <1>n, <2>1, SMTT(30)
       DEF TypeInv, TypeOK, OwnInv, RouterPuts, pipeVars, sendResults
  <2>2. CASE PutPanics /\ UNCHANGED <<send_queue, accepted, routed, rpc, rmsg>>
    BY <1>5, <2>2 DEF TypeInv, TypeOK, OwnInv, RouterPuts, PutPanics, pipeVars, sendResults
  <2> QED BY <1>5, <2>1, <2>2 DEF RouterPuts
<1>6. CASE IncomingPuts
  <2>1. incoming' \in 0..MaxIncoming BY <1>6 DEF IncomingPuts, TypeInv, TypeOK
  <2>2. CASE Put /\ UNCHANGED panicked
    BY <1>1, <1>6, <2>1, <2>2
       DEF TypeInv, TypeOK, OwnInv, IncomingPuts, pipeVars, loopVars, sendResults
  <2>3. CASE PutPanics /\ UNCHANGED <<send_queue, accepted>>
    BY <1>6, <2>1, <2>3
       DEF TypeInv, TypeOK, OwnInv, IncomingPuts, PutPanics, pipeVars, loopVars, sendResults
  <2> QED BY <1>6, <2>2, <2>3 DEF IncomingPuts
<1>7. CASE SetProcessEnvelope
  BY <1>7 DEF TypeInv, TypeOK, OwnInv, SetProcessEnvelope, pipeVars, queueVars, history, sendResults
<1> QED BY <1>3, <1>4, <1>5, <1>6, <1>7 DEF Router

\* Every step keeps the types.
LEMMA TypeNext == TypeInv /\ [Next]_vars => TypeInv'
<1> SUFFICES ASSUME TypeInv, [Next]_vars PROVE TypeInv' OBVIOUS
<1>1. CASE UNCHANGED vars
  BY <1>1 DEF TypeInv, TypeOK, OwnInv, vars, pipeVars, queueVars, loopVars, history, sendResults
<1>2. CASE Next BY <1>2, TypeAgent, TypeListener, TypeSender, TypeNode DEF Next
<1> QED BY <1>1, <1>2

\* The channels of AeaApi stay within their capacities, and everything has its type.
THEOREM TypeCorrect == Spec => []TypeOK
<1>1. TypeInv => TypeOK BY DEF TypeInv
<1> QED BY <1>1, TypeInit, TypeNext, PTL DEF Spec

-----------------------------------------------------------------------------
(* The numbers in a queue.                                                  *)

Numbers(q) == {q[i] : i \in 1..Len(q)}
Ascending(q) == \A i, j \in 1..Len(q) : i < j => q[i] < q[j]

\* The messages of the kinds K in a queue of messages.
Part(q, K) == {i \in 1..Len(q) : q[i].kind \in K}
IdsOf(q, K) == {q[i].id : i \in Part(q, K)}
AscendingIds(q, K) == \A i, j \in Part(q, K) : i < j => q[i].id < q[j].id

Before(S, T) == \A s \in S, t \in T : s < t

\* A number that is sent is one more, and in order if it is larger than the others.
LEMMA NumberSent ==
  ASSUME NEW q \in Seq(Nat), NEW x \in Nat
  PROVE  /\ Numbers(Append(q, x)) = Numbers(q) \cup {x}
         /\ Ascending(q) /\ Before(Numbers(q), {x}) => Ascending(Append(q, x))
<1> DEFINE r == Append(q, x)
<1>1. /\ Len(q) \in Nat /\ Len(r) = Len(q) + 1
      /\ \A i \in 1..Len(q) : r[i] = q[i]
      /\ r[Len(q) + 1] = x
      /\ \A i \in 1..Len(r) : i \in 1..Len(q) \/ i = Len(q) + 1
  BY Sent
<1> HIDE DEF r
<1>2. (\A i \in 1..Len(q) : i \in 1..Len(r)) /\ Len(q) + 1 \in 1..Len(r) BY <1>1
<1>3. Numbers(r) = Numbers(q) \cup {x} BY <1>1, <1>2 DEF Numbers
<1>4. ASSUME Ascending(q), Before(Numbers(q), {x}) PROVE Ascending(r)
  <2>1. \A i \in 1..Len(q) : q[i] < x BY <1>4 DEF Before, Numbers
  <2> SUFFICES ASSUME NEW i \in 1..Len(r), NEW j \in 1..Len(r), i < j PROVE r[i] < r[j]
    BY DEF Ascending
  <2>2. i \in 1..Len(q) BY <1>1
  <2>3. CASE j \in 1..Len(q) BY <1>1, <1>4, <2>2, <2>3 DEF Ascending
  <2>4. CASE j = Len(q) + 1 BY <1>1, <2>1, <2>2, <2>4
  <2> QED BY <1>1, <2>3, <2>4
<1> QED BY <1>3, <1>4 DEF r

\* A number that is received was the smallest, if they were in order.
LEMMA NumberReceived ==
  ASSUME NEW q \in Seq(Nat), q # <<>>
  PROVE  /\ Numbers(q) = Numbers(Tail(q)) \cup {Head(q)}
         /\ Ascending(q) => Ascending(Tail(q)) /\ Before({Head(q)}, Numbers(Tail(q)))
<1> DEFINE r == Tail(q)
           h == Head(q)
<1>1. /\ Len(q) \in Nat \ {0} /\ Len(r) = Len(q) - 1 /\ h = q[1]
      /\ \A i \in 1..Len(r) : r[i] = q[i + 1] /\ i + 1 \in 1..Len(q)
  BY Received
<1> HIDE DEF r, h
<1>2. 1 \in 1..Len(q) /\ \A i \in 1..Len(q) : i = 1 \/ (i - 1 \in 1..Len(r) /\ (i - 1) + 1 = i)
  BY <1>1
<1>3. Numbers(q) = Numbers(r) \cup {h}
  <2>1. ASSUME NEW i \in 1..Len(q) PROVE q[i] \in Numbers(r) \cup {h}
    <3>1. CASE i = 1 BY <1>1, <3>1
    <3>2. CASE i - 1 \in 1..Len(r) /\ (i - 1) + 1 = i
      <4>1. r[i - 1] = q[i] BY <1>1, <3>2
      <4> QED BY <3>2, <4>1 DEF Numbers
    <3> QED BY <1>2, <3>1, <3>2
  <2>2. \A i \in 1..Len(r) : r[i] \in Numbers(q) BY <1>1 DEF Numbers
  <2>3. h \in Numbers(q) BY <1>1, <1>2 DEF Numbers
  <2> QED BY <2>1, <2>2, <2>3 DEF Numbers
<1>4. ASSUME Ascending(q) PROVE Ascending(r)
  <2> SUFFICES ASSUME NEW i \in 1..Len(r), NEW j \in 1..Len(r), i < j PROVE r[i] < r[j]
    BY DEF Ascending
  <2>1. i + 1 < j + 1 BY <1>1
  <2> QED BY <1>1, <1>4, <2>1 DEF Ascending
<1>5. ASSUME Ascending(q) PROVE Before({h}, Numbers(r))
  <2> SUFFICES ASSUME NEW i \in 1..Len(r) PROVE h < r[i] BY DEF Before, Numbers
  <2>1. 1 < i + 1 BY <1>1
  <2> QED BY <1>1, <1>2, <1>5, <2>1 DEF Ascending
<1> QED BY <1>3, <1>4, <1>5 DEF r, h

\* The same for the messages of the kinds K.
LEMMA MessageSent ==
  ASSUME NEW q \in Seq(Messages), NEW m \in Messages, NEW K
  PROVE  /\ m.kind \notin K => IdsOf(Append(q, m), K) = IdsOf(q, K)
         /\ m.kind \in K =>
               \A n : n \in IdsOf(Append(q, m), K) <=> n \in IdsOf(q, K) \/ n = m.id
         /\ AscendingIds(q, K) /\ (m.kind \in K => Before(IdsOf(q, K), {m.id}))
               => AscendingIds(Append(q, m), K)
<1> DEFINE r == Append(q, m)
<1>1. /\ Len(q) \in Nat /\ Len(r) = Len(q) + 1
      /\ \A i \in 1..Len(q) : r[i] = q[i]
      /\ r[Len(q) + 1] = m
      /\ \A i \in 1..Len(r) : i \in 1..Len(q) \/ i = Len(q) + 1
  BY Sent
<1> HIDE DEF r
<1>2. (\A i \in 1..Len(q) : i \in 1..Len(r)) /\ Len(q) + 1 \in 1..Len(r) BY <1>1
<1>3. /\ \A i \in Part(r, K) : i \in Part(q, K) \/ (i = Len(q) + 1 /\ m.kind \in K)
      /\ \A i \in Part(q, K) : i \in Part(r, K) /\ r[i] = q[i]
      /\ m.kind \in K => Len(q) + 1 \in Part(r, K)
  BY <1>1, <1>2 DEF Part
<1>4. ASSUME m.kind \notin K PROVE IdsOf(r, K) = IdsOf(q, K)
  BY <1>3, <1>4 DEF IdsOf
<1>5. ASSUME m.kind \in K PROVE \A n : n \in IdsOf(r, K) <=> n \in IdsOf(q, K) \/ n = m.id
  BY <1>1, <1>3, <1>5 DEF IdsOf
<1>6. ASSUME AscendingIds(q, K), m.kind \in K => Before(IdsOf(q, K), {m.id})
      PROVE  AscendingIds(r, K)
  <2> SUFFICES ASSUME NEW i \in Part(r, K), NEW j \in Part(r, K), i < j PROVE r[i].id < r[j].id
    BY DEF AscendingIds
  <2>1. i \in Part(q, K) BY <1>1, <1>3 DEF Part
  <2>2. CASE j \in Part(q, K) BY <1>3, <1>6, <2>1, <2>2 DEF AscendingIds
  <2>3. CASE j = Len(q) + 1 /\ m.kind \in K
    <3>1. q[i].id < m.id BY <1>6, <2>1, <2>3 DEF Before, IdsOf
    <3> QED BY <1>1, <1>3, <2>1, <2>3, <3>1
  <2> QED BY <1>3, <2>2, <2>3
<1> QED BY <1>4, <1>5, <1>6 DEF r

\* And for a message that is received.
LEMMA MessageReceived ==
  ASSUME NEW q \in Seq(Messages), q # <<>>, NEW K
  PROVE  /\ Head(q).kind \notin K => IdsOf(Tail(q), K) = IdsOf(q, K)
         /\ Head(q).kind \in K => IdsOf(q, K) = IdsOf(Tail(q), K) \cup {Head(q).id}
         /\ AscendingIds(q, K) => AscendingIds(Tail(q), K)
         /\ AscendingIds(q, K) /\ Head(q).kind \in K => Before({Head(q).id}, IdsOf(Tail(q), K))
<1> DEFINE r == Tail(q)
           h == Head(q)
<1>1. /\ Len(q) \in Nat \ {0} /\ Len(r) = Len(q) - 1 /\ h = q[1]
      /\ \A i \in 1..Len(r) : r[i] = q[i + 1] /\ i + 1 \in 1..Len(q)
  BY Received
<1> HIDE DEF r, h
<1>2. \A i \in 1..Len(q) : i = 1 \/ (i - 1 \in 1..Len(r) /\ r[i - 1] = q[i])
  <2> SUFFICES ASSUME NEW i \in 1..Len(q), i # 1 PROVE i - 1 \in 1..Len(r) /\ r[i - 1] = q[i]
    OBVIOUS
  <2>1. i - 1 \in 1..Len(r) /\ (i - 1) + 1 = i BY <1>1
  <2> QED BY <1>1, <2>1
<1>3. /\ \A i \in Part(r, K) : i + 1 \in Part(q, K) /\ q[i + 1] = r[i] /\ i \in Nat /\ 1 < i + 1
      /\ \A i \in Part(q, K) : \/ i = 1 /\ h.kind \in K
                               \/ i - 1 \in Part(r, K) /\ r[i - 1] = q[i]
      /\ h.kind \in K => 1 \in Part(q, K)
  <2>1. ASSUME NEW i \in Part(r, K)
        PROVE  i + 1 \in Part(q, K) /\ q[i + 1] = r[i] /\ i \in Nat /\ 1 < i + 1
    BY <1>1 DEF Part
  <2>2. ASSUME NEW i \in Part(q, K)
        PROVE  \/ i = 1 /\ h.kind \in K
               \/ i - 1 \in Part(r, K) /\ r[i - 1] = q[i]
    BY <1>1, <1>2 DEF Part
  <2>3. h.kind \in K => 1 \in Part(q, K) BY <1>1 DEF Part
  <2> QED BY <2>1, <2>2, <2>3
<1>4. ASSUME h.kind \notin K PROVE IdsOf(r, K) = IdsOf(q, K)
  BY <1>3, <1>4 DEF IdsOf
<1>5. ASSUME h.kind \in K PROVE IdsOf(q, K) = IdsOf(r, K) \cup {h.id}
  <2>1. \A i \in Part(q, K) : q[i].id \in IdsOf(r, K) \cup {h.id} BY <1>1, <1>3 DEF IdsOf
  <2>2. \A i \in Part(r, K) : r[i].id \in IdsOf(q, K) BY <1>3 DEF IdsOf
  <2>3. h.id \in IdsOf(q, K) BY <1>1, <1>3, <1>5 DEF IdsOf
  <2> QED BY <2>1, <2>2, <2>3 DEF IdsOf
<1>6. ASSUME AscendingIds(q, K) PROVE AscendingIds(r, K)
  <2> SUFFICES ASSUME NEW i \in Part(r, K), NEW j \in Part(r, K), i < j PROVE r[i].id < r[j].id
    BY DEF AscendingIds
  <2>1. i + 1 < j + 1 BY <1>3
  <2> QED BY <1>3, <1>6, <2>1 DEF AscendingIds
<1>7. ASSUME AscendingIds(q, K), h.kind \in K PROVE Before({h.id}, IdsOf(r, K))
  <2> SUFFICES ASSUME NEW i \in Part(r, K) PROVE h.id < r[i].id BY DEF Before, IdsOf
  <2> QED BY <1>1, <1>3, <1>7 DEF AscendingIds
<1> QED BY <1>4, <1>5, <1>6, <1>7 DEF r, h

\* Two queues in one.
LEMMA Concatenated ==
  ASSUME NEW q \in Seq(Nat), NEW r \in Seq(Nat)
  PROVE  /\ q \o r \in Seq(Nat)
         /\ Numbers(q \o r) = Numbers(q) \cup Numbers(r)
         /\ Ascending(q) /\ Ascending(r) /\ Before(Numbers(q), Numbers(r)) => Ascending(q \o r)
<1> DEFINE s == q \o r
<1>1. /\ s \in Seq(Nat) /\ Len(q) \in Nat /\ Len(r) \in Nat /\ Len(s) = Len(q) + Len(r)
  BY ConcatProperties, LenProperties
<1>v. \A i \in 1..Len(s) : s[i] = IF i <= Len(q) THEN q[i] ELSE r[i - Len(q)]
  BY ConcatProperties
<1> HIDE DEF s
<1>2. ASSUME NEW i \in 1..Len(s)
      PROVE  \/ i \in 1..Len(q) /\ s[i] = q[i]
             \/ i > Len(q) /\ i - Len(q) \in 1..Len(r) /\ s[i] = r[i - Len(q)]
  BY <1>1, <1>v
<1>3. ASSUME NEW i \in 1..Len(q) PROVE i \in 1..Len(s) /\ s[i] = q[i] BY <1>1, <1>v
<1>4. ASSUME NEW i \in 1..Len(r) PROVE Len(q) + i \in 1..Len(s) /\ s[Len(q) + i] = r[i]
  <2>1. Len(q) + i \in 1..Len(s) /\ ~ (Len(q) + i <= Len(q)) /\ (Len(q) + i) - Len(q) = i BY <1>1
  <2> QED BY <1>v, <2>1
<1>5. Numbers(s) = Numbers(q) \cup Numbers(r)
  <2>1. \A i \in 1..Len(s) : s[i] \in Numbers(q) \cup Numbers(r) BY <1>2 DEF Numbers
  <2>2. \A i \in 1..Len(q) : q[i] \in Numbers(s) BY <1>3 DEF Numbers
  <2>3. \A i \in 1..Len(r) : r[i] \in Numbers(s) BY <1>4 DEF Numbers
  <2> QED BY <2>1, <2>2, <2>3 DEF Numbers
<1>6. ASSUME Ascending(q), Ascending(r), Before(Numbers(q), Numbers(r)) PROVE Ascending(s)
  <2> SUFFICES ASSUME NEW i \in 1..Len(s), NEW j \in 1..Len(s), i < j PROVE s[i] < s[j]
    BY DEF Ascending
  <2>1. CASE j \in 1..Len(q)
    <3>1. i \in 1..Len(q) BY <1>1, <2>1
    <3> QED BY <1>3, <1>6, <2>1, <3>1 DEF Ascending
  <2>2. CASE i \in 1..Len(q) /\ j > Len(q)
    <3>1. s[i] \in Numbers(q) BY <1>3, <2>2 DEF Numbers
    <3>2. j - Len(q) \in 1..Len(r) /\ s[j] = r[j - Len(q)] BY <1>1, <1>2, <2>2
    <3>3. s[j] \in Numbers(r) BY <3>2 DEF Numbers
    <3> QED BY <1>6, <3>1, <3>3 DEF Before
  <2>3. CASE i > Len(q)
    <3>1. i - Len(q) \in 1..Len(r) /\ j - Len(q) \in 1..Len(r) /\ i - Len(q) < j - Len(q)
          /\ ~ (i <= Len(q)) /\ ~ (j <= Len(q))
      BY <1>1, <2>3
    <3>2. s[i] = r[i - Len(q)] /\ s[j] = r[j - Len(q)] BY <1>v, <3>1
    <3>3. r[i - Len(q)] < r[j - Len(q)] BY <1>6, <3>1 DEF Ascending
    <3> QED BY <3>2, <3>3
  <2> QED BY <1>1, <2>1, <2>2, <2>3
<1> QED BY <1>1, <1>5, <1>6 DEF s

-----------------------------------------------------------------------------
(* The envelopes of the agent, from the pipe to RouteEnvelope.              *)

AllKinds == Kinds \cup {"status"}

\* Their numbers at each stage.
ToCome == IdsOf(toNode, Kinds)
InListener == IF lpc \in {"answer", "forward"} THEN {lmsg.id} ELSE {}
Queued == IdsOf(out_queue, AllKinds)
InRouter == IF rpc \in {"route", "put"} THEN {rmsg.id} ELSE {}
Routed == Numbers(routed)
Forwarding == IF lpc = "forward" THEN {lmsg.id} ELSE {}

\* Each stage has them in order and is ahead of the one before it; what was answered
\* with SUCCESS is at one of the last four.
LineInv ==
    /\ AscendingIds(toNode, Kinds) /\ AscendingIds(out_queue, AllKinds) /\ Ascending(routed)
    /\ Before(InListener, ToCome)
    /\ Before(Queued, InListener \cup ToCome)
    /\ Before(InRouter, Queued \cup InListener \cup ToCome)
    /\ Before(Routed, InRouter \cup Queued \cup InListener \cup ToCome)
    /\ acked \subseteq Routed \cup InRouter \cup Queued \cup Forwarding
    /\ Routed \subseteq 1..fromAgent

\* The numbers are those of what was written; nothing has two places.
LEMMA LineTypes ==
  ASSUME TypeInv
  PROVE  /\ ToCome \subseteq 1..fromAgent /\ InListener \subseteq 1..fromAgent
         /\ Queued \subseteq 1..fromAgent /\ InRouter \subseteq 1..fromAgent
         /\ Routed \subseteq Nat /\ Forwarding \subseteq InListener
         /\ fromAgent \in Nat
<1>1. fromAgent \in Nat /\ routed \in Seq(1..MaxFromAgent) BY DEF TypeInv, TypeOK
<1>2. ToCome \subseteq 1..fromAgent
  BY DEF TypeInv, OwnInv, ToCome, IdsOf, Part, Kinds, OwnKinds
<1>3. Queued \subseteq 1..fromAgent BY DEF TypeInv, OwnInv, Queued, IdsOf, Part
<1>4. InListener \subseteq 1..fromAgent /\ InRouter \subseteq 1..fromAgent
      /\ Forwarding \subseteq InListener
  BY DEF TypeInv, OwnInv, InListener, InRouter, Forwarding
<1>5. Routed \subseteq Nat
  <2>1. \A i \in 1..Len(routed) : routed[i] \in 1..MaxFromAgent BY <1>1, ElementOfSeq
  <2> QED BY <2>1 DEF Routed, Numbers
<1> QED BY <1>1, <1>2, <1>3, <1>4, <1>5

\* A step that moves no envelope of the agent.
LEMMA LineQuiet ==
  ASSUME LineInv, UNCHANGED <<toNode, fromAgent, out_queue, routed, acked, lmsg, rmsg>>,
         rpc \in {"route", "put"} <=> rpc' \in {"route", "put"},
         \/ UNCHANGED lpc
         \/ lpc \notin {"answer", "forward"} /\ lpc' \notin {"answer", "forward"}
  PROVE  LineInv'
<1>1. /\ ToCome' = ToCome /\ InListener' = InListener /\ Queued' = Queued /\ InRouter' = InRouter
      /\ Routed' = Routed /\ Forwarding' = Forwarding
  BY DEF ToCome, InListener, Queued, InRouter, Routed, Forwarding
<1> QED BY <1>1 DEF LineInv

\* What the agent writes is later than all the rest.
LEMMA LineAgent ==
  ASSUME TypeInv, LineInv, Agent
  PROVE  LineInv'
<1>0. toNode \in Seq(Messages) /\ toAgent \in Seq(Nat) BY DEF TypeInv, TypeOK
<1>1. /\ UNCHANGED <<lpc, lmsg, rpc, rmsg, out_queue, routed, acked>>
      /\ InListener' = InListener /\ Queued' = Queued /\ InRouter' = InRouter
      /\ Routed' = Routed /\ Forwarding' = Forwarding
  BY DEF Agent, AgentWrites, AgentAnswers, AgentGone, queueVars, loopVars, history, InListener,
         Queued, InRouter, Routed, Forwarding
<1>2. ASSUME NEW kind \in Kinds, AgentWrites(kind) PROVE LineInv'
  <2>1. PICK m : m = [kind |-> kind, id |-> fromAgent + 1] OBVIOUS
  <2>2. m \in Messages /\ m.id = fromAgent + 1 /\ m.kind \in Kinds
    BY <2>1, LineTypes DEF Messages
  <2>3. toNode' = Append(toNode, m) BY <1>2, <2>1 DEF AgentWrites
  <2>4. ToCome' = ToCome \cup {fromAgent + 1}
    <3>1. \A n : n \in IdsOf(Append(toNode, m), Kinds) <=> n \in IdsOf(toNode, Kinds) \/ n = m.id
      BY <1>0, <2>2, MessageSent
    <3> QED BY <2>2, <2>3, <3>1 DEF ToCome
  <2>5. fromAgent' = fromAgent + 1 /\ fromAgent \in Nat BY <1>2, LineTypes DEF AgentWrites
  <2>6. \A n \in 1..fromAgent : n < fromAgent + 1 /\ n \in 1..fromAgent' BY <2>5
  <2>7. AscendingIds(toNode', Kinds)
    <3>1. Before(IdsOf(toNode, Kinds), {m.id}) BY <2>2, <2>6, LineTypes DEF Before, ToCome
    <3> QED BY <1>0, <2>2, <2>3, <3>1, MessageSent DEF LineInv
  <2>8. /\ Before(InListener, ToCome') /\ Before(Queued, InListener \cup ToCome')
        /\ Before(InRouter, Queued \cup InListener \cup ToCome')
        /\ Before(Routed, InRouter \cup Queued \cup InListener \cup ToCome')
    BY <2>4, <2>6, LineTypes DEF LineInv, Before
  <2>9. Routed \subseteq 1..fromAgent' BY <2>6 DEF LineInv
  <2> QED BY <1>1, <2>7, <2>8, <2>9 DEF LineInv
<1>3. ASSUME AgentAnswers PROVE LineInv'
  <2>1. PICK m : m = [kind |-> "status", id |-> Head(toAgent)] OBVIOUS
  <2>2. m \in Messages /\ m.kind \notin Kinds
    BY <1>0, <1>3, <2>1, Received DEF AgentAnswers, Messages, Kinds, OwnKinds
  <2>3. toNode' = Append(toNode, m) BY <1>3, <2>1 DEF AgentAnswers
  <2>4. ToCome' = ToCome /\ AscendingIds(toNode', Kinds)
    BY <1>0, <2>2, <2>3, MessageSent DEF ToCome, LineInv
  <2>5. UNCHANGED fromAgent BY <1>3 DEF AgentAnswers
  <2> QED BY <1>1, <2>4, <2>5 DEF LineInv
<1>4. ASSUME AgentGone PROVE LineInv'
  BY <1>1, <1>4 DEF AgentGone, LineInv, ToCome
<1> QED BY <1>2, <1>3, <1>4 DEF Agent

\* The listener takes the messages in order, and answers before it forwards.
LEMMA LineListener ==
  ASSUME TypeInv, LineInv, Listener
  PROVE  LineInv'
<1>0. /\ toNode \in Seq(Messages) /\ out_queue \in Seq(Messages) /\ lmsg \in Messages
      /\ AllKinds = Kinds \cup {"status"}
  BY DEF TypeInv, TypeOK, AllKinds
<1>1. /\ UNCHANGED <<rpc, rmsg, routed, fromAgent>>
      /\ InRouter' = InRouter /\ Routed' = Routed
  BY DEF Listener, Read, AnswerEnvelope, ForwardEnvelope, AddAcnStatusMessage, ReadFails,
         StopSendsNil, StopSetsClosing, StopClosesPipe, StopClosesOut, StopClosesSend,
         pipeVars, history, InRouter, Routed
<1>2. CASE Read
  <2>1. PICK h : h = Head(toNode) OBVIOUS
  <2>2. /\ h \in Messages /\ lpc = "read" /\ toNode # <<>> /\ toNode' = Tail(toNode)
        /\ UNCHANGED <<out_queue, acked>>
    BY <1>0, <1>2, <2>1, Received DEF Read, queueVars, history
  <2>3. AscendingIds(toNode', Kinds) BY <1>0, <2>2, MessageReceived DEF LineInv
  <2>4. /\ Queued' = Queued /\ Forwarding' = {} /\ Forwarding = {} /\ InListener = {}
        /\ (InListener' = {} \/ (InListener' = {h.id} /\ h.kind \in Kinds))
    BY <1>2, <2>1, <2>2 DEF Queued, Forwarding, InListener, Read, Messages, Kinds
  <2>5. ToCome' \subseteq ToCome /\ (h.kind \in Kinds => h.id \in ToCome /\ Before({h.id}, ToCome'))
    <3>1. CASE h.kind \in Kinds
      <4>1. /\ IdsOf(toNode, Kinds) = IdsOf(Tail(toNode), Kinds) \cup {h.id}
            /\ Before({h.id}, IdsOf(Tail(toNode), Kinds))
        BY <1>0, <2>1, <2>2, <3>1, MessageReceived DEF LineInv
      <4> QED BY <2>2, <3>1, <4>1 DEF ToCome
    <3>2. CASE h.kind \notin Kinds BY <1>0, <2>1, <2>2, <3>2, MessageReceived DEF ToCome
    <3> QED BY <3>1, <3>2
  <2>6. Before(InListener', ToCome') BY <2>4, <2>5 DEF Before
  <2>7. InListener' \cup ToCome' \subseteq ToCome BY <2>4, <2>5
  <2>8. /\ Before(Queued, InListener' \cup ToCome')
        /\ Before(InRouter, Queued \cup InListener' \cup ToCome')
        /\ Before(Routed, InRouter \cup Queued \cup InListener' \cup ToCome')
    BY <2>7 DEF LineInv, Before
  <2> QED BY <1>1, <2>2, <2>3, <2>4, <2>6, <2>8 DEF LineInv
<1>3. CASE AnswerEnvelope
  <2>1. lpc = "answer" /\ UNCHANGED <<toNode, out_queue>> /\ ToCome' = ToCome /\ Queued' = Queued
    BY <1>3 DEF AnswerEnvelope, pipeVars, queueVars, ToCome, Queued
  <2>2. InListener = {lmsg.id} /\ Forwarding = {} BY <2>1 DEF InListener, Forwarding
  <2>3. \/ lpc' = "forward" /\ lmsg' = lmsg /\ acked' \subseteq acked \cup {lmsg.id}
        \/ lpc' = "read" /\ acked' = acked
    BY <1>3 DEF AnswerEnvelope, ListenerContinues
  <2>4. /\ InListener' \subseteq InListener
        /\ acked' \subseteq Routed \cup InRouter \cup Queued \cup Forwarding'
    BY <2>2, <2>3 DEF InListener, Forwarding, LineInv
  <2>5. /\ Before(InListener', ToCome) /\ Before(Queued, InListener' \cup ToCome)
        /\ Before(InRouter, Queued \cup InListener' \cup ToCome)
        /\ Before(Routed, InRouter \cup Queued \cup InListener' \cup ToCome)
    BY <2>4 DEF LineInv, Before
  <2> QED BY <1>1, <2>1, <2>4, <2>5 DEF LineInv
<1>4. CASE ForwardEnvelope
  <2>1. /\ lpc = "forward" /\ lpc' \in {"done", "read"} /\ out_queue' = Append(out_queue, lmsg)
        /\ UNCHANGED <<toNode, acked>> /\ ToCome' = ToCome
    BY <1>4 DEF ForwardEnvelope, Forward, pipeVars, history, ToCome
  <2>2. InListener = {lmsg.id} /\ Forwarding = {lmsg.id} /\ InListener' = {} /\ Forwarding' = {}
    BY <2>1 DEF InListener, Forwarding
  <2>3. lmsg.kind \in AllKinds BY <1>0 DEF Messages
  <2>4. Queued' = Queued \cup {lmsg.id}
    <3>1. \A n : n \in IdsOf(Append(out_queue, lmsg), AllKinds)
                   <=> n \in IdsOf(out_queue, AllKinds) \/ n = lmsg.id
      BY <1>0, <2>3, MessageSent
    <3> QED BY <2>1, <3>1 DEF Queued
  <2>5. AscendingIds(out_queue', AllKinds)
    <3>1. Before(IdsOf(out_queue, AllKinds), {lmsg.id}) BY <2>2 DEF LineInv, Before, Queued
    <3> QED BY <1>0, <2>1, <3>1, MessageSent DEF LineInv
  <2>6. /\ Before(InListener', ToCome) /\ Before(Queued', InListener' \cup ToCome)
        /\ Before(InRouter, Queued' \cup InListener' \cup ToCome)
        /\ Before(Routed, InRouter \cup Queued' \cup InListener' \cup ToCome)
    BY <2>2, <2>4 DEF LineInv, Before
  <2>7. acked' \subseteq Routed \cup InRouter \cup Queued' \cup Forwarding'
    BY <2>1, <2>2, <2>4 DEF LineInv
  <2> QED BY <1>1, <2>1, <2>5, <2>6, <2>7 DEF LineInv
<1>5. CASE AddAcnStatusMessage
  <2>1. /\ lpc = "status" /\ lpc' = "read" /\ UNCHANGED <<toNode, out_queue, acked>>
        /\ ToCome' = ToCome /\ Queued' = Queued
    BY <1>5 DEF AddAcnStatusMessage, ListenerContinues, pipeVars, history, ToCome, Queued
  <2>2. InListener' = InListener /\ Forwarding' = Forwarding BY <2>1 DEF InListener, Forwarding
  <2> QED BY <1>1, <2>1, <2>2 DEF LineInv
<1>6. CASE \/ ReadFails \/ StopSendsNil \/ StopSetsClosing \/ StopClosesPipe \/ StopClosesOut
           \/ StopClosesSend
  <2>1. /\ UNCHANGED <<toNode, fromAgent, out_queue, routed, acked, lmsg, rmsg, rpc>>
        /\ lpc \notin {"answer", "forward"} /\ lpc' \notin {"answer", "forward"}
    BY <1>6 DEF ReadFails, StopSendsNil, StopSetsClosing, StopClosesPipe, StopClosesOut,
                StopClosesSend, pipeVars, queueVars, history
  <2> QED BY <2>1, LineQuiet
<1> QED BY <1>2, <1>3, <1>4, <1>5, <1>6 DEF Listener

\* The routing goroutine takes the envelopes in order.
LEMMA LineRouter ==
  ASSUME TypeInv, LineInv, Router
  PROVE  LineInv'
<1>0. /\ out_queue \in Seq(Messages) /\ rmsg \in Messages /\ fromAgent \in 0..MaxFromAgent
      /\ routed \in Seq(1..MaxFromAgent)
  BY DEF TypeInv, TypeOK
<1>1. /\ UNCHANGED <<toNode, fromAgent, lpc, lmsg, acked>>
      /\ ToCome' = ToCome /\ InListener' = InListener /\ Forwarding' = Forwarding
  BY DEF Router, RangeQueue, Route, RouterPuts, pipeVars, history, ToCome, InListener, Forwarding
<1>2. ASSUME RouteReturns, UNCHANGED out_queue, rpc \in {"route", "put"} PROVE LineInv'
  <2>1. routed' = Append(routed, rmsg.id) /\ rpc' = "range" BY <1>2 DEF RouteReturns
  <2>2. InRouter = {rmsg.id} /\ InRouter' = {} /\ Queued' = Queued
    BY <1>2, <2>1 DEF InRouter, Queued
  <2>3. routed \in Seq(Nat) /\ rmsg.id \in Nat
    <3>1. Len(routed) \in Nat /\ \A i \in 1..Len(routed) : routed[i] \in Nat
      BY <1>0, ElementOfSeq, LenProperties
    <3>2. routed = [i \in 1..Len(routed) |-> routed[i]] BY <1>0, LenProperties
    <3>3. routed \in Seq(Nat) BY <3>1, <3>2, IsASeq
    <3> QED BY <1>0, <3>3 DEF Messages
  <2>4. Routed' = Routed \cup {rmsg.id} BY <2>1, <2>3, NumberSent DEF Routed
  <2>5. Ascending(routed')
    <3>1. Before(Numbers(routed), {rmsg.id}) BY <2>2 DEF LineInv, Before, Routed
    <3> QED BY <2>1, <2>3, <3>1, NumberSent DEF LineInv
  <2>6. /\ Before(InRouter', Queued \cup InListener \cup ToCome)
        /\ Before(Routed', InRouter' \cup Queued \cup InListener \cup ToCome)
    BY <2>2, <2>4 DEF LineInv, Before
  <2>7. /\ acked \subseteq Routed' \cup InRouter' \cup Queued \cup Forwarding
        /\ Routed' \subseteq 1..fromAgent
    BY <2>2, <2>4, LineTypes DEF LineInv
  <2> QED BY <1>1, <1>2, <2>2, <2>5, <2>6, <2>7 DEF LineInv
<1>3. CASE RangeQueue /\ out_queue # <<>>
  <2>1. PICK h : h = Head(out_queue) OBVIOUS
  <2>2. /\ h \in Messages /\ rpc = "range" /\ rpc' = "route" /\ rmsg' = h
        /\ out_queue' = Tail(out_queue) /\ UNCHANGED routed
    BY <1>0, <1>3, <2>1, Received DEF RangeQueue, history
  <2>3. h.kind \in AllKinds BY <2>2 DEF Messages, AllKinds
  <2>4. /\ Queued = Queued' \cup {h.id} /\ AscendingIds(out_queue', AllKinds)
        /\ Before({h.id}, Queued')
    BY <1>0, <1>3, <2>1, <2>2, <2>3, MessageReceived DEF Queued, LineInv
  <2>5. InRouter = {} /\ InRouter' = {h.id} /\ Routed' = Routed BY <2>2 DEF InRouter, Routed
  <2>6. Before(Queued', InListener \cup ToCome) BY <2>4 DEF LineInv, Before
  <2>7. Before(InRouter', Queued' \cup InListener \cup ToCome) BY <2>4, <2>5 DEF LineInv, Before
  <2>8. Before(Routed, InRouter' \cup Queued' \cup InListener \cup ToCome)
    BY <2>4, <2>5 DEF LineInv, Before
  <2>9. acked \subseteq Routed \cup InRouter' \cup Queued' \cup Forwarding
    BY <2>4, <2>5 DEF LineInv
  <2> QED BY <1>1, <2>2, <2>4, <2>5, <2>6, <2>7, <2>8, <2>9 DEF LineInv
<1>4. CASE RangeQueue /\ out_queue = <<>>
  <2>1. UNCHANGED <<out_queue, routed, rmsg>> /\ rpc = "range" /\ rpc' = "done"
    BY <1>4 DEF RangeQueue, history
  <2> QED BY <1>1, <2>1, LineQuiet
<1>5. CASE Route
  <2>1. UNCHANGED out_queue /\ rpc = "route" BY <1>5 DEF Route, queueVars
  <2>2. CASE RouteReturns BY <1>2, <2>1, <2>2
  <2>3. CASE rpc' = "put" /\ UNCHANGED <<routed, rmsg>> BY <1>1, <2>1, <2>3, LineQuiet
  <2> QED BY <1>5, <2>2, <2>3 DEF Route
<1>6. CASE RouterPuts
  <2>1. UNCHANGED out_queue /\ rpc = "put" BY <1>6 DEF RouterPuts
  <2>2. CASE RouteReturns BY <1>2, <2>1, <2>2
  <2>3. CASE UNCHANGED <<routed, rpc, rmsg>> BY <1>1, <2>1, <2>3, LineQuiet
  <2> QED BY <1>6, <2>2, <2>3 DEF RouterPuts
<1> QED BY <1>3, <1>4, <1>5, <1>6 DEF Router

\* Every step keeps the line.
LEMMA LineNext == TypeInv /\ LineInv /\ [Next]_vars => LineInv'
<1> SUFFICES ASSUME TypeInv, LineInv, [Next]_vars PROVE LineInv' OBVIOUS
<1>1. ASSUME Sender \/ SetProcessEnvelope \/ IncomingPuts \/ UNCHANGED vars
      PROVE  UNCHANGED <<toNode, fromAgent, out_queue, routed, acked, lmsg, rmsg, rpc, lpc>>
  BY <1>1 DEF Sender, Receive, WriteEnvelope, TakeStatus, StatusTimeout, CheckClosing,
              SetProcessEnvelope, IncomingPuts, vars, pipeVars, queueVars, loopVars, history
<1>2. CASE Sender \/ SetProcessEnvelope \/ IncomingPuts \/ UNCHANGED vars
  BY <1>1, <1>2, LineQuiet
<1> QED BY <1>2, LineAgent, LineListener, LineRouter DEF Next

\* The line is what AckedIsKept says of Pipeline.
LEMMA LineIsKept == TypeInv /\ LineInv => AckedIsKept
<1> SUFFICES ASSUME TypeInv, LineInv PROVE AckedIsKept OBVIOUS
<1>0. /\ out_queue \in Seq(Messages) /\ lmsg \in Messages /\ rmsg \in Messages
      /\ routed \in Seq(1..MaxFromAgent)
  BY DEF TypeInv, TypeOK
<1>1. \A m \in Messages : m.id \in Nat /\ m.kind \in AllKinds BY DEF Messages, AllKinds
<1>2. routed \in Seq(Nat) /\ Ascending(routed) /\ Numbers(routed) = Routed
  <2>1. Len(routed) \in Nat /\ \A i \in 1..Len(routed) : routed[i] \in Nat
    BY <1>0, ElementOfSeq, LenProperties
  <2>2. routed = [i \in 1..Len(routed) |-> routed[i]] BY <1>0, LenProperties
  <2>3. routed \in Seq(Nat) BY <2>1, <2>2, IsASeq
  <2> QED BY <2>3 DEF LineInv, Routed
<1>3. RouterHand \in Seq(Nat) /\ Ascending(RouterHand) /\ Numbers(RouterHand) = InRouter
  BY <1>0, <1>1 DEF RouterHand, InRouter, Ascending, Numbers
<1>4. ListenerHand \in Seq(Nat) /\ Ascending(ListenerHand) /\ Numbers(ListenerHand) = Forwarding
  BY <1>0, <1>1 DEF ListenerHand, Forwarding, Ascending, Numbers
<1>5. PICK q : q = Ids(out_queue) OBVIOUS
<1>6. /\ Len(out_queue) \in Nat /\ DOMAIN out_queue = 1..Len(out_queue)
      /\ \A i \in 1..Len(out_queue) : out_queue[i] \in Messages
  BY <1>0, ElementOfSeq, LenProperties
<1>7. q = [i \in 1..Len(out_queue) |-> out_queue[i].id] BY <1>5, <1>6 DEF Ids
<1>8. /\ q \in Seq(Nat) /\ Len(q) = Len(out_queue)
      /\ \A i \in 1..Len(out_queue) : q[i] = out_queue[i].id
  BY <1>1, <1>6, <1>7
<1>9. Part(out_queue, AllKinds) = 1..Len(out_queue) BY <1>1, <1>6 DEF Part
<1>10. Numbers(q) = Queued /\ Ascending(q)
  BY <1>8, <1>9 DEF Numbers, Queued, IdsOf, Ascending, AscendingIds, LineInv
<1>11. PICK r : r = routed \o RouterHand OBVIOUS
<1>12. r \in Seq(Nat) /\ Numbers(r) = Routed \cup InRouter /\ Ascending(r)
  <2>1. Before(Numbers(routed), Numbers(RouterHand)) BY <1>2, <1>3 DEF LineInv, Before
  <2> QED BY <1>2, <1>3, <1>11, <2>1, Concatenated
<1>13. PICK s : s = r \o q OBVIOUS
<1>14. s \in Seq(Nat) /\ Numbers(s) = Routed \cup InRouter \cup Queued /\ Ascending(s)
  <2>1. Before(Numbers(r), Numbers(q)) BY <1>10, <1>12 DEF LineInv, Before
  <2> QED BY <1>8, <1>10, <1>12, <1>13, <2>1, Concatenated
<1>15. PICK p : p = s \o ListenerHand OBVIOUS
<1>16. p \in Seq(Nat) /\ Numbers(p) = Routed \cup InRouter \cup Queued \cup Forwarding
       /\ Ascending(p)
  <2>1. Before(Numbers(s), Numbers(ListenerHand))
    BY <1>4, <1>14, LineTypes DEF LineInv, Before
  <2> QED BY <1>4, <1>14, <1>15, <2>1, Concatenated
<1>17. p = Pipeline BY <1>5, <1>11, <1>13, <1>15 DEF Pipeline
<1>18. DOMAIN p = 1..Len(p) BY <1>16, LenProperties
<1>19. acked \subseteq {p[i] : i \in 1..Len(p)} BY <1>16 DEF LineInv, Numbers
<1>20. \A i, j \in 1..Len(p) : i < j => p[i] < p[j] BY <1>16 DEF Ascending
<1> QED BY <1>17, <1>18, <1>19, <1>20 DEF AckedIsKept

\* No envelope that the agent was told SUCCESS of is lost, overtaken or repeated on its
\* way to RouteEnvelope, whatever the capacities and whenever the pipe fails.
THEOREM AckedIsKeptCorrect == Spec => []AckedIsKept
<1>1. Init => LineInv
  <2> SUFFICES ASSUME Init PROVE LineInv OBVIOUS
  <2>1. Len(toNode) = 0 /\ Len(out_queue) = 0 /\ Len(routed) = 0 BY EmptySeq DEF Init
  <2>2. /\ ToCome = {} /\ InListener = {} /\ Queued = {} /\ InRouter = {} /\ Routed = {}
        /\ acked = {}
    BY <2>1 DEF Init, ToCome, InListener, Queued, InRouter, Routed, IdsOf, Part, Numbers
  <2>3. AscendingIds(toNode, Kinds) /\ AscendingIds(out_queue, AllKinds) /\ Ascending(routed)
    BY <2>1 DEF AscendingIds, Part, Ascending
  <2> QED BY <2>2, <2>3 DEF LineInv, Before
<1> QED BY <1>1, TypeInit, TypeNext, LineNext, LineIsKept, PTL DEF Spec

-----------------------------------------------------------------------------
(* The statuses on their way back, and what they confirm.                   *)

\* The envelopes that the agent has, and whose statuses the pipe, the listener and the
\* channel have.
Unanswered == Numbers(toAgent)
InPipe == IdsOf(toNode, {"status"})
InHand == IF lpc = "status" THEN {lmsg.id} ELSE {}
InChan == Numbers(acn_status_chan)

\* They are those after the first t, up to the last one written, and in order.
FlightInv(t, k) ==
    /\ Ascending(toAgent) /\ AscendingIds(toNode, {"status"}) /\ Ascending(acn_status_chan)
    /\ Before(InPipe, Unanswered)
    /\ Before(InHand, InPipe \cup Unanswered)
    /\ Before(InChan, InHand \cup InPipe \cup Unanswered)
    /\ InChan \cup InHand \cup InPipe \cup Unanswered = (t + 1)..k

\* The envelopes that the send loop is through with, when t got a status.
Lost == unconfirmed \cup failed
Done(t) == t + Cardinality(Lost)
Begun(t) == IF spc \in {"write", "wait"} THEN Done(t) + 1 ELSE Done(t)
NoNil(n) == \A j \in 1..n : send_queue[j] # 0

\* The send loop takes the envelopes one after the other, up to the nil of Stop.
LoopInv(t, k) ==
    /\ IsFiniteSet(Lost) /\ Lost \subseteq 1..Done(t)
    /\ \A c \in confirmed : c[1] \in 1..Done(t)
    /\ StatusDrift
    /\ spc \in {"write", "wait"} => senv = Done(t) + 1
    /\ spc # "done" =>
          /\ \A i \in 1..Len(send_queue) : NoNil(i) => send_queue[i] = Begun(t) + i
          /\ NoNil(Len(send_queue)) => accepted = Begun(t) + Len(send_queue)
    /\ pipe = "open" /\ spc # "done" => k = (IF spc = "wait" THEN Done(t) + 1 ELSE Done(t))

DriftInv == \E t, k \in Nat : FlightInv(t, k) /\ LoopInv(t, k)

\* A step that has nothing to do with statuses.
LEMMA FlightSame ==
  ASSUME NEW t, NEW k, FlightInv(t, k), UNCHANGED <<toAgent, toNode, acn_status_chan, lmsg>>,
         lpc = "status" <=> lpc' = "status"
  PROVE  FlightInv(t, k)'
<1>1. /\ InHand' = InHand /\ InPipe' = InPipe /\ InChan' = InChan /\ Unanswered' = Unanswered
  BY DEF InHand, InPipe, InChan, Unanswered
<1> QED BY <1>1 DEF FlightInv

\* A step that has nothing to do with the send loop.
LEMMA LoopSame ==
  ASSUME NEW t, NEW k, LoopInv(t, k), pipe' = "open" => pipe = "open",
         UNCHANGED <<unconfirmed, failed, confirmed, spc, senv, send_queue, accepted>>
  PROVE  LoopInv(t, k)'
<1>1. Lost' = Lost /\ StatusDrift' = StatusDrift BY DEF Lost, StatusDrift
<1>2. Done(t)' = Done(t) /\ Begun(t)' = Begun(t) BY <1>1 DEF Done, Begun
<1>3. \A n : NoNil(n)' <=> NoNil(n) BY DEF NoNil
<1> QED BY <1>1, <1>2, <1>3 DEF LoopInv

\* A send to send_queue: an envelope, or the nil of Stop.
LEMMA LoopPut ==
  ASSUME TypeInv, NEW t \in Nat, NEW k \in Nat, LoopInv(t, k), pipe' = "open" => pipe = "open",
         UNCHANGED <<unconfirmed, failed, confirmed, spc, senv>>,
         NEW x \in Nat, send_queue' = Append(send_queue, x),
         (x = 0 /\ UNCHANGED accepted) \/ (x = accepted + 1 /\ accepted' = accepted + 1)
  PROVE  LoopInv(t, k)'
<1>1. Lost' = Lost /\ StatusDrift' = StatusDrift BY DEF Lost, StatusDrift
<1>2. Done(t)' = Done(t) /\ Begun(t)' = Begun(t) BY <1>1 DEF Done, Begun
<1>3. Cardinality(Lost) \in Nat BY FS_CardinalityType DEF LoopInv
<1>4. Begun(t) \in Nat BY <1>3 DEF Begun, Done
<1>5. PICK q : q = send_queue OBVIOUS
<1>6. PICK r : r = send_queue' OBVIOUS
<1>7. /\ Len(q) \in Nat /\ Len(r) = Len(q) + 1
      /\ \A i \in 1..Len(q) : r[i] = q[i]
      /\ r[Len(q) + 1] = x
      /\ \A i \in 1..Len(r) : i \in 1..Len(q) \/ i = Len(q) + 1
  <2>1. q \in Seq(Nat) BY <1>5 DEF TypeInv, TypeOK
  <2>2. r = Append(q, x) BY <1>5, <1>6
  <2> QED BY <2>1, <2>2, Sent
<1>8. ASSUME spc # "done"
      PROVE  /\ \A i \in 1..Len(r) : NoNil(i)' => r[i] = Begun(t) + i
             /\ NoNil(Len(r))' => accepted' = Begun(t) + Len(r)
  <2>1. /\ \A i \in 1..Len(q) : NoNil(i) => q[i] = Begun(t) + i
        /\ NoNil(Len(q)) => accepted = Begun(t) + Len(q)
    BY <1>5, <1>8 DEF LoopInv
  <2>2. ASSUME NEW n \in 0..Len(q) PROVE NoNil(n)' <=> NoNil(n)
    <3>1. \A j \in 1..n : j \in 1..Len(q) BY <1>7
    <3> QED BY <1>5, <1>6, <1>7, <3>1 DEF NoNil
  <2>3. NoNil(Len(q) + 1)' => NoNil(Len(q)) /\ x # 0
    <3>1. Len(q) \in 0..Len(q) /\ Len(q) + 1 \in 1..(Len(q) + 1) BY <1>7
    <3>2. \A j \in 1..Len(q) : j \in 1..(Len(q) + 1) BY <1>7
    <3>3. NoNil(Len(q) + 1)' => NoNil(Len(q))' BY <3>2 DEF NoNil
    <3>4. NoNil(Len(q) + 1)' => x # 0 BY <1>6, <1>7, <3>1 DEF NoNil
    <3> QED BY <2>2, <3>1, <3>3, <3>4
  <2>4. NoNil(Len(q) + 1)' => x = Begun(t) + (Len(q) + 1) /\ accepted' = x
    BY <1>4, <1>7, <2>1, <2>3
  <2>5. ASSUME NEW i \in 1..Len(q), NoNil(i)' PROVE r[i] = Begun(t) + i
    <3>1. i \in 0..Len(q) BY <1>7
    <3> QED BY <1>7, <2>1, <2>2, <2>5, <3>1
  <2>6. ASSUME NEW i \in 1..Len(r), NoNil(i)' PROVE r[i] = Begun(t) + i
    BY <1>7, <2>4, <2>5, <2>6
  <2>7. NoNil(Len(r))' => accepted' = Begun(t) + Len(r) BY <1>7, <2>4
  <2> QED BY <2>6, <2>7
<1> QED BY <1>1, <1>2, <1>6, <1>8 DEF LoopInv

\* What the agent does: an answer leaves the agent and enters the pipe.
LEMMA DriftAgent ==
  ASSUME TypeInv, NEW t \in Nat, NEW k \in Nat, FlightInv(t, k), LoopInv(t, k), Agent
  PROVE  FlightInv(t, k)' /\ LoopInv(t, k)'
<1>0. toNode \in Seq(Messages) /\ toAgent \in Seq(Nat) BY DEF TypeInv, TypeOK
<1>1. /\ UNCHANGED <<unconfirmed, failed, confirmed, spc, senv, send_queue, accepted>>
      /\ UNCHANGED <<acn_status_chan, lmsg, lpc>> /\ (pipe' = "open" => pipe = "open")
  BY DEF Agent, AgentWrites, AgentAnswers, AgentGone, queueVars, loopVars, history, sendResults
<1>2. LoopInv(t, k)' BY <1>1, LoopSame
<1>3. InHand' = InHand /\ InChan' = InChan BY <1>1 DEF InHand, InChan
<1>4. CASE AgentGone BY <1>1, <1>2, <1>4, FlightSame DEF AgentGone
<1>5. ASSUME NEW kind \in Kinds, AgentWrites(kind) PROVE FlightInv(t, k)'
  <2>1. PICK m : m = [kind |-> kind, id |-> fromAgent + 1] OBVIOUS
  <2>2. m \in Messages /\ m.kind \notin {"status"}
    BY <2>1, LineTypes DEF Messages, Kinds, OwnKinds
  <2>3. toNode' = Append(toNode, m) /\ UNCHANGED toAgent BY <1>5, <2>1 DEF AgentWrites
  <2>4. InPipe' = InPipe /\ AscendingIds(toNode', {"status"})
    BY <1>0, <2>2, <2>3, MessageSent DEF InPipe, FlightInv
  <2>5. Unanswered' = Unanswered BY <2>3 DEF Unanswered
  <2> QED BY <1>1, <1>3, <2>3, <2>4, <2>5 DEF FlightInv
<1>6. CASE AgentAnswers
  <2>1. PICK n : n = Head(toAgent) OBVIOUS
  <2>2. PICK m : m = [kind |-> "status", id |-> n] OBVIOUS
  <2>3. /\ n \in Nat /\ m \in Messages /\ m.kind \in {"status"} /\ m.id = n
        /\ toAgent # <<>> /\ toAgent' = Tail(toAgent) /\ toNode' = Append(toNode, m)
    BY <1>0, <1>6, <2>1, <2>2, Received DEF AgentAnswers, Messages
  <2>4. /\ Unanswered = Unanswered' \cup {n} /\ Ascending(toAgent')
        /\ Before({n}, Unanswered')
    BY <1>0, <2>1, <2>3, NumberReceived DEF Unanswered, FlightInv
  <2>5. InPipe' = InPipe \cup {n}
    <3>1. \A x : x \in IdsOf(Append(toNode, m), {"status"})
                   <=> x \in IdsOf(toNode, {"status"}) \/ x = m.id
      BY <1>0, <2>3, MessageSent
    <3> QED BY <2>3, <3>1 DEF InPipe
  <2>6. AscendingIds(toNode', {"status"})
    <3>1. Before(IdsOf(toNode, {"status"}), {m.id})
      BY <2>3, <2>4 DEF FlightInv, Before, InPipe
    <3> QED BY <1>0, <2>3, <3>1, MessageSent DEF FlightInv
  <2>7. /\ Before(InPipe', Unanswered') /\ Before(InHand, InPipe' \cup Unanswered')
        /\ Before(InChan, InHand \cup InPipe' \cup Unanswered')
    BY <2>4, <2>5 DEF FlightInv, Before
  <2>8. InChan \cup InHand \cup InPipe' \cup Unanswered' = (t + 1)..k
    BY <2>4, <2>5 DEF FlightInv
  <2> QED BY <1>1, <1>2, <1>3, <2>4, <2>6, <2>7, <2>8 DEF FlightInv
<1> QED BY <1>2, <1>4, <1>5, <1>6 DEF Agent

\* The listener takes a status from the pipe to the channel.
LEMMA DriftListener ==
  ASSUME TypeInv, NEW t \in Nat, NEW k \in Nat, FlightInv(t, k), LoopInv(t, k), Listener
  PROVE  FlightInv(t, k)' /\ LoopInv(t, k)'
<1>0. /\ toNode \in Seq(Messages) /\ acn_status_chan \in Seq(Nat) /\ lmsg \in Messages
      /\ toNode # <<>> => Head(toNode) \in Messages
  BY Received DEF TypeInv, TypeOK
<1>1. /\ UNCHANGED <<unconfirmed, failed, confirmed, spc, senv, accepted, toAgent>>
      /\ (pipe' = "open" => pipe = "open")
      /\ UNCHANGED send_queue \/ send_queue' = Append(send_queue, 0)
  BY DEF Listener, Read, AnswerEnvelope, ForwardEnvelope, AddAcnStatusMessage, ReadFails,
         StopSendsNil, StopSetsClosing, StopClosesPipe, StopClosesOut, StopClosesSend,
         pipeVars, queueVars, history, sendResults
<1>2. LoopInv(t, k)'
  <2>1. CASE UNCHANGED send_queue BY <1>1, <2>1, LoopSame
  <2>2. CASE send_queue' = Append(send_queue, 0) BY <1>1, <2>2, LoopPut
  <2> QED BY <1>1, <2>1, <2>2
<1>3. Unanswered' = Unanswered BY <1>1 DEF Unanswered
<1>4. CASE Read
  <2>1. PICK h : h = Head(toNode) OBVIOUS
  <2>2. /\ h \in Messages /\ lpc = "read" /\ toNode # <<>> /\ toNode' = Tail(toNode)
        /\ UNCHANGED acn_status_chan
    BY <1>0, <1>4, <2>1 DEF Read, queueVars
  <2>3. InHand = {} /\ InChan' = InChan BY <2>2 DEF InHand, InChan
  <2>4. AscendingIds(toNode', {"status"}) BY <1>0, <2>2, MessageReceived DEF FlightInv
  <2>5. CASE h.kind \in {"status"}
    <3>1. InHand' = {h.id} BY <1>4, <2>1, <2>5 DEF Read, InHand
    <3>2. InPipe = InPipe' \cup {h.id} /\ Before({h.id}, InPipe')
      <4>1. /\ IdsOf(toNode, {"status"}) = IdsOf(Tail(toNode), {"status"}) \cup {h.id}
            /\ Before({h.id}, IdsOf(Tail(toNode), {"status"}))
        BY <1>0, <2>1, <2>2, <2>5, MessageReceived DEF FlightInv
      <4> QED BY <2>2, <4>1 DEF InPipe
    <3>3. /\ Before(InPipe', Unanswered) /\ Before(InHand', InPipe' \cup Unanswered)
          /\ Before(InChan, InHand' \cup InPipe' \cup Unanswered)
      BY <3>1, <3>2 DEF FlightInv, Before
    <3>4. InChan \cup InHand' \cup InPipe' \cup Unanswered = (t + 1)..k
      BY <2>3, <3>1, <3>2 DEF FlightInv
    <3> QED BY <1>1, <1>2, <1>3, <2>2, <2>3, <2>4, <3>3, <3>4 DEF FlightInv
  <2>6. CASE h.kind \notin {"status"}
    <3>1. InHand' = {} BY <1>4, <2>1, <2>6 DEF Read, InHand
    <3>2. InPipe' = InPipe BY <1>0, <2>1, <2>2, <2>6, MessageReceived DEF InPipe
    <3> QED BY <1>1, <1>2, <1>3, <2>2, <2>3, <2>4, <3>1, <3>2 DEF FlightInv
  <2> QED BY <2>5, <2>6
<1>5. CASE AddAcnStatusMessage
  <2>1. /\ lpc = "status" /\ lpc' = "read" /\ UNCHANGED toNode
        /\ acn_status_chan' = Append(acn_status_chan, lmsg.id)
    BY <1>5 DEF AddAcnStatusMessage, ListenerContinues, pipeVars
  <2>2. InHand = {lmsg.id} /\ InHand' = {} /\ InPipe' = InPipe BY <2>1 DEF InHand, InPipe
  <2>3. lmsg.id \in Nat BY <1>0 DEF Messages
  <2>4. InChan' = InChan \cup {lmsg.id} BY <1>0, <2>1, <2>3, NumberSent DEF InChan
  <2>5. Ascending(acn_status_chan')
    <3>1. Before(Numbers(acn_status_chan), {lmsg.id}) BY <2>2 DEF FlightInv, Before, InChan
    <3> QED BY <1>0, <2>1, <2>3, <3>1, NumberSent DEF FlightInv
  <2>6. /\ Before(InHand', InPipe \cup Unanswered)
        /\ Before(InChan', InHand' \cup InPipe \cup Unanswered)
    BY <2>2, <2>4 DEF FlightInv, Before
  <2>7. InChan' \cup InHand' \cup InPipe \cup Unanswered = (t + 1)..k
    BY <2>2, <2>4 DEF FlightInv
  <2> QED BY <1>1, <1>2, <1>3, <2>1, <2>2, <2>5, <2>6, <2>7 DEF FlightInv
<1>6. CASE AnswerEnvelope \/ ForwardEnvelope
  <2>1. UNCHANGED <<toNode, acn_status_chan>> /\ lpc # "status" /\ lpc' # "status"
    BY <1>6 DEF AnswerEnvelope, ListenerContinues, ForwardEnvelope, pipeVars, queueVars
  <2>2. InHand = {} /\ InHand' = {} /\ InPipe' = InPipe /\ InChan' = InChan
    BY <2>1 DEF InHand, InPipe, InChan
  <2> QED BY <1>1, <1>2, <1>3, <2>1, <2>2 DEF FlightInv
<1>7. CASE \/ ReadFails \/ StopSendsNil \/ StopSetsClosing \/ StopClosesPipe \/ StopClosesOut
           \/ StopClosesSend
  <2>1. UNCHANGED <<toNode, acn_status_chan, lmsg>> /\ lpc # "status" /\ lpc' # "status"
    BY <1>7 DEF ReadFails, StopSendsNil, StopSetsClosing, StopClosesPipe, StopClosesOut,
                StopClosesSend, pipeVars, queueVars
  <2> QED BY <1>1, <1>2, <2>1, FlightSame
<1> QED BY <1>4, <1>5, <1>6, <1>7 DEF Listener

\* The send loop begins with the next envelope, or ends at the nil.
LEMMA LoopReceive ==
  ASSUME TypeInv, NEW t \in Nat, NEW k \in Nat, LoopInv(t, k), Receive
  PROVE  LoopInv(t, k)'
<1>1. /\ UNCHANGED <<unconfirmed, failed, confirmed, pipe, accepted>> /\ spc = "receive"
  BY DEF Receive, pipeVars, history, sendResults
<1>2. Lost' = Lost /\ StatusDrift' = StatusDrift BY <1>1 DEF Lost, StatusDrift
<1>3. Cardinality(Lost) \in Nat BY FS_CardinalityType DEF LoopInv
<1>4. PICK d \in Nat : d = Done(t) BY <1>3 DEF Done
<1>5. Done(t)' = d /\ Begun(t) = d BY <1>1, <1>2, <1>4 DEF Done, Begun
<1>6. PICK q \in Seq(Nat) : q = send_queue BY DEF TypeInv, TypeOK
<1>7. CASE spc' = "done" BY <1>1, <1>2, <1>4, <1>5, <1>7 DEF LoopInv
<1>8. CASE spc' # "done"
  <2>1. q # <<>> /\ Head(q) # 0 /\ spc' = "write" /\ senv' = Head(q) /\ send_queue' = Tail(q)
    BY <1>6, <1>8 DEF Receive
  <2>2. PICK r : r = Tail(q) OBVIOUS
  <2>3. /\ Head(q) = q[1] /\ Len(q) \in Nat \ {0} /\ Len(r) = Len(q) - 1
        /\ \A i \in 1..Len(r) : r[i] = q[i + 1] /\ i + 1 \in 1..Len(q)
    BY <2>1, <2>2, Received
  <2>4. Begun(t)' = d + 1 BY <1>5, <2>1 DEF Begun
  <2>5. /\ \A i \in 1..Len(q) : NoNil(i) => q[i] = d + i
        /\ NoNil(Len(q)) => accepted = d + Len(q)
    BY <1>1, <1>5, <1>6 DEF LoopInv
  <2>6. senv' = d + 1
    <3>1. 1 \in 1..Len(q) BY <2>3
    <3>2. NoNil(1) BY <1>6, <2>1, <2>3 DEF NoNil
    <3> QED BY <2>1, <2>3, <2>5, <3>1, <3>2
  <2>7. ASSUME NEW i \in 0..Len(r), NoNil(i)' PROVE NoNil(i + 1)
    <3>1. \A j \in 1..i : r[j] # 0 BY <2>1, <2>2, <2>7 DEF NoNil
    <3>2. SUFFICES ASSUME NEW j \in 1..(i + 1) PROVE q[j] # 0 BY <1>6 DEF NoNil
    <3>3. CASE j = 1 BY <2>1, <2>3, <3>3
    <3>4. CASE j # 1
      <4>1. j - 1 \in 1..i /\ j - 1 \in 1..Len(r) /\ (j - 1) + 1 = j BY <2>3, <3>4
      <4> QED BY <2>3, <3>1, <4>1
    <3> QED BY <3>3, <3>4
  <2>8. ASSUME NEW i \in 1..Len(r), NoNil(i)' PROVE r[i] = Begun(t)' + i
    <3>1. NoNil(i + 1) /\ i + 1 \in 1..Len(q) /\ r[i] = q[i + 1]
      <4>1. i \in 0..Len(r) BY <2>3
      <4> QED BY <2>3, <2>7, <2>8, <4>1
    <3>2. r[i] = d + (i + 1) BY <2>5, <3>1
    <3> QED BY <2>4, <3>2
  <2>9. NoNil(Len(r))' => accepted = Begun(t)' + Len(r)
    <3>1. Len(r) \in 0..Len(r) /\ Len(r) + 1 = Len(q) BY <2>3
    <3>2. NoNil(Len(r))' => NoNil(Len(q)) BY <2>7, <3>1
    <3> QED BY <2>3, <2>4, <2>5, <3>1, <3>2
  <2>10. pipe = "open" => k = d BY <1>1, <1>4 DEF LoopInv
  <2> QED BY <1>1, <1>2, <1>4, <1>5, <2>1, <2>2, <2>6, <2>8, <2>9, <2>10 DEF LoopInv
<1> QED BY <1>7, <1>8

\* A write that fails or a status that does not come: one more envelope is lost.
LEMMA LoopLoses ==
  ASSUME TypeInv, NEW t \in Nat, NEW k \in Nat, LoopInv(t, k), spc \in {"write", "wait"},
         spc' = "check", pipe = "open" => spc = "wait", Lost' = Lost \cup {senv},
         UNCHANGED <<confirmed, pipe, send_queue, accepted>>
  PROVE  LoopInv(t, k)'
<1>1. IsFiniteSet(Lost) /\ Cardinality(Lost) \in Nat BY FS_CardinalityType DEF LoopInv
<1>2. PICK d \in Nat : d = Done(t) BY <1>1 DEF Done
<1>3. senv = d + 1 /\ Lost \subseteq 1..d /\ Begun(t) = d + 1 BY <1>2 DEF LoopInv, Begun
<1>4. senv \notin Lost BY <1>3
<1>5. IsFiniteSet(Lost') /\ Cardinality(Lost') = Cardinality(Lost) + 1
  BY <1>1, <1>4, FS_AddElement
<1>6. Done(t)' = d + 1 BY <1>1, <1>2, <1>5 DEF Done
<1>7. Begun(t)' = d + 1 BY <1>6 DEF Begun
<1>8. Lost' \subseteq 1..(d + 1) BY <1>3
<1>9. \A c \in confirmed : c[1] \in 1..d BY <1>2 DEF LoopInv
<1>10. \A c \in confirmed : c[1] \in 1..(d + 1) BY <1>9
<1>11. StatusDrift'
  <2>1. SUFFICES ASSUME NEW c \in confirmed
                 PROVE  c[1] - c[2] = Cardinality({e \in Lost' : e < c[1]})
    BY DEF StatusDrift, Lost
  <2>2. {e \in Lost' : e < c[1]} = {e \in Lost : e < c[1]} BY <1>3, <1>9
  <2> QED BY <2>2 DEF LoopInv, StatusDrift, Lost
<1>12. \A n : NoNil(n)' <=> NoNil(n) BY DEF NoNil
<1>13. /\ \A i \in 1..Len(send_queue) : NoNil(i) => send_queue[i] = Begun(t) + i
       /\ NoNil(Len(send_queue)) => accepted = Begun(t) + Len(send_queue)
  BY DEF LoopInv
<1>14. pipe = "open" => k = d + 1 BY <1>2 DEF LoopInv
<1> QED BY <1>3, <1>5, <1>6, <1>7, <1>8, <1>10, <1>11, <1>12, <1>13, <1>14 DEF LoopInv

\* The send loop writes an envelope: it is the next one that the agent will answer.
LEMMA DriftWrite ==
  ASSUME TypeInv, NEW t \in Nat, NEW k \in Nat, FlightInv(t, k), LoopInv(t, k), WriteEnvelope
  PROVE  \E l \in Nat : FlightInv(t, l)' /\ LoopInv(t, l)'
<1>1. /\ UNCHANGED <<toNode, acn_status_chan, lmsg, lpc, unconfirmed, confirmed, pipe>>
      /\ UNCHANGED <<send_queue, accepted, senv>> /\ spc = "write"
  BY DEF WriteEnvelope, queueVars
<1>2. CASE spc' = "check"
  <2>1. /\ pipe # "open" /\ failed' = failed \cup {senv} /\ UNCHANGED toAgent
    BY <1>2 DEF WriteEnvelope
  <2>2. FlightInv(t, k)' BY <1>1, <2>1, FlightSame
  <2>3. Lost' = Lost \cup {senv} BY <1>1, <2>1 DEF Lost
  <2> QED BY <1>1, <1>2, <2>1, <2>2, <2>3, LoopLoses
<1>3. CASE spc' # "check"
  <2>1. spc' = "wait" /\ UNCHANGED failed BY <1>3 DEF WriteEnvelope
  <2>2. Lost' = Lost /\ StatusDrift' = StatusDrift BY <1>1, <2>1 DEF Lost, StatusDrift
  <2>3. Cardinality(Lost) \in Nat BY FS_CardinalityType DEF LoopInv
  <2>4. PICK d \in Nat : d = Done(t) BY <2>3 DEF Done
  <2>5. Done(t)' = d /\ Begun(t) = d + 1 /\ Begun(t)' = d + 1
    BY <1>1, <2>1, <2>2, <2>4 DEF Done, Begun
  <2>6. \A n : NoNil(n)' <=> NoNil(n) BY <1>1 DEF NoNil
  <2>7. /\ Lost \subseteq 1..d /\ IsFiniteSet(Lost) /\ StatusDrift /\ senv = d + 1
        /\ \A c \in confirmed : c[1] \in 1..d
        /\ \A i \in 1..Len(send_queue) : NoNil(i) => send_queue[i] = d + 1 + i
        /\ NoNil(Len(send_queue)) => accepted = d + 1 + Len(send_queue)
    BY <1>1, <2>4, <2>5 DEF LoopInv
  <2>8. ASSUME NEW l, pipe = "open" => l = d + 1 PROVE LoopInv(t, l)'
    BY <1>1, <2>1, <2>2, <2>5, <2>6, <2>7, <2>8 DEF LoopInv
  <2>9. CASE pipe # "open"
    <3>1. UNCHANGED toAgent BY <1>3, <2>9 DEF WriteEnvelope
    <3>2. FlightInv(t, k)' BY <1>1, <3>1, FlightSame
    <3> QED BY <2>8, <2>9, <3>2
  <2>10. CASE pipe = "open"
    <3>1. toAgent' = Append(toAgent, senv) /\ toAgent \in Seq(Nat) /\ k = d
      BY <1>1, <2>4, <2>10 DEF WriteEnvelope, TypeInv, TypeOK, LoopInv
    <3>2. \A n : n \in Numbers(toAgent) => n \in (t + 1)..k BY DEF FlightInv, Unanswered
    <3>3. Before(Numbers(toAgent), {k + 1}) BY <3>2 DEF Before
    <3>4. Unanswered' = Unanswered \cup {k + 1} /\ Ascending(toAgent')
      <4>1. senv = k + 1 /\ senv \in Nat BY <2>7, <3>1
      <4>2. Ascending(toAgent) BY DEF FlightInv
      <4>3. Numbers(Append(toAgent, senv)) = Numbers(toAgent) \cup {senv} BY <3>1, <4>1, NumberSent
      <4>4. Before(Numbers(toAgent), {senv}) BY <3>3, <4>1
      <4>5. Ascending(Append(toAgent, senv)) BY <3>1, <4>1, <4>2, <4>4, NumberSent
      <4> QED BY <3>1, <4>1, <4>3, <4>5 DEF Unanswered
    <3>5. InPipe' = InPipe /\ InHand' = InHand /\ InChan' = InChan
      BY <1>1 DEF InPipe, InHand, InChan
    <3>6. \A n : n \in InChan \cup InHand \cup InPipe \cup Unanswered <=> n \in (t + 1)..k
      BY DEF FlightInv
    <3>7. \A n : n \in InChan \cup InHand \cup InPipe => n \in Int /\ n < k + 1 BY <3>6
    <3>8. /\ Before(InPipe, Unanswered') /\ Before(InHand, InPipe \cup Unanswered')
          /\ Before(InChan, InHand \cup InPipe \cup Unanswered')
      BY <3>4, <3>7 DEF FlightInv, Before
    <3>9. InChan \cup InHand \cup InPipe \cup Unanswered' = (t + 1)..(k + 1)
      <4>1. t <= k
        BY <2>3, <2>4, <3>1 DEF Done
      <4>2. (t + 1)..(k + 1) = ((t + 1)..k) \cup {k + 1} BY <4>1
      <4> QED BY <3>4, <3>6, <4>2
    <3>10. FlightInv(t, k + 1)' BY <1>1, <3>4, <3>5, <3>8, <3>9 DEF FlightInv
    <3> QED BY <2>8, <3>1, <3>10
  <2> QED BY <2>9, <2>10
<1> QED BY <1>2, <1>3

\* The status that is taken is that of the first envelope not yet answered for.
LEMMA DriftTake ==
  ASSUME TypeInv, NEW t \in Nat, NEW k \in Nat, FlightInv(t, k), LoopInv(t, k), TakeStatus
  PROVE  FlightInv(t + 1, k)' /\ LoopInv(t + 1, k)'
<1>1. /\ UNCHANGED <<toNode, toAgent, lmsg, lpc, unconfirmed, failed, pipe>>
      /\ UNCHANGED <<send_queue, accepted, senv>> /\ spc = "wait" /\ spc' = "check"
      /\ acn_status_chan # <<>> /\ acn_status_chan' = Tail(acn_status_chan)
      /\ acn_status_chan \in Seq(Nat)
  BY DEF TakeStatus, Take, pipeVars, TypeInv, TypeOK
<1>2. PICK h : h = Head(acn_status_chan) OBVIOUS
<1>3. /\ InChan = InChan' \cup {h} /\ Ascending(acn_status_chan') /\ Before({h}, InChan')
  BY <1>1, <1>2, NumberReceived DEF InChan, FlightInv
<1>4. InPipe' = InPipe /\ InHand' = InHand /\ Unanswered' = Unanswered
  BY <1>1 DEF InPipe, InHand, Unanswered
<1>5. \A n : n \in InChan \cup InHand \cup InPipe \cup Unanswered <=> n \in (t + 1)..k
  BY DEF FlightInv
<1>6. \A n \in InChan' \cup InHand \cup InPipe \cup Unanswered : h < n
  BY <1>3 DEF FlightInv, Before
<1>7. h \in (t + 1)..k BY <1>3, <1>5
<1>8. h = t + 1
  <2>1. t + 1 \in (t + 1)..k BY <1>7
  <2>2. t + 1 = h \/ h < t + 1 BY <1>3, <1>5, <1>6, <2>1
  <2> QED BY <1>7, <2>2
<1>9. InChan' \cup InHand \cup InPipe \cup Unanswered = ((t + 1) + 1)..k
  <2>1. \A n : n \in ((t + 1) + 1)..k <=> (n \in (t + 1)..k /\ n # t + 1) OBVIOUS
  <2>2. \A n \in InChan' \cup InHand \cup InPipe \cup Unanswered : n # t + 1
    <3>1. \A n \in InChan' \cup InHand \cup InPipe \cup Unanswered : n \in (t + 1)..k
      BY <1>3, <1>5
    <3> QED BY <1>6, <1>8, <3>1
  <2> QED BY <1>3, <1>5, <1>8, <2>1, <2>2
<1>10. /\ Before(InPipe, Unanswered) /\ Before(InHand, InPipe \cup Unanswered)
       /\ Before(InChan', InHand \cup InPipe \cup Unanswered)
  BY <1>3 DEF FlightInv, Before
<1>11. FlightInv(t + 1, k)' BY <1>1, <1>3, <1>4, <1>9, <1>10 DEF FlightInv
<1>12. Lost' = Lost BY <1>1 DEF Lost
<1>13. IsFiniteSet(Lost) /\ Cardinality(Lost) \in Nat BY FS_CardinalityType DEF LoopInv
<1>14. PICK d \in Nat : d = Done(t) BY <1>13 DEF Done
<1>15. /\ Lost \subseteq 1..d /\ StatusDrift /\ senv = d + 1
       /\ \A c \in confirmed : c[1] \in 1..d
       /\ \A i \in 1..Len(send_queue) : NoNil(i) => send_queue[i] = Begun(t) + i
       /\ NoNil(Len(send_queue)) => accepted = Begun(t) + Len(send_queue)
       /\ pipe = "open" => k = d + 1
  BY <1>1, <1>14 DEF LoopInv
<1>16. Begun(t) = d + 1 /\ Done(t + 1)' = d + 1
  BY <1>1, <1>12, <1>13, <1>14 DEF Begun, Done
<1>17. Begun(t + 1)' = d + 1 BY <1>1, <1>16 DEF Begun
<1>18. PICK p : p = <<senv, h>> OBVIOUS
<1>19. confirmed' = confirmed \cup {p} /\ p[1] = d + 1 /\ p[2] = t + 1
  BY <1>2, <1>8, <1>15, <1>18 DEF TakeStatus
<1>20. StatusDrift'
  <2>1. SUFFICES ASSUME NEW c \in confirmed'
                 PROVE  c[1] - c[2] = Cardinality({e \in Lost : e < c[1]})
    BY <1>12 DEF StatusDrift, Lost
  <2>2. CASE c \in confirmed BY <1>15, <2>2 DEF StatusDrift, Lost
  <2>3. CASE c = p
    <3>1. \A e \in Lost : e < d + 1
      <4>1. \A e \in 1..d : e < d + 1 OBVIOUS
      <4> QED BY <1>15, <4>1
    <3>3. {e \in Lost : e < d + 1} = Lost BY <3>1
    <3>2. (d + 1) - (t + 1) = Cardinality(Lost) BY <1>13, <1>14 DEF Done
    <3> QED BY <1>19, <2>3, <3>2, <3>3
  <2> QED BY <1>19, <2>2, <2>3
<1>21. /\ Lost \subseteq 1..(d + 1) /\ \A c \in confirmed' : c[1] \in 1..(d + 1)
  BY <1>15, <1>19
<1>22. \A n : NoNil(n)' <=> NoNil(n) BY <1>1 DEF NoNil
<1>23. LoopInv(t + 1, k)'
  BY <1>1, <1>12, <1>13, <1>15, <1>16, <1>17, <1>20, <1>21, <1>22 DEF LoopInv
<1> QED BY <1>11, <1>23

\* Every step of the send loop keeps the account.
LEMMA DriftSender ==
  ASSUME TypeInv, NEW t \in Nat, NEW k \in Nat, FlightInv(t, k), LoopInv(t, k), Sender
  PROVE  DriftInv'
<1>1. CASE Receive
  <2>1. UNCHANGED <<toAgent, toNode, acn_status_chan, lmsg, lpc>>
    BY <1>1 DEF Receive, pipeVars
  <2> QED BY <1>1, <2>1, FlightSame, LoopReceive DEF DriftInv
<1>2. CASE WriteEnvelope BY <1>2, DriftWrite DEF DriftInv
<1>3. CASE TakeStatus
  <2>1. t + 1 \in Nat OBVIOUS
  <2> QED BY <1>3, <2>1, DriftTake DEF DriftInv
<1>4. CASE StatusTimeout
  <2>1. /\ UNCHANGED <<toAgent, toNode, acn_status_chan, lmsg, lpc>>
        /\ UNCHANGED <<confirmed, pipe, send_queue, accepted, failed>>
        /\ spc = "wait" /\ spc' = "check" /\ unconfirmed' = unconfirmed \cup {senv}
    BY <1>4 DEF StatusTimeout, pipeVars, queueVars
  <2>2. Lost' = Lost \cup {senv} BY <2>1 DEF Lost
  <2>3. FlightInv(t, k)' BY <2>1, FlightSame
  <2>4. LoopInv(t, k)' BY <2>1, <2>2, LoopLoses
  <2> QED BY <2>3, <2>4 DEF DriftInv
<1>5. CASE CheckClosing
  <2>1. /\ UNCHANGED <<toAgent, toNode, acn_status_chan, lmsg, lpc>>
        /\ UNCHANGED <<confirmed, unconfirmed, failed, pipe, send_queue, accepted>>
        /\ spc = "check" /\ spc' \in {"receive", "done"}
    BY <1>5 DEF CheckClosing, pipeVars, queueVars, history, sendResults
  <2>2. Lost' = Lost /\ StatusDrift' = StatusDrift BY <2>1 DEF Lost, StatusDrift
  <2>3. Done(t)' = Done(t) /\ Begun(t)' = Begun(t) BY <2>1, <2>2 DEF Done, Begun
  <2>4. \A n : NoNil(n)' <=> NoNil(n) BY <2>1 DEF NoNil
  <2>5. LoopInv(t, k)' BY <2>1, <2>2, <2>3, <2>4 DEF LoopInv
  <2>6. FlightInv(t, k)' BY <2>1, FlightSame
  <2> QED BY <2>5, <2>6 DEF DriftInv
<1> QED BY <1>1, <1>2, <1>3, <1>4, <1>5 DEF Sender

\* The router and the handlers of the node only put envelopes.
LEMMA DriftNode ==
  ASSUME TypeInv, NEW t \in Nat, NEW k \in Nat, FlightInv(t, k), LoopInv(t, k),
         Router \/ SetProcessEnvelope \/ IncomingPuts \/ UNCHANGED vars
  PROVE  FlightInv(t, k)' /\ LoopInv(t, k)'
<1>1. /\ UNCHANGED <<toAgent, toNode, acn_status_chan, lmsg, lpc>>
      /\ UNCHANGED <<confirmed, unconfirmed, failed, pipe, spc, senv>>
  BY DEF Router, RangeQueue, Route, RouterPuts, SetProcessEnvelope, IncomingPuts, vars, pipeVars,
         queueVars, loopVars, history, sendResults
<1>2. Put \/ UNCHANGED <<send_queue, accepted>>
  BY DEF Router, RangeQueue, Route, RouterPuts, SetProcessEnvelope, IncomingPuts, vars,
         queueVars, history
<1>3. FlightInv(t, k)' BY <1>1, FlightSame
<1>4. CASE Put
  <2>1. PICK x \in Nat : x = accepted + 1 BY DEF TypeInv, TypeOK
  <2>2. send_queue' = Append(send_queue, x) /\ accepted' = accepted + 1 BY <1>4, <2>1 DEF Put
  <2> QED BY <1>1, <1>3, <2>1, <2>2, LoopPut
<1>5. CASE UNCHANGED <<send_queue, accepted>> BY <1>1, <1>3, <1>5, LoopSame
<1> QED BY <1>2, <1>4, <1>5

\* Every step keeps the account of the statuses.
LEMMA DriftNext == TypeInv /\ DriftInv /\ [Next]_vars => DriftInv'
<1> SUFFICES ASSUME TypeInv, DriftInv, [Next]_vars PROVE DriftInv' OBVIOUS
<1>1. PICK t \in Nat, k \in Nat : FlightInv(t, k) /\ LoopInv(t, k) BY DEF DriftInv
<1>2. CASE Agent BY <1>1, <1>2, DriftAgent DEF DriftInv
<1>3. CASE Listener BY <1>1, <1>3, DriftListener DEF DriftInv
<1>4. CASE Sender BY <1>1, <1>4, DriftSender
<1>5. CASE Router \/ SetProcessEnvelope \/ IncomingPuts \/ UNCHANGED vars
  BY <1>1, <1>5, DriftNode DEF DriftInv
<1> QED BY <1>2, <1>3, <1>4, <1>5 DEF Next

\* The status that confirms an envelope is that of the envelope as many places before it
\* as waits have timed out or writes have failed, whatever the capacities and the bounds.
THEOREM StatusDriftCorrect == Spec => []StatusDrift
<1>1. Init => DriftInv
  <2> SUFFICES ASSUME Init PROVE DriftInv OBVIOUS
  <2>1. Len(toNode) = 0 /\ Len(toAgent) = 0 /\ Len(acn_status_chan) = 0 /\ Len(send_queue) = 0
    BY EmptySeq DEF Init
  <2>2. InChan = {} /\ InHand = {} /\ InPipe = {} /\ Unanswered = {}
    BY <2>1 DEF Init, InChan, InHand, InPipe, Unanswered, IdsOf, Part, Numbers
  <2>3. Ascending(toAgent) /\ AscendingIds(toNode, {"status"}) /\ Ascending(acn_status_chan)
    BY <2>1 DEF AscendingIds, Part, Ascending
  <2>4. (0 + 1)..0 = {} OBVIOUS
  <2>5. FlightInv(0, 0) BY <2>2, <2>3, <2>4 DEF FlightInv, Before
  <2>6. Lost = {} BY DEF Init, Lost
  <2>7. IsFiniteSet(Lost) /\ Cardinality(Lost) = 0 BY <2>6, FS_EmptySet
  <2>8. Done(0) = 0 /\ Begun(0) = 0 BY <2>7 DEF Done, Begun, Init
  <2>9. LoopInv(0, 0) BY <2>1, <2>6, <2>7, <2>8 DEF LoopInv, Init, StatusDrift
  <2> QED BY <2>5, <2>9 DEF DriftInv
<1>2. DriftInv => StatusDrift BY DEF DriftInv, LoopInv
<1> QED BY <1>1, <1>2, TypeInit, TypeNext, DriftNext, PTL DEF Spec
=============================================================================
