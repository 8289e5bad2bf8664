------------------------------ MODULE AgentApi ------------------------------
(***************************************************************************)
(* The connection of a node to its own agent (aea/api.go, aea/utils.go):    *)
(* listenForEnvelopes reads the pipe, envelopeSendLoop writes to it, main   *)
(* (libp2p_node.go) routes what comes out of out_queue, and the handlers of *)
(* the DHT node put incoming envelopes into send_queue.  The listener stops *)
(* everything when the pipe fails.                                          *)
(*                                                                          *)
(* An envelope of the agent is a message with a number, in the order of     *)
(* writing; an envelope for the agent is its number in the order in which   *)
(* send_queue accepted it.  The status of an envelope is that number: the   *)
(* node cannot see it.  0 is the nil envelope.                              *)
(***************************************************************************)
EXTENDS Integers, Sequences, FiniteSets

CONSTANTS
    SendQueueSize,      \* capacity of send_queue (100)
    OutQueueSize,       \* capacity of out_queue (100)
    StatusQueueSize,    \* capacity of acn_status_chan (1000)
    MaxFromAgent,       \* bound: messages the agent writes, statuses aside
    Script,             \* Script[n]: the kinds its n-th message may be of
    MaxIncoming         \* bound: envelopes of other nodes for the agent

\* What the agent may write: an envelope to another agent or to itself, one
\* whose sender is not the agent, bytes that are no envelope, a status.
OwnKinds == {"other", "self"}
Kinds == OwnKinds \cup {"foreign", "bad"}
Messages == [kind : Kinds \cup {"status"}, id : Nat]

ASSUME AgentApiAssumption ==
    /\ SendQueueSize \in Nat \ {0}
    /\ OutQueueSize \in Nat \ {0}
    /\ StatusQueueSize \in Nat \ {0}
    /\ MaxFromAgent \in Nat
    /\ Script \in [1..MaxFromAgent -> SUBSET Kinds]
    /\ MaxIncoming \in Nat

VARIABLES
    \* the pipe: "open", "broken" (the agent is gone), "closed" (by Stop)
    pipe,
    toNode,             \* messages the agent wrote, not yet read
    toAgent,            \* envelopes written to the agent, not yet answered
    fromAgent,          \* number of messages the agent has written
    \* AeaApi
    send_queue, out_queue, acn_status_chan,
    sendOpen, outOpen,  \* the two queues are not closed
    closing,
    \* listenForEnvelopes
    lpc, lmsg,
    \* envelopeSendLoop
    spc, senv,
    \* the goroutine of main that routes, and main itself
    rpc, rmsg,
    processEnvelope,    \* main has set the callback of the node
    \* history
    incoming,           \* number of envelopes of other nodes
    accepted,           \* number of envelopes that send_queue accepted
    acked,              \* own envelopes for which the agent was sent SUCCESS
    routed,             \* numbers of the envelopes routed, in order
    confirmed,          \* <<envelope, status>> of the sends that got a status
    unconfirmed,        \* envelopes whose status did not come in time
    failed,             \* envelopes that could not be written
    panicked            \* a send on a closed channel has ended the process

pipeVars == <<pipe, toNode, toAgent, fromAgent>>
queueVars == <<send_queue, out_queue, acn_status_chan, sendOpen, outOpen, closing>>
loopVars == <<lpc, lmsg, spc, senv, rpc, rmsg, processEnvelope>>
sendResults == <<confirmed, unconfirmed, failed>>
history == <<incoming, accepted, acked, routed, sendResults, panicked>>
vars == <<pipeVars, queueVars, loopVars, history>>

NoMessage == [kind |-> "bad", id |-> 0]

\* Connect has succeeded: the loops are started, main goes on.
Init ==
    /\ pipe = "open"
    /\ toNode = <<>>
    /\ toAgent = <<>>
    /\ fromAgent = 0
    /\ send_queue = <<>>
    /\ out_queue = <<>>
    /\ acn_status_chan = <<>>
    /\ sendOpen = TRUE
    /\ outOpen = TRUE
    /\ closing = FALSE
    /\ lpc = "read"
    /\ lmsg = NoMessage
    /\ spc = "receive"
    /\ senv = 0
    /\ rpc = "range"
    /\ rmsg = NoMessage
    /\ processEnvelope = FALSE
    /\ incoming = 0
    /\ accepted = 0
    /\ acked = {}
    /\ routed = <<>>
    /\ confirmed = {}
    /\ unconfirmed = {}
    /\ failed = {}
    /\ panicked = FALSE

-----------------------------------------------------------------------------
(* The agent: it writes, answers in order, and may be gone at any time.     *)

AgentWrites(kind) ==
    /\ pipe = "open"
    /\ fromAgent < MaxFromAgent
    /\ kind \in Script[fromAgent + 1]
    /\ fromAgent' = fromAgent + 1
    /\ toNode' = Append(toNode, [kind |-> kind, id |-> fromAgent + 1])
    /\ UNCHANGED <<pipe, toAgent, queueVars, loopVars, history>>

AgentAnswers ==
    /\ pipe = "open"
    /\ toAgent # <<>>
    /\ toAgent' = Tail(toAgent)
    /\ toNode' = Append(toNode, [kind |-> "status", id |-> Head(toAgent)])
    /\ UNCHANGED <<pipe, fromAgent, queueVars, loopVars, history>>

AgentGone ==
    /\ pipe = "open"
    /\ pipe' = "broken"
    /\ UNCHANGED <<toNode, toAgent, fromAgent, queueVars, loopVars, history>>

-----------------------------------------------------------------------------
(* listenForEnvelopes                                                       *)

\* A message is read and decoded.  What cannot be decoded is answered with an
\* error, whose own failure is ignored, and skipped.
Read ==
    /\ lpc = "read"
    /\ toNode # <<>>
    /\ toNode' = Tail(toNode)
    /\ lmsg' = IF Head(toNode).kind = "bad" THEN NoMessage ELSE Head(toNode)
    /\ lpc' = CASE Head(toNode).kind = "bad" -> "read"
                [] Head(toNode).kind = "status" -> "status"
                [] OTHER -> "answer"
    /\ UNCHANGED <<pipe, toAgent, fromAgent, queueVars, spc, senv, rpc, rmsg,
                   processEnvelope, history>>

ListenerContinues ==
    /\ lpc' = "read"
    /\ lmsg' = NoMessage

\* SendAcnSuccess.  A write to a broken pipe is lost or fails; when it fails the
\* envelope is skipped.  Only then is the sender compared with the record.
AnswerEnvelope ==
    /\ lpc = "answer"
    /\ \/ /\ acked' = IF pipe = "open" /\ lmsg.kind \in OwnKinds
                      THEN acked \cup {lmsg.id} ELSE acked
          /\ IF lmsg.kind \in OwnKinds
             THEN lpc' = "forward" /\ UNCHANGED lmsg
             ELSE ListenerContinues
       \/ /\ pipe = "broken"
          /\ ListenerContinues
          /\ UNCHANGED acked
    /\ UNCHANGED <<pipeVars, queueVars, spc, senv, rpc, rmsg, processEnvelope, incoming,
                   accepted, routed, sendResults, panicked>>

\* Mutant: the envelope is discarded when the queue is full.
ForwardMutant ==
    IF Len(out_queue) < OutQueueSize
    THEN out_queue' = Append(out_queue, lmsg) ELSE UNCHANGED out_queue
Forward ==
    /\ Len(out_queue) < OutQueueSize
    /\ out_queue' = Append(out_queue, lmsg)

\* The send to out_queue blocks while it is full.
ForwardEnvelope ==
    /\ lpc = "forward"
    /\ Forward
    /\ lpc' = IF closing THEN "done" ELSE "read"
    /\ lmsg' = NoMessage
    /\ UNCHANGED <<pipeVars, send_queue, acn_status_chan, sendOpen, outOpen, closing, spc,
                   senv, rpc, rmsg, processEnvelope, history>>

\* Mutant: the capacity is off by one.
StatusHasRoomMutant == Len(acn_status_chan) <= StatusQueueSize
StatusHasRoom == Len(acn_status_chan) < StatusQueueSize

\* AddAcnStatusMessage blocks while the channel is full.
AddAcnStatusMessage ==
    /\ lpc = "status"
    /\ StatusHasRoom
    /\ acn_status_chan' = Append(acn_status_chan, lmsg.id)
    /\ ListenerContinues
    /\ UNCHANGED <<pipeVars, send_queue, out_queue, sendOpen, outOpen, closing, spc, senv,
                   rpc, rmsg, processEnvelope, history>>

\* Reading fails, with or without messages left: a PipeError.
ReadFails ==
    /\ lpc = "read"
    /\ pipe # "open"
    /\ lpc' = IF closing THEN "done" ELSE "stop"
    /\ UNCHANGED <<pipeVars, queueVars, lmsg, spc, senv, rpc, rmsg, processEnvelope, history>>

\* Stop, run by the listener: nil for the send loop (this blocks while the queue
\* is full), closing, the pipe, and the two queues.
StopSendsNil ==
    /\ lpc = "stop"
    /\ Len(send_queue) < SendQueueSize
    /\ send_queue' = Append(send_queue, 0)
    /\ lpc' = "setClosing"
    /\ UNCHANGED <<pipeVars, out_queue, acn_status_chan, sendOpen, outOpen, closing, lmsg,
                   spc, senv, rpc, rmsg, processEnvelope, history>>

StopSetsClosing ==
    /\ lpc = "setClosing"
    /\ closing' = TRUE
    /\ lpc' = "closePipe"
    /\ UNCHANGED <<pipeVars, send_queue, out_queue, acn_status_chan, sendOpen, outOpen,
                   lmsg, spc, senv, rpc, rmsg, processEnvelope, history>>

StopClosesPipe ==
    /\ lpc = "closePipe"
    /\ pipe' = "closed"
    /\ lpc' = "closeOut"
    /\ UNCHANGED <<toNode, toAgent, fromAgent, queueVars, lmsg, spc, senv, rpc, rmsg,
                   processEnvelope, history>>

\* Mutant: out_queue is not closed.
CloseOutMutant == UNCHANGED outOpen
CloseOut == outOpen' = FALSE

StopClosesOut ==
    /\ lpc = "closeOut"
    /\ CloseOut
    /\ lpc' = "closeSend"
    /\ UNCHANGED <<pipeVars, send_queue, out_queue, acn_status_chan, sendOpen, closing,
                   lmsg, spc, senv, rpc, rmsg, processEnvelope, history>>

StopClosesSend ==
    /\ lpc = "closeSend"
    /\ sendOpen' = FALSE
    /\ lpc' = "done"
    /\ UNCHANGED <<pipeVars, send_queue, out_queue, acn_status_chan, outOpen, closing,
                   lmsg, spc, senv, rpc, rmsg, processEnvelope, history>>

-----------------------------------------------------------------------------
(* envelopeSendLoop                                                         *)

\* A closed and empty channel yields nil too, which ends the loop.
Receive ==
    /\ spc = "receive"
    /\ send_queue # <<>> \/ ~ sendOpen
    /\ LET e == IF send_queue = <<>> THEN 0 ELSE Head(send_queue) IN
        /\ senv' = e
        /\ spc' = IF e = 0 THEN "done" ELSE "write"
    /\ send_queue' = IF send_queue = <<>> THEN <<>> ELSE Tail(send_queue)
    /\ UNCHANGED <<pipeVars, out_queue, acn_status_chan, sendOpen, outOpen, closing, lpc,
                   lmsg, rpc, rmsg, processEnvelope, history>>

WriteEnvelope ==
    /\ spc = "write"
    /\ \/ /\ pipe = "open"
          /\ toAgent' = Append(toAgent, senv)
          /\ spc' = "wait"
          /\ UNCHANGED failed
       \/ /\ pipe = "broken"
          /\ spc' = "wait"
          /\ UNCHANGED <<toAgent, failed>>
       \/ /\ pipe # "open"
          /\ failed' = failed \cup {senv}
          /\ spc' = "check"
          /\ UNCHANGED toAgent
    /\ UNCHANGED <<pipe, toNode, fromAgent, queueVars, lpc, lmsg, senv, rpc, rmsg,
                   processEnvelope, incoming, accepted, acked, routed, confirmed,
                   unconfirmed, panicked>>

\* Mutant: the status is peeked at and left in the channel.
TakeMutant == UNCHANGED acn_status_chan
Take == acn_status_chan' = Tail(acn_status_chan)

\* WaitForStatus takes whatever status is first in the channel, ...
TakeStatus ==
    /\ spc = "wait"
    /\ acn_status_chan # <<>>
    /\ Take
    /\ confirmed' = confirmed \cup {<<senv, Head(acn_status_chan)>>}
    /\ spc' = "check"
    /\ UNCHANGED <<pipeVars, send_queue, out_queue, sendOpen, outOpen, closing, lpc, lmsg,
                   senv, rpc, rmsg, processEnvelope, incoming, accepted, acked, routed,
                   unconfirmed, failed, panicked>>

\* Mutant: there is no timeout.
TimeoutMutant == FALSE
Timeout == TRUE

\* ... or gives up after AcnStatusTimeout.
StatusTimeout ==
    /\ spc = "wait"
    /\ Timeout
    /\ unconfirmed' = unconfirmed \cup {senv}
    /\ spc' = "check"
    /\ UNCHANGED <<pipeVars, queueVars, lpc, lmsg, senv, rpc, rmsg, processEnvelope,
                   incoming, accepted, acked, routed, confirmed, failed, panicked>>

CheckClosing ==
    /\ spc = "check"
    /\ spc' = IF closing THEN "done" ELSE "receive"
    /\ senv' = 0
    /\ UNCHANGED <<pipeVars, queueVars, lpc, lmsg, rpc, rmsg, processEnvelope, history>>

-----------------------------------------------------------------------------
(* The node: main and the handlers of incoming envelopes.                   *)

\* main starts the routing goroutine, then sets the callback.
SetProcessEnvelope ==
    /\ ~ processEnvelope
    /\ processEnvelope' = TRUE
    /\ UNCHANGED <<pipeVars, queueVars, lpc, lmsg, spc, senv, rpc, rmsg, history>>

\* The range over out_queue ends when it is closed and empty.
RangeQueue ==
    /\ rpc = "range"
    /\ \/ /\ out_queue # <<>>
          /\ out_queue' = Tail(out_queue)
          /\ rmsg' = Head(out_queue)
          /\ rpc' = "route"
       \/ /\ out_queue = <<>>
          /\ ~ outOpen
          /\ rpc' = "done"
          /\ UNCHANGED <<out_queue, rmsg>>
    /\ UNCHANGED <<pipeVars, send_queue, acn_status_chan, sendOpen, outOpen, closing, lpc,
                   lmsg, spc, senv, processEnvelope, history>>

RouteReturns ==
    /\ routed' = Append(routed, rmsg.id)
    /\ rpc' = "range"
    /\ rmsg' = NoMessage

\* RouteEnvelope of the node: an envelope of the agent to itself comes back
\* through processEnvelope, if that is set.
Route ==
    /\ rpc = "route"
    /\ IF rmsg.kind = "self" /\ processEnvelope
       THEN rpc' = "put" /\ UNCHANGED <<routed, rmsg>>
       ELSE RouteReturns
    /\ UNCHANGED <<pipeVars, queueVars, lpc, lmsg, spc, senv, processEnvelope, incoming,
                   accepted, acked, sendResults, panicked>>

\* The send to send_queue of Put blocks while the queue is full ...
Put ==
    /\ sendOpen
    /\ Len(send_queue) < SendQueueSize
    /\ send_queue' = Append(send_queue, accepted + 1)
    /\ accepted' = accepted + 1

\* ... and panics when it is closed.
PutPanics ==
    /\ ~ sendOpen
    /\ panicked' = TRUE

RouterPuts ==
    /\ rpc = "put"
    /\ \/ Put /\ RouteReturns /\ UNCHANGED panicked
       \/ PutPanics /\ UNCHANGED <<send_queue, accepted, routed, rpc, rmsg>>
    /\ UNCHANGED <<pipeVars, out_queue, acn_status_chan, sendOpen, outOpen, closing, lpc,
                   lmsg, spc, senv, processEnvelope, incoming, acked, sendResults>>

\* A handler of the node puts an envelope that has come from elsewhere.
IncomingPuts ==
    /\ processEnvelope
    /\ incoming < MaxIncoming
    /\ incoming' = incoming + 1
    /\ \/ Put /\ UNCHANGED panicked
       \/ PutPanics /\ UNCHANGED <<send_queue, accepted>>
    /\ UNCHANGED <<pipeVars, out_queue, acn_status_chan, sendOpen, outOpen, closing,
                   loopVars, acked, routed, sendResults>>

-----------------------------------------------------------------------------

Agent == AgentAnswers \/ AgentGone \/ \E kind \in Kinds : AgentWrites(kind)

Listener ==
    \/ Read \/ AnswerEnvelope \/ ForwardEnvelope \/ AddAcnStatusMessage \/ ReadFails
    \/ StopSendsNil \/ StopSetsClosing \/ StopClosesPipe \/ StopClosesOut \/ StopClosesSend

Sender == Receive \/ WriteEnvelope \/ TakeStatus \/ StatusTimeout \/ CheckClosing

Router == RangeQueue \/ Route \/ RouterPuts

Next == ~ panicked /\ (Agent \/ Listener \/ Sender \/ Router \/ SetProcessEnvelope \/ IncomingPuts)

Spec == Init /\ [][Next]_vars

\* The goroutines of the node run.  Nothing is assumed of the agent or of the
\* envelopes of other nodes.
FairSpec ==
    /\ Spec
    /\ WF_vars(~ panicked /\ Listener)
    /\ WF_vars(~ panicked /\ Sender)
    /\ WF_vars(~ panicked /\ Router)

-----------------------------------------------------------------------------
(* Properties                                                               *)

MaxAccepted == MaxIncoming + MaxFromAgent

\* The type invariant: the channels of AeaApi stay within the capacities that
\* Init and Connect give them.
TypeOK ==
    /\ pipe \in {"open", "broken", "closed"}
    /\ toNode \in Seq(Messages)
    /\ toAgent \in Seq(Nat)
    /\ fromAgent \in 0..MaxFromAgent
    /\ send_queue \in Seq(Nat) /\ Len(send_queue) <= SendQueueSize
    /\ out_queue \in Seq(Messages) /\ Len(out_queue) <= OutQueueSize
    /\ acn_status_chan \in Seq(Nat) /\ Len(acn_status_chan) <= StatusQueueSize
    /\ sendOpen \in BOOLEAN /\ outOpen \in BOOLEAN /\ closing \in BOOLEAN
    /\ processEnvelope \in BOOLEAN /\ panicked \in BOOLEAN
    /\ lpc \in {"read", "answer", "forward", "status", "stop", "setClosing", "closePipe",
                "closeOut", "closeSend", "done"}
    /\ spc \in {"receive", "write", "wait", "check", "done"}
    /\ rpc \in {"range", "route", "put", "done"}
    /\ lmsg \in Messages /\ rmsg \in Messages
    /\ senv \in Nat
    /\ incoming \in 0..MaxIncoming
    /\ accepted \in Nat
    /\ acked \subseteq 1..MaxFromAgent
    /\ routed \in Seq(1..MaxFromAgent)
    /\ confirmed \subseteq Nat \X Nat
    /\ unconfirmed \subseteq Nat
    /\ failed \subseteq Nat

\* The envelopes of the agent on their way through the node, oldest first.
Ids(msgs) == [i \in DOMAIN msgs |-> msgs[i].id]
RouterHand == IF rpc \in {"route", "put"} THEN <<rmsg.id>> ELSE <<>>
ListenerHand == IF lpc = "forward" THEN <<lmsg.id>> ELSE <<>>
Pipeline == routed \o RouterHand \o Ids(out_queue) \o ListenerHand

\* Every envelope of the agent that was answered with SUCCESS is routed or on its
\* way, even after Stop has closed out_queue, and none is overtaken or repeated:
\* the listener answers before it forwards, and forwards by a send that blocks.
AckedIsKept ==
    /\ acked \subseteq {Pipeline[i] : i \in DOMAIN Pipeline}
    /\ \A i, j \in DOMAIN Pipeline : i < j => Pipeline[i] < Pipeline[j]

\* How far confirmations drift: statuses carry no identity and acn_status_chan is
\* never emptied, so the status that confirms an envelope is that of the envelope
\* as many places before it as waits have timed out or writes have failed.
StatusDrift ==
    \A c \in confirmed :
        c[1] - c[2] = Cardinality({e \in unconfirmed \cup failed : e < c[1]})

\* What was answered with SUCCESS is routed in the end, or the process has
\* panicked.  The listener may wait for the router (out_queue is full), the router
\* for the send loop (send_queue is full, the envelope is to the agent itself) and
\* the send loop for a status that only the listener can read: the timeout of
\* WaitForStatus resolves this.
AckedIsRouted ==
    \A e \in 1..MaxFromAgent :
        e \in acked ~> (panicked \/ \E i \in DOMAIN routed : routed[i] = e)

\* When the agent is gone, the loops of the API and the routing goroutine of main
\* end.  Two exceptions: a Put panics on the closed queue, or late statuses have
\* filled acn_status_chan, so that the listener never sees that the pipe failed.
AgentGoneEndsLoops ==
    pipe # "open" ~>
        \/ lpc = "done" /\ spc = "done" /\ rpc = "done"
        \/ panicked
        \/ Cardinality(unconfirmed) > StatusQueueSize
=============================================================================
