------------------------------- MODULE Lookup -------------------------------
(***************************************************************************)
(* How an ACN peer finds the peer that represents an agent:                 *)
(* lookupAddressDHT asks the providers of the address one after the other,  *)
(* each provider answers from its maps (HandleAeaAddressRequest) or, when   *)
(* the agent is not there any more, looks the address up itself before it   *)
(* answers, and an answer counts only with a proof of representation.       *)
(*                                                                          *)
(* Lookups share nothing but the maps they read, so there is one lookup of  *)
(* one address.  It is a stack: the frame of whoever is served last is on   *)
(* top, each frame below waits for the one above.  The agent comes and goes *)
(* and peers crash while the lookup runs.                                   *)
(***************************************************************************)
EXTENDS Integers, Sequences, FiniteSets

CONSTANTS
    Peers,      \* the peers of the network
    Origin,     \* the peer that looks the address up; it does not crash by itself
    Client,     \* the agent's own node when it is a relay client
    Foreign,    \* providers that run anything: they answer what they like, or never
    MaxMoves,   \* bound: registrations and departures of the agent
    MaxCrashes, \* bound: crashes of peers
    MaxDepth,   \* bound: lookups nested in one another
    NoPeer

ASSUME LookupAssumption ==
    /\ Origin \in Peers
    /\ NoPeer \notin Peers \cup {Client}
    /\ Client \notin Peers
    /\ Foreign \subseteq Peers \ {Origin}
    /\ MaxMoves \in Nat
    /\ MaxCrashes \in Nat
    /\ MaxDepth \in Nat \ {0}

Honest == Peers \ Foreign

VARIABLES
    up,             \* the peers that run
    dhtAddresses,   \* the peers that have the agent as a relay client
    tcpAddresses,   \* ... as a delegate client, or as their own agent
    mailboxes,      \* ... as the owner of a mailbox
    agentRecords,   \* agentRecords[p]: the peer its record of the agent names; the
                    \* mailbox service has records of its own
    registering,    \* <<p, kind>>: p has the record, and not yet the address
    providers,      \* the peers that the DHT names for the address
    stack,          \* the frames of the lookup, the origin's first
    reply,          \* what the frame that was on top has returned
    started,
    moves,          \* registrations and departures so far
    crashes,        \* crashes so far
    \* history
    since           \* the peers it was registered with since the lookup began

mapVars == <<dhtAddresses, tcpAddresses, mailboxes, agentRecords, registering>>
netVars == <<up, mapVars, providers, moves, crashes>>
vars == <<netVars, stack, reply, started, since>>

\* A record names the peer that represents the agent, which is the relay client
\* itself, not its relay.  Its proof is the one a peer has, one that was valid once and
\* that somebody has kept (a proof never expires), or none.
Records == [peer : Peers \cup {Client}, proof : {"own", "old", "none"}]
None == [kind |-> "none"]
Error == [kind |-> "error"]
Empty == [kind |-> "empty"]     \* no error, and no peer either
Nil == [kind |-> "nil"]         \* a response without a record
Found(r) == [kind |-> "record", record |-> r]
Record(p) == [peer |-> p, proof |-> "own"]

Keeps(p) ==
    p \in up /\ p \in dhtAddresses \cup tcpAddresses \cup mailboxes

\* A provider that would have to look the address up itself.
Stale == {p \in (providers \cap up) \ Foreign : ~ Keeps(p)}

\* The lookup is over: it has returned, or the peer that made it is gone.
Finished == started /\ stack = <<>>

Top == stack[Len(stack)]
Running(pc) == stack # <<>> /\ reply = None /\ Top.pc = pc
SetTop(f) == stack' = [stack EXCEPT ![Len(stack)] = f]
Pop == SubSeq(stack, 1, Len(stack) - 1)

\* A frame of lookupAddressDHT: the providers the channel has given, the one it
\* waits for, the variables provider.ID # "" and err # nil, and ctx.
Frame(p, pc) ==
    [peer |-> p, pc |-> pc, relay |-> FALSE, delegate |-> FALSE, record |-> NoPeer,
     given |-> {}, asked |-> NoPeer, seen |-> FALSE, err |-> FALSE, done |-> FALSE]

Init ==
    /\ up = Peers
    /\ dhtAddresses = {}
    /\ tcpAddresses = {}
    /\ mailboxes = {}
    /\ agentRecords = [p \in Peers |-> NoPeer]
    /\ registering = {}
    /\ providers = Foreign
    /\ stack = <<>>
    /\ reply = None
    /\ started = FALSE
    /\ moves = 0
    /\ crashes = 0
    /\ since = {}

\* Whom a record may name: the entry of a relay client never goes, and goes with
\* whichever record its relay has.  An agent that is registering has been told that it is
\* registered.
Kept ==
    ((tcpAddresses \cup mailboxes) \cap up)
        \cup {agentRecords[p] : p \in dhtAddresses \cap up}
        \cup {agentRecords[r[1]] : r \in registering}
Remember == since' = IF started THEN since \cup Kept' ELSE since
LookupUnchanged == UNCHANGED <<stack, reply, started>>

-----------------------------------------------------------------------------
(* The agent, the DHT and the peers.                                        *)

\* The agent registers with p, as a relay client or a delegate client: its record goes
\* into agentRecords, ...
AddRecord(p, kind) ==
    /\ <<p, kind>> \notin registering
    /\ registering' = registering \cup {<<p, kind>>}
    /\ agentRecords' = [agentRecords EXCEPT ![p] = IF kind = "relay" THEN Client ELSE p]
    /\ UNCHANGED mailboxes

\* ... or over the mailbox service.
AddMailbox(p) ==
    /\ mailboxes' = mailboxes \cup {p}
    /\ UNCHANGED <<agentRecords, registering>>

Register(p) ==
    /\ moves < MaxMoves
    /\ p \in up \cap Honest
    /\ AddMailbox(p) \/ \E kind \in {"relay", "delegate"} : AddRecord(p, kind)
    /\ moves' = moves + 1
    /\ LookupUnchanged
    /\ UNCHANGED <<up, dhtAddresses, tcpAddresses, providers, crashes>>
    /\ Remember

\* The address goes into its map under another lock, later.
AddAddress(p) ==
    /\ \/ /\ <<p, "relay">> \in registering
          /\ dhtAddresses' = dhtAddresses \cup {p}
          /\ registering' = registering \ {<<p, "relay">>}
          /\ UNCHANGED tcpAddresses
       \/ /\ <<p, "delegate">> \in registering
          /\ tcpAddresses' = tcpAddresses \cup {p}
          /\ registering' = registering \ {<<p, "delegate">>}
          /\ UNCHANGED dhtAddresses
    /\ LookupUnchanged
    /\ UNCHANGED <<up, mailboxes, agentRecords, providers, moves, crashes>>
    /\ Remember

\* The delegate connection is closed, or the session ends.  The entry of a relay
\* client and all records stay.
Depart(p) ==
    /\ moves < MaxMoves
    /\ \/ /\ p \in tcpAddresses
          /\ tcpAddresses' = tcpAddresses \ {p}
          /\ UNCHANGED mailboxes
       \/ /\ p \in mailboxes
          /\ mailboxes' = mailboxes \ {p}
          /\ UNCHANGED tcpAddresses
    /\ moves' = moves + 1
    /\ LookupUnchanged
    /\ UNCHANGED <<up, dhtAddresses, agentRecords, registering, providers, crashes>>
    /\ Remember

\* dht.Provide.  A provider record that has expired is one FindProvidersAsync
\* does not find, which it need not do anyway.
Provide(p) ==
    /\ p \in up
    /\ p \notin providers
    /\ Keeps(p)
    /\ providers' = providers \cup {p}
    /\ LookupUnchanged
    /\ UNCHANGED <<up, mapVars, moves, crashes, since>>

\* A stream breaks: what waits for the frame gets an error.  Frames above keep running
\* on their peers, for nobody.
Cut(i) ==
    /\ stack' = SubSeq(stack, 1, i - 1)
    /\ reply' = Error

FramesAt(p) == {i \in 1..Len(stack) : stack[i].peer = p}
Lowest(S) == CHOOSE i \in S : \A j \in S : i <= j

\* The process of a peer ends, with its streams.
Ends(p) ==
    /\ up' = up \ {p}
    /\ tcpAddresses' = tcpAddresses \ {p}
    /\ mailboxes' = mailboxes \ {p}
    \* with and without storage; only relay clients are saved
    /\ dhtAddresses' \in {dhtAddresses, dhtAddresses \ {p}}
    /\ agentRecords' = [agentRecords EXCEPT ![p] = IF p \in dhtAddresses' THEN Client ELSE NoPeer]
    /\ registering' = {r \in registering : r[1] # p}
    /\ \/ FramesAt(p) = {} /\ UNCHANGED <<stack, reply>>
       \/ FramesAt(p) # {} /\ Cut(Lowest(FramesAt(p)))
    /\ UNCHANGED <<providers, moves, started, since>>

Crash(p) ==
    /\ crashes < MaxCrashes
    /\ p \in up \ {Origin}
    /\ crashes' = crashes + 1
    /\ Ends(p)

Restart(p) ==
    /\ p \notin up
    /\ up' = up \cup {p}
    /\ LookupUnchanged
    /\ UNCHANGED <<mapVars, providers, moves, crashes>>
    /\ Remember

\* The model ends with the lookup.
Network ==
    /\ ~ Finished
    /\ \E p \in Peers :
        \/ Register(p) \/ AddAddress(p) \/ Depart(p)
        \/ Provide(p) \/ Crash(p) \/ Restart(p)

-----------------------------------------------------------------------------
(* The lookup.                                                              *)

\* RouteEnvelope and the slow loop call lookupAddressDHT, a relay client asks
\* with a request of its own.
Start ==
    /\ ~ started
    /\ started' = TRUE
    /\ \E pc \in {"find", "relays"} : stack' = <<Frame(Origin, pc)>>
    /\ since' = Kept
    /\ UNCHANGED <<netVars, reply>>

\* The function on top returns r to the frame below, or to the caller.
Return(r) == stack' = Pop /\ reply' = r

\* HandleAeaAddressRequest reads dhtAddresses, then tcpAddresses, then agentRecords, each
\* under a lock of its own, and decides after that.
ReadRelays ==
    /\ Running("relays")
    /\ SetTop([Top EXCEPT !.relay = Top.peer \in dhtAddresses, !.pc = "delegates"])
    /\ UNCHANGED <<netVars, reply, started, since>>

\* Mutant: a record in agentRecords is taken for a client.
IsDelegateMutant(p) == agentRecords[p] # NoPeer
IsDelegate(p) == p \in tcpAddresses

ReadDelegates ==
    /\ Running("delegates")
    /\ SetTop([Top EXCEPT !.delegate = IsDelegate(Top.peer), !.pc = "record"])
    /\ UNCHANGED <<netVars, reply, started, since>>

ReadRecord ==
    /\ Running("record")
    /\ \/ /\ Top.relay
          /\ Return(Found(Record(agentRecords[Top.peer])))
       \/ /\ ~ Top.relay
          /\ SetTop([Top EXCEPT !.record = IF Top.delegate THEN agentRecords[Top.peer]
                                                           ELSE NoPeer,
                                !.pc = "mailbox"])
          /\ UNCHANGED reply
    /\ UNCHANGED <<netVars, started, since>>

\* IsAddrRegistered; a request that is not for a client here goes to the DHT.
CheckMailbox ==
    /\ Running("mailbox")
    /\ \/ /\ Top.peer \in mailboxes
          /\ SetTop([Top EXCEPT !.pc = "mailboxRecord"])
          /\ UNCHANGED reply
       \/ /\ Top.peer \notin mailboxes
          /\ Top.record # NoPeer
          /\ Return(Found(Record(Top.record)))
       \/ /\ Top.peer \notin mailboxes
          /\ Top.record = NoPeer
          /\ SetTop(Frame(Top.peer, "find"))
          /\ UNCHANGED reply
    /\ UNCHANGED <<netVars, started, since>>

\* GetAgentRecord, in a lock region of its own: no record is an unknown address.
GetMailboxRecord ==
    /\ Running("mailboxRecord")
    /\ Return(IF Top.peer \in mailboxes THEN Found(Record(Top.peer)) ELSE Error)
    /\ UNCHANGED <<netVars, started, since>>

\* FindProvidersAsync gives another provider.
NextProvider(q) ==
    /\ Running("find")
    /\ ~ Top.done
    /\ q \in providers \ Top.given
    /\ SetTop([Top EXCEPT !.given = @ \cup {q}, !.asked = q, !.seen = TRUE, !.pc = "ask"])
    /\ UNCHANGED <<netVars, reply, started, since>>

\* The deadline of ctx, which FindProvidersAsync alone observes.
ContextDone ==
    /\ Running("find")
    /\ ~ Top.done
    /\ SetTop([Top EXCEPT !.done = TRUE])
    /\ UNCHANGED <<netVars, reply, started, since>>

\* A provider fails: the next one.
ProviderFailed(f) == [f EXCEPT !.pc = "find", !.asked = NoPeer, !.err = TRUE]

\* Mutant: the own peer is dialled like the others.
CanDialMutant == Top.asked \in up
CanDial == Top.asked # Top.peer /\ Top.asked \in up   \* a host cannot dial itself

\* NewStream, and the request.  A chain that grows beyond the bound of the model
\* is one that does not return.
OpenStream ==
    /\ Running("ask")
    /\ \/ CanDial /\ Len(stack) = MaxDepth /\ SetTop([Top EXCEPT !.pc = "beyond"])
       \/ /\ CanDial
          /\ Len(stack) < MaxDepth
          /\ stack' = Append([stack EXCEPT ![Len(stack)].pc = "wait"],
                             Frame(Top.asked, IF Top.asked \in Foreign THEN "foreign"
                                                                       ELSE "relays"))
       \/ SetTop(ProviderFailed(Top))
    /\ UNCHANGED <<netVars, reply, started, since>>

\* A status, a record that does not verify or that was valid once, a response without a
\* record, or nothing at all: this step need not be taken.  Whom such a record names makes
\* no difference here.
ForeignAnswers ==
    /\ Running("foreign")
    /\ \/ Return(Error)
       \/ Return(Nil)
       \/ \E proof \in {"old", "none"} : Return(Found([peer |-> Client, proof |-> proof]))
    /\ UNCHANGED <<netVars, started, since>>

\* IsValidProofOfRepresentation: the address, the ledger, the peer's key, the
\* agent's key and the signature.  Mutant: only the form of the record is tested.
IsValidProofOfRepresentationMutant(r) == r \in Records
IsValidProofOfRepresentation(r) == r.proof # "none"

\* ReadLookupResponse: the frame below the one that has returned goes on.
ReceiveAnswer ==
    /\ stack # <<>>
    /\ reply \notin {None, Nil}
    /\ IF reply.kind = "record" /\ IsValidProofOfRepresentation(reply.record)
         THEN stack' = Pop /\ UNCHANGED reply
         ELSE SetTop(ProviderFailed(Top)) /\ reply' = None
    /\ UNCHANGED <<netVars, started, since>>

\* record.PeerPublicKey of a response without a record: a panic, which nothing recovers.
Panic ==
    /\ stack # <<>>
    /\ reply = Nil
    /\ Ends(Top.peer)
    /\ UNCHANGED crashes

\* The stream breaks under a frame that waits.
StreamLost ==
    /\ reply = None
    /\ \E i \in 2..Len(stack) : Cut(i)
    /\ UNCHANGED <<netVars, started, since>>

\* No provider has been seen: retry until the deadline.  Mutant: retry for ever.
GivesUpMutant(f) == FALSE
GivesUp(f) == f.done

\* The channel of providers is closed: the query is over, or ctx is done.  The
\* retry, after a query that gave no provider, changes nothing.
ProvidersEnd ==
    /\ Running("find")
    /\ \/ Top.seen /\ Return(IF Top.err THEN Error ELSE Empty)
       \/ ~ Top.seen /\ GivesUp(Top) /\ Return(Error)
    /\ UNCHANGED <<netVars, started, since>>

LookupStep ==
    \/ ReadRelays \/ ReadDelegates \/ ReadRecord \/ CheckMailbox \/ GetMailboxRecord
    \/ ContextDone \/ (\E q \in Peers : NextProvider(q)) \/ OpenStream
    \/ ReceiveAnswer \/ Panic \/ ProvidersEnd

Next == Network \/ Start \/ LookupStep \/ ForeignAnswers \/ StreamLost

Spec == Init /\ [][Next]_vars

\* Goroutines run and deadlines pass.  The agent and the network need do nothing, and a
\* foreign provider need never answer.
FairSpec == Spec /\ WF_vars(LookupStep)

-----------------------------------------------------------------------------
(* Properties                                                               *)

FrameStates ==
    {"relays", "delegates", "record", "mailbox", "mailboxRecord", "find", "ask", "wait", "foreign",
     "beyond"}
Frames ==
    [peer : Peers, pc : FrameStates, relay : BOOLEAN, delegate : BOOLEAN,
     record : Peers \cup {Client, NoPeer},
     given : SUBSET Peers, asked : Peers \cup {NoPeer}, seen : BOOLEAN,
     err : BOOLEAN, done : BOOLEAN]
Replies == {None, Error, Empty, Nil} \cup {Found(r) : r \in Records}

\* The variables have the values their declarations announce, the frames below
\* the top are exactly those that wait, for the peer of the frame above, and no
\* frame asks its own peer.
TypeOK ==
    /\ up \subseteq Peers
    /\ dhtAddresses \subseteq Honest
    /\ tcpAddresses \subseteq Honest
    /\ mailboxes \subseteq Honest
    /\ agentRecords \in [Peers -> Peers \cup {Client, NoPeer}]
    /\ registering \subseteq Honest \X {"relay", "delegate"}
    /\ \A p \in dhtAddresses \cup tcpAddresses : agentRecords[p] # NoPeer
    /\ \A r \in registering : agentRecords[r[1]] # NoPeer
    /\ providers \subseteq Peers
    /\ stack \in Seq(Frames)
    /\ Len(stack) <= MaxDepth
    /\ \A i \in 1..(Len(stack) - 1) :
           /\ stack[i].pc = "wait"
           /\ stack[i].asked = stack[i + 1].peer
           /\ stack[i].peer # stack[i + 1].peer
    /\ stack # <<>> => (Top.pc = "wait" <=> reply # None)
    /\ reply \in Replies
    /\ started \in BOOLEAN
    /\ moves \in 0..MaxMoves
    /\ crashes \in 0..MaxCrashes
    /\ since \subseteq Peers \cup {Client}

\* A lookup that returns no error gives a record that verifies, and it names a peer with
\* which the agent was registered at some moment since the lookup began, unless a foreign
\* provider has replayed an old record: no answer that does not verify gets through the
\* chain, no failure of the last provider is returned as success with an empty peer ID
\* (the comment at PerformAddressLookup), and the records of agents that have left, which
\* a peer keeps for ever, are not given out by the peers that run this code, though they
\* read their maps one after the other.  (A relay never deletes the entry of a client, so
\* that a client that has left its relay counts as registered, with the record the relay
\* has.)
FoundIsFresh ==
    Finished /\ reply # Error =>
        /\ reply.kind = "record"
        /\ \/ reply.record.proof = "own" /\ reply.record.peer \in since
           \/ reply.record.proof = "old"

\* What keeps a lookup from its end is one of two things only: a foreign provider that
\* never answers, or two stale providers, which ask each other in turn.  Crashes, broken
\* streams, panics of peers that ask and moves of the agent do not.
LookupReturns ==
    /\ [](Cardinality(Stale) <= 1)
    /\ []<>(~ Running("foreign"))
    => (started ~> Finished)
=============================================================================
