---------------------------- MODULE LookupProofs ----------------------------
(***************************************************************************)
(* Proofs about Lookup, for any peers, any providers that answer what they  *)
(* like, any number of moves and crashes and any depth of nested lookups.   *)
(***************************************************************************)
EXTENDS Lookup, SequenceTheorems, WellFoundedInduction, TLAPS

USE LookupAssumption

\* The maps of the peers.  A delegate client whose record does not name its peer has
\* registered as a relay client of the same peer since, or is doing so, so that whatever
\* record a peer gives out names somebody the agent is registered with.
Maps ==
    /\ up \subseteq Peers
    /\ dhtAddresses \subseteq Honest /\ tcpAddresses \subseteq Honest /\ mailboxes \subseteq Honest
    /\ agentRecords \in [Peers -> Peers \cup {Client, NoPeer}]
    /\ \A p \in dhtAddresses \cup tcpAddresses : agentRecords[p] # NoPeer
    /\ registering \subseteq Honest \X {"relay", "delegate"}
    /\ \A r \in registering : agentRecords[r[1]] # NoPeer
    /\ \A p \in Honest :
           p \in tcpAddresses \/ <<p, "delegate">> \in registering =>
              agentRecords[p] = p \/ p \in dhtAddresses \/ <<p, "relay">> \in registering
    /\ providers \subseteq Peers
    /\ started \in BOOLEAN
    /\ moves \in 0..MaxMoves
    /\ crashes \in 0..MaxCrashes

\* Whoever the agent is registered with counts from the start of the lookup.
SinceInv ==
    /\ since \subseteq Peers \cup {Client}
    /\ started => Kept \subseteq since

\* A frame runs on a peer that is up, has read what is still true or was true since the
\* lookup began, and goes on to the next provider only after the last one has failed.
FrameInv(f) ==
    /\ f.peer \in up
    /\ f.relay => f.peer \in dhtAddresses
    /\ f.delegate => agentRecords[f.peer] \in since
    /\ f.record # NoPeer => f.record \in since
    /\ f.pc = "find" /\ f.seen => f.err
    /\ f.pc = "foreign" => f.peer \in Foreign

\* Each frame waits for the one above; the lowest is that of the origin.
Chain ==
    /\ stack \in Seq(Frames)
    /\ Len(stack) <= MaxDepth
    /\ \A i \in 1..(Len(stack) - 1) :
           /\ stack[i].pc = "wait"
           /\ stack[i].asked = stack[i + 1].peer
           /\ stack[i].peer # stack[i + 1].peer
    /\ stack # <<>> => stack[1].peer = Origin
    /\ \A i \in 1..Len(stack) : FrameInv(stack[i])

\* What may be returned, to whom, and when: what does not verify, and a response without
\* a record, only to a peer that asks another one.
Answer(r) ==
    /\ r \in Replies /\ r # Empty
    /\ r.kind = "record" /\ r.record.proof = "own" => r.record.peer \in since
Final(r) == r # Nil /\ (r.kind = "record" => r.record.proof # "none")
CallInv ==
    /\ ~ started => stack = <<>> /\ reply = None /\ Origin \in up
    /\ started /\ stack = <<>> => reply # None /\ Final(reply)
    /\ stack # <<>> => (Top.pc = "wait" <=> reply # None)

Inv == Maps /\ SinceInv /\ Chain /\ Answer(reply) /\ CallInv

-----------------------------------------------------------------------------
(* The stack.                                                               *)

\* A set of numbers that is not empty has a smallest one.
LEMMA SmallestNat ==
  ASSUME NEW S \in SUBSET Nat, S # {}
  PROVE  \E m \in S : \A j \in S : m <= j
<1>1. PICK R : R = OpToRel(<, Nat) OBVIOUS
<1>2. R = {ss \in Nat \X Nat : ss[1] < ss[2]} BY <1>1 DEF OpToRel
<1>3. IsWellFoundedOn(R, Nat) BY <1>1, NatLessThanWellFounded
<1>4. PICK m \in S : \A j \in S : ~ (<<j, m>> \in R) BY <1>3, WFMin
<1>5. \A j \in S : ~ (j < m) BY <1>2, <1>4
<1> QED BY <1>4, <1>5

\* The top of a stack is replaced.
LEMMA TopReplaced ==
  ASSUME NEW S, NEW q \in Seq(S), q # <<>>, NEW f \in S,
         NEW r, r = [q EXCEPT ![Len(q)] = f]
  PROVE  /\ r \in Seq(S) /\ Len(r) = Len(q) /\ r # <<>> /\ Len(q) \in Nat \ {0}
         /\ r[Len(q)] = f /\ \A i \in 1..(Len(q) - 1) : r[i] = q[i]
<1>1. Len(q) \in Nat \ {0} /\ Len(q) \in 1..Len(q) BY EmptySeq, LenProperties
<1>2. r \in Seq(S) /\ Len(r) = Len(q) /\ r[Len(q)] = f /\ \A i \in 1..(Len(q) - 1) : r[i] = q[i]
  BY <1>1, ExceptSeq
<1> QED BY <1>1, <1>2, EmptySeq

\* A stack is cut.
LEMMA StackCut ==
  ASSUME NEW S, NEW q \in Seq(S), NEW n \in 0..Len(q)
  PROVE  /\ SubSeq(q, 1, n) \in Seq(S) /\ Len(SubSeq(q, 1, n)) = n
         /\ SubSeq(q, 1, n) = <<>> <=> n = 0
         /\ \A i \in 1..n : SubSeq(q, 1, n)[i] = q[i] /\ i \in 1..Len(q)
<1>0. PICK r : r = SubSeq(q, 1, n) OBVIOUS
<1>1. Len(q) \in Nat BY LenProperties
<1>2. r \in Seq(S) /\ Len(r) = n /\ \A i \in 1..n : r[i] = q[i] /\ i \in 1..Len(q)
  BY <1>0, <1>1, SubSeqProperties
<1> QED BY <1>0, <1>2, EmptySeq

\* The top is one of the frames.
LEMMA TopIsFrame ==
  ASSUME Chain, stack # <<>>
  PROVE  Top \in Frames /\ FrameInv(Top) /\ Len(stack) \in Nat \ {0}
<1>1. Len(stack) \in Nat \ {0} BY EmptySeq, LenProperties DEF Chain
<1>2. Len(stack) \in 1..Len(stack) BY <1>1
<1> QED BY <1>1, <1>2, ElementOfSeq DEF Chain, Top

\* The network changes under a stack that stays.
LEMMA Quiet ==
  ASSUME Chain, Answer(reply), CallInv, UNCHANGED <<stack, reply, started>>,
         up \subseteq up', dhtAddresses \subseteq dhtAddresses', since \subseteq since',
         started => \A p \in Peers : agentRecords'[p] \in since' \cup {agentRecords[p]}
  PROVE  Chain' /\ Answer(reply)' /\ CallInv'
<1>1. ASSUME started, NEW f \in Frames, FrameInv(f) PROVE FrameInv(f)'
  <2>1. f.peer \in Peers BY <1>1 DEF Frames
  <2> QED BY <1>1, <2>1 DEF FrameInv
<1>2. Chain'
  <2>1. ASSUME NEW i \in 1..Len(stack), NEW f, f = stack[i] PROVE FrameInv(f)'
    <3>1. stack # <<>> BY <2>1, EmptySeq
    <3>2. started BY <3>1 DEF CallInv
    <3>3. f \in Frames /\ FrameInv(f) BY <2>1, ElementOfSeq DEF Chain
    <3> QED BY <1>1, <3>2, <3>3
  <2> QED BY <2>1 DEF Chain
<1>3. Answer(reply)' BY DEF Answer
<1>4. CallInv' BY DEF CallInv, Top, Final
<1> QED BY <1>2, <1>3, <1>4

\* The function on top goes on.
LEMMA Stepped ==
  ASSUME Chain, CallInv, stack # <<>>, NEW f \in Frames, SetTop(f), FrameInv(f),
         f.peer = Top.peer, f.pc # "wait", reply' = None,
         UNCHANGED <<up, dhtAddresses, agentRecords, started, since>>
  PROVE  Chain' /\ Answer(reply)' /\ CallInv'
<1>1. PICK q : q = stack OBVIOUS
<1>2. PICK r : r = stack' OBVIOUS
<1>3. q \in Seq(Frames) /\ q # <<>> /\ r = [q EXCEPT ![Len(q)] = f]
  BY <1>1, <1>2 DEF Chain, SetTop
<1>4. /\ r \in Seq(Frames) /\ Len(r) = Len(q) /\ r # <<>> /\ Len(q) \in Nat \ {0}
      /\ r[Len(q)] = f /\ \A i \in 1..(Len(q) - 1) : r[i] = q[i]
  BY <1>3, TopReplaced
<1>5. \A g : FrameInv(g) => FrameInv(g)' BY DEF FrameInv
<1>6. /\ Len(q) <= MaxDepth /\ q[1].peer = Origin
      /\ \A i \in 1..(Len(q) - 1) :
             q[i].pc = "wait" /\ q[i].asked = q[i + 1].peer /\ q[i].peer # q[i + 1].peer
      /\ \A i \in 1..Len(q) : FrameInv(q[i])
      /\ q[Len(q)].peer = f.peer
  BY <1>1 DEF Chain, Top
<1>7. ASSUME NEW i \in 1..(Len(q) - 1)
      PROVE  r[i].pc = "wait" /\ r[i].asked = r[i + 1].peer /\ r[i].peer # r[i + 1].peer
  <2>1. r[i] = q[i] /\ r[i + 1].peer = q[i + 1].peer
    <3>1. CASE i + 1 = Len(q) BY <1>4, <1>6, <3>1
    <3>2. CASE i + 1 # Len(q)
      <4>1. i + 1 \in 1..(Len(q) - 1) BY <1>4, <3>2
      <4> QED BY <1>4, <4>1
    <3> QED BY <3>1, <3>2
  <2> QED BY <1>6, <2>1
<1>8. r[1].peer = Origin
  <2>1. CASE Len(q) = 1 BY <1>4, <1>6, <2>1
  <2>2. CASE Len(q) # 1
    <3>1. 1 \in 1..(Len(q) - 1) BY <1>4, <2>2
    <3> QED BY <1>4, <1>6, <3>1
  <2> QED BY <2>1, <2>2
<1>9. ASSUME NEW i \in 1..Len(q), NEW g, g = r[i] PROVE FrameInv(g)'
  <2>1. CASE i = Len(q) BY <1>4, <1>5, <1>9, <2>1
  <2>2. CASE i # Len(q)
    <3>1. i \in 1..(Len(q) - 1) BY <1>4, <2>2
    <3> QED BY <1>4, <1>5, <1>6, <1>9, <3>1
  <2> QED BY <2>1, <2>2
<1>10. Chain' BY <1>2, <1>4, <1>6, <1>7, <1>8, <1>9 DEF Chain
<1>11. Answer(reply)' BY DEF Answer, Replies, None, Empty
<1>12. Top' = f BY <1>2, <1>4 DEF Top
<1>13. CallInv' BY <1>2, <1>4, <1>12 DEF CallInv
<1> QED BY <1>10, <1>11, <1>13

\* The stack is cut to its n lowest frames, and the one that is then on top has an answer.
LEMMA Popped ==
  ASSUME Chain, CallInv, NEW n \in 0..(Len(stack) - 1), stack' = SubSeq(stack, 1, n),
         \A i \in 1..n : \A f : f = stack[i] => FrameInv(f)',
         UNCHANGED started, Answer(reply)', reply' # None,
         n = 0 => Final(reply)'
  PROVE  Chain' /\ CallInv'
<1>1. PICK q : q = stack OBVIOUS
<1>2. PICK r : r = stack' OBVIOUS
<1>0. q \in Seq(Frames) /\ r = SubSeq(q, 1, n) BY <1>1, <1>2 DEF Chain
<1>3. Len(q) \in Nat /\ n \in 0..Len(q) /\ n \in Nat /\ n < Len(q)
  <2>1. Len(q) \in Nat BY <1>0, LenProperties
  <2>2. n \in 0..(Len(q) - 1) BY <1>1
  <2> QED BY <2>1, <2>2
<1>4. /\ r \in Seq(Frames) /\ Len(r) = n /\ (r = <<>> <=> n = 0)
      /\ \A i \in 1..n : r[i] = q[i] /\ i \in 1..Len(q)
  <2>1. SubSeq(q, 1, n) \in Seq(Frames) /\ Len(SubSeq(q, 1, n)) = n
    BY <1>0, <1>3, StackCut
  <2>2. SubSeq(q, 1, n) = <<>> <=> n = 0 BY <1>0, <1>3, StackCut
  <2>3. \A i \in 1..n : SubSeq(q, 1, n)[i] = q[i] /\ i \in 1..Len(q)
    BY <1>0, <1>3, StackCut
  <2> QED BY <1>0, <2>1, <2>2, <2>3
<1>5. q # <<>> BY <1>0, <1>3, EmptySeq
<1>6. /\ Len(q) <= MaxDepth /\ q[1].peer = Origin /\ started
      /\ \A i \in 1..(Len(q) - 1) :
             q[i].pc = "wait" /\ q[i].asked = q[i + 1].peer /\ q[i].peer # q[i + 1].peer
  BY <1>1, <1>5 DEF Chain, CallInv
<1>7. ASSUME NEW i \in 1..(n - 1)
      PROVE  r[i].pc = "wait" /\ r[i].asked = r[i + 1].peer /\ r[i].peer # r[i + 1].peer
  <2>1. i \in 1..n /\ i + 1 \in 1..n /\ i \in 1..(Len(q) - 1) BY <1>3
  <2> QED BY <1>4, <1>6, <2>1
<1>8. r # <<>> => r[1].peer = Origin /\ r[n].pc = "wait"
  <2>1. SUFFICES ASSUME n # 0 PROVE r[1].peer = Origin /\ r[n].pc = "wait" BY <1>4
  <2>2. 1 \in 1..n /\ n \in 1..n /\ n \in 1..(Len(q) - 1) BY <1>3, <2>1
  <2> QED BY <1>4, <1>6, <2>2
<1>9. \A i \in 1..n : \A g : g = r[i] => FrameInv(g)' BY <1>1, <1>4
<1>10. n <= MaxDepth BY <1>3, <1>6
<1>11. Chain' BY <1>2, <1>4, <1>7, <1>8, <1>9, <1>10 DEF Chain
<1>12. CallInv' BY <1>2, <1>4, <1>6, <1>8 DEF CallInv, Top
<1> QED BY <1>11, <1>12

\* The function on top returns.
LEMMA Returned ==
  ASSUME Chain, CallInv, stack # <<>>, NEW r, Return(r), Answer(r), r # None,
         Final(r) \/ Len(stack) > 1,
         UNCHANGED <<up, dhtAddresses, agentRecords, started, since>>
  PROVE  Chain' /\ Answer(reply)' /\ CallInv'
<1>1. Len(stack) \in Nat \ {0} BY TopIsFrame
<1>2. PICK n : n = Len(stack) - 1 OBVIOUS
<1>3. n \in 0..(Len(stack) - 1) /\ stack' = SubSeq(stack, 1, n) /\ reply' = r
  BY <1>1, <1>2 DEF Return, Pop
<1>4. \A f : FrameInv(f) => FrameInv(f)' BY DEF FrameInv
<1>5. \A i \in 1..n : i \in 1..Len(stack) BY <1>1, <1>2
<1>6. \A i \in 1..n : \A f : f = stack[i] => FrameInv(f)' BY <1>4, <1>5 DEF Chain
<1>7. Answer(reply)' BY <1>3 DEF Answer
<1>8. ASSUME n = 0 PROVE Final(reply)'
  <2>1. ~ (Len(stack) > 1)
    <3>1. PICK l \in Nat : l = Len(stack) BY <1>1
    <3>2. n = l - 1 BY <1>2, <3>1
    <3>3. ~ (l > 1) BY <1>8, <3>2
    <3> QED BY <3>1, <3>3
  <2>2. Final(r) BY <2>1
  <2> QED BY <1>3, <2>2 DEF Final
<1> QED BY <1>3, <1>6, <1>7, <1>8, Popped

-----------------------------------------------------------------------------
(* The agent, the DHT and the peers.                                        *)

\* What Remember adds.
LEMMA Remembered ==
  ASSUME Maps', SinceInv, Remember, UNCHANGED started
  PROVE  SinceInv' /\ since \subseteq since'
<1>1. Kept' \subseteq Peers \cup {Client} BY DEF Maps, Kept, Honest
<1>2. since' \subseteq Peers \cup {Client} /\ since \subseteq since'
  BY <1>1 DEF SinceInv, Remember
<1>3. started => Kept' \subseteq since' BY DEF Remember
<1> QED BY <1>2, <1>3 DEF SinceInv

\* The agent registers: its record goes into agentRecords, ...
LEMMA RegisterStep ==
  ASSUME Inv, NEW p \in Peers, Register(p)
  PROVE  Inv'
<1>1. /\ UNCHANGED <<stack, reply, started, up, dhtAddresses, tcpAddresses, providers, crashes>>
      /\ Remember /\ moves' \in 0..MaxMoves /\ p \in Honest
  BY DEF Register, LookupUnchanged, Inv, Maps
<1>2. ASSUME Maps', started => \A q \in Peers : agentRecords'[q] \in since' \cup {agentRecords[q]}
      PROVE  Inv'
  <2>1. SinceInv' /\ since \subseteq since' BY <1>1, <1>2, Remembered DEF Inv
  <2> QED BY <1>1, <1>2, <2>1, Quiet DEF Inv
<1>3. CASE AddMailbox(p)
  <2>1. UNCHANGED <<agentRecords, registering>> /\ mailboxes' \subseteq Honest
    BY <1>1, <1>3 DEF AddMailbox, Inv, Maps
  <2>2. Maps' BY <1>1, <2>1 DEF Inv, Maps
  <2> QED BY <1>2, <2>1, <2>2
<1>4. ASSUME NEW kind \in {"relay", "delegate"}, AddRecord(p, kind) PROVE Inv'
  <2>1. PICK x : x = IF kind = "relay" THEN Client ELSE p OBVIOUS
  <2>2. /\ agentRecords' = [agentRecords EXCEPT ![p] = x]
        /\ registering' = registering \cup {<<p, kind>>} /\ UNCHANGED mailboxes
    BY <1>4, <2>1 DEF AddRecord
  <2>3. x \in Peers \cup {Client} /\ x # NoPeer /\ (x = p \/ kind = "relay") BY <2>1
  <2>4. /\ agentRecords' \in [Peers -> Peers \cup {Client, NoPeer}]
        /\ agentRecords'[p] = x /\ \A q \in Peers : q # p => agentRecords'[q] = agentRecords[q]
    BY <2>2, <2>3 DEF Inv, Maps
  <2>5. registering' \subseteq Honest \X {"relay", "delegate"} BY <1>1, <2>2 DEF Inv, Maps
  <2>6. \A q \in dhtAddresses \cup tcpAddresses : agentRecords'[q] # NoPeer
    BY <2>3, <2>4 DEF Inv, Maps, Honest
  <2>7. ASSUME NEW r \in registering' PROVE agentRecords'[r[1]] # NoPeer
    <3>1. r[1] \in Peers BY <2>5 DEF Honest
    <3>2. CASE r[1] = p BY <2>3, <2>4, <3>2
    <3>3. CASE r[1] # p
      <4>1. r \in registering BY <2>2, <3>3
      <4> QED BY <2>4, <3>1, <3>3, <4>1 DEF Inv, Maps
    <3> QED BY <3>2, <3>3
  <2>8. \A q \in Honest :
            q \in tcpAddresses \/ <<q, "delegate">> \in registering' =>
               agentRecords'[q] = q \/ q \in dhtAddresses \/ <<q, "relay">> \in registering'
    <3> TAKE q \in Honest
    <3>1. q \in Peers BY DEF Honest
    <3>2. CASE q = p BY <2>2, <2>3, <2>4, <3>2
    <3>3. CASE q # p
      <4>1. <<q, "delegate">> \in registering' => <<q, "delegate">> \in registering BY <2>2, <3>3
      <4> QED BY <2>2, <2>4, <3>1, <3>3, <4>1 DEF Inv, Maps
    <3> QED BY <3>2, <3>3
  <2>9. Maps' BY <1>1, <2>2, <2>4, <2>5, <2>6, <2>7, <2>8 DEF Inv, Maps
  <2>10. ASSUME started PROVE x \in since'
    <3>1. <<p, kind>> \in registering' /\ <<p, kind>>[1] = p BY <2>2
    <3>2. agentRecords'[<<p, kind>>[1]] \in Kept' BY <3>1 DEF Kept
    <3>3. x \in Kept' BY <2>4, <3>1, <3>2
    <3> QED BY <1>1, <2>10, <3>3 DEF Remember
  <2> QED BY <1>2, <2>4, <2>9, <2>10
<1> QED BY <1>3, <1>4 DEF Register

\* ... and its address into its map.
LEMMA AddressStep ==
  ASSUME Inv, NEW p \in Peers, AddAddress(p)
  PROVE  Inv'
<1>1. /\ UNCHANGED <<stack, reply, started, up, mailboxes, agentRecords, providers, moves, crashes>>
      /\ Remember
  BY DEF AddAddress, LookupUnchanged
<1>2. ASSUME Maps', dhtAddresses \subseteq dhtAddresses' PROVE Inv'
  <2>1. SinceInv' /\ since \subseteq since' BY <1>1, <1>2, Remembered DEF Inv
  <2> QED BY <1>1, <1>2, <2>1, Quiet DEF Inv
<1>3. CASE /\ <<p, "relay">> \in registering /\ dhtAddresses' = dhtAddresses \cup {p}
           /\ registering' = registering \ {<<p, "relay">>} /\ UNCHANGED tcpAddresses
  <2>1. p \in Honest /\ agentRecords[p] # NoPeer BY <1>3 DEF Inv, Maps
  <2>2. \A q \in Honest :
            q \in tcpAddresses \/ <<q, "delegate">> \in registering' =>
               agentRecords[q] = q \/ q \in dhtAddresses' \/ <<q, "relay">> \in registering'
    BY <1>3 DEF Inv, Maps
  <2>3. Maps' BY <1>1, <1>3, <2>1, <2>2 DEF Inv, Maps
  <2> QED BY <1>2, <1>3, <2>3
<1>4. CASE /\ <<p, "delegate">> \in registering /\ tcpAddresses' = tcpAddresses \cup {p}
           /\ registering' = registering \ {<<p, "delegate">>} /\ UNCHANGED dhtAddresses
  <2>1. p \in Honest /\ agentRecords[p] # NoPeer BY <1>4 DEF Inv, Maps
  <2>2. agentRecords[p] = p \/ p \in dhtAddresses \/ <<p, "relay">> \in registering
    BY <1>4, <2>1 DEF Inv, Maps
  <2>3. \A q \in Honest :
            q \in tcpAddresses' \/ <<q, "delegate">> \in registering' =>
               agentRecords[q] = q \/ q \in dhtAddresses \/ <<q, "relay">> \in registering'
    BY <1>4, <2>2 DEF Inv, Maps
  <2>4. Maps' BY <1>1, <1>4, <2>1, <2>3 DEF Inv, Maps
  <2> QED BY <1>2, <1>4, <2>4
<1> QED BY <1>3, <1>4 DEF AddAddress

\* The agent leaves.
LEMMA DepartStep ==
  ASSUME Inv, NEW p \in Peers, Depart(p)
  PROVE  Inv'
<1>1. UNCHANGED <<stack, reply, started, up, providers, crashes, dhtAddresses, agentRecords,
                  registering>>
      /\ Remember /\ moves' \in 0..MaxMoves
      /\ tcpAddresses' \subseteq tcpAddresses /\ mailboxes' \subseteq mailboxes
  BY DEF Depart, LookupUnchanged, Inv, Maps
<1>2. Maps' BY <1>1 DEF Inv, Maps
<1>3. SinceInv' /\ since \subseteq since' BY <1>1, <1>2, Remembered DEF Inv
<1> QED BY <1>1, <1>2, <1>3, Quiet DEF Inv

\* A peer announces the address.
LEMMA ProvideStep ==
  ASSUME Inv, NEW p \in Peers, Provide(p)
  PROVE  Inv'
<1>1. UNCHANGED <<stack, reply, started, up, mapVars, moves, crashes, since>>
      /\ providers' = providers \cup {p}
  BY DEF Provide, LookupUnchanged
<1>2. Maps' BY <1>1 DEF Inv, Maps, mapVars
<1>3. SinceInv' BY <1>1 DEF Inv, SinceInv, Kept, mapVars
<1> QED BY <1>1, <1>2, <1>3, Quiet DEF Inv, mapVars

\* A peer comes back, with its relay clients.
LEMMA RestartStep ==
  ASSUME Inv, NEW p \in Peers, Restart(p)
  PROVE  Inv'
<1>1. UNCHANGED <<stack, reply, started, mapVars, providers, moves, crashes>>
      /\ up' = up \cup {p} /\ Remember
  BY DEF Restart, LookupUnchanged
<1>2. Maps' BY <1>1 DEF Inv, Maps, mapVars
<1>3. SinceInv' /\ since \subseteq since' BY <1>1, <1>2, Remembered DEF Inv
<1> QED BY <1>1, <1>2, <1>3, Quiet DEF Inv, mapVars

\* The stack is cut under a peer that waits: it gets an error.
LEMMA CutStack ==
  ASSUME Chain, CallInv, NEW i \in 1..Len(stack), Cut(i), UNCHANGED started,
         \A j \in 1..(i - 1) : \A f : f = stack[j] => FrameInv(f)'
  PROVE  Chain' /\ Answer(reply)' /\ CallInv'
<1>1. Len(stack) \in Nat BY LenProperties DEF Chain
<1>2. PICK n : n = i - 1 OBVIOUS
<1>3. n \in 0..(Len(stack) - 1) BY <1>1, <1>2
<1>4. stack' = SubSeq(stack, 1, n) /\ reply' = Error BY <1>2 DEF Cut
<1>5. Answer(reply)' /\ reply' # None /\ Final(reply)'
  BY <1>4 DEF Answer, Final, Replies, Error, Empty, None, Nil
<1> QED BY <1>2, <1>3, <1>4, <1>5, Popped

\* The process of a peer ends.
LEMMA EndsStep ==
  ASSUME Inv, NEW p \in Peers, Ends(p), crashes' \in 0..MaxCrashes, started \/ p # Origin
  PROVE  Inv'
<1>1. /\ up' = up \ {p} /\ UNCHANGED <<providers, moves, started, since>>
      /\ tcpAddresses' = tcpAddresses \ {p} /\ mailboxes' = mailboxes \ {p}
      /\ dhtAddresses' \subseteq dhtAddresses /\ dhtAddresses \ {p} \subseteq dhtAddresses'
      /\ registering' = {r \in registering : r[1] # p}
  BY DEF Ends
<1>2. /\ agentRecords' \in [Peers -> Peers \cup {Client, NoPeer}]
      /\ \A q \in Peers : q # p => agentRecords'[q] = agentRecords[q]
      /\ p \in dhtAddresses' => agentRecords'[p] = Client
  BY DEF Ends, Inv, Maps
<1>3. \A q \in dhtAddresses' \cup tcpAddresses' : agentRecords'[q] # NoPeer
  BY <1>1, <1>2 DEF Inv, Maps, Honest
<1>4. \A r \in registering' :
          r \in registering /\ r[1] \in Peers /\ agentRecords'[r[1]] = agentRecords[r[1]]
  BY <1>1, <1>2 DEF Inv, Maps, Honest
<1>5. \A q \in Honest :
          q \in tcpAddresses' \/ <<q, "delegate">> \in registering' =>
             agentRecords'[q] = q \/ q \in dhtAddresses' \/ <<q, "relay">> \in registering'
  <2> SUFFICES ASSUME NEW q \in Honest, q \in tcpAddresses' \/ <<q, "delegate">> \in registering'
               PROVE  \/ agentRecords'[q] = q \/ q \in dhtAddresses'
                      \/ <<q, "relay">> \in registering'
    OBVIOUS
  <2>1. /\ q \in tcpAddresses \/ <<q, "delegate">> \in registering
        /\ q # p /\ q \in Peers
    BY <1>1 DEF Honest
  <2>2. agentRecords[q] = q \/ q \in dhtAddresses \/ <<q, "relay">> \in registering
    BY <2>1 DEF Inv, Maps
  <2> QED BY <1>1, <1>2, <2>1, <2>2
<1>6. Maps'
  <2>1. registering' \subseteq Honest \X {"relay", "delegate"} BY <1>4 DEF Inv, Maps
  <2>2. \A r \in registering' : agentRecords'[r[1]] # NoPeer BY <1>4 DEF Inv, Maps
  <2> QED BY <1>1, <1>2, <1>3, <1>5, <2>1, <2>2 DEF Inv, Maps
<1>7. SinceInv'
  <2>1. {agentRecords'[q] : q \in dhtAddresses' \cap up'}
           \subseteq {agentRecords[q] : q \in dhtAddresses \cap up}
    BY <1>1, <1>2 DEF Inv, Maps, Honest
  <2>2. {agentRecords'[r[1]] : r \in registering'}
           \subseteq {agentRecords[r[1]] : r \in registering}
    BY <1>4
  <2>3. Kept' \subseteq Kept BY <1>1, <2>1, <2>2 DEF Kept
  <2> QED BY <1>1, <2>3 DEF Inv, SinceInv
<1>8. ASSUME NEW f \in Frames, FrameInv(f), f.peer # p PROVE FrameInv(f)'
  <2>1. f.peer \in Peers BY <1>8 DEF Frames
  <2> QED BY <1>1, <1>2, <1>8, <2>1 DEF FrameInv
<1>9. \A i \in 1..Len(stack) : stack[i] \in Frames /\ FrameInv(stack[i])
  BY ElementOfSeq DEF Inv, Chain
<1>10. Len(stack) \in Nat BY LenProperties DEF Inv, Chain
<1>11. CASE FramesAt(p) = {} /\ UNCHANGED <<stack, reply>>
  <2>1. \A i \in 1..Len(stack) : stack[i].peer # p BY <1>11 DEF FramesAt
  <2>2. \A i \in 1..Len(stack) : \A f : f = stack[i] => FrameInv(f)' BY <1>8, <1>9, <2>1
  <2>3. Chain' BY <1>11, <2>2 DEF Inv, Chain
  <2>4. Answer(reply)' BY <1>1, <1>11 DEF Inv, Answer
  <2>5. CallInv' BY <1>1, <1>11 DEF Inv, CallInv, Top, Final
  <2> QED BY <1>6, <1>7, <2>3, <2>4, <2>5 DEF Inv
<1>12. CASE FramesAt(p) # {} /\ Cut(Lowest(FramesAt(p)))
  <2>1. PICK i : i = Lowest(FramesAt(p)) OBVIOUS
  <2>2. i \in FramesAt(p) /\ \A j \in FramesAt(p) : i <= j
    <3>1. FramesAt(p) \subseteq Nat BY <1>10 DEF FramesAt
    <3>2. PICK m \in FramesAt(p) : \A j \in FramesAt(p) : m <= j
      <4>1. PICK x : x = FramesAt(p) OBVIOUS
      <4>2. x \subseteq Nat /\ x # {} BY <1>12, <3>1, <4>1
      <4>3. \E m \in x : \A j \in x : m <= j BY <4>2, SmallestNat
      <4> QED BY <4>1, <4>3
    <3> QED BY <2>1, <3>2 DEF Lowest
  <2>3. i \in 1..Len(stack) /\ \A j \in 1..Len(stack) : stack[j].peer = p => i <= j
    BY <2>2 DEF FramesAt
  <2>4. \A j \in 1..(i - 1) : j \in 1..Len(stack) /\ ~ (i <= j) BY <1>10, <2>3
  <2>5. \A j \in 1..(i - 1) : \A f : f = stack[j] => FrameInv(f)' BY <1>8, <1>9, <2>3, <2>4
  <2>6. Chain' /\ Answer(reply)' /\ CallInv'
    BY <1>1, <1>12, <2>1, <2>3, <2>5, CutStack DEF Inv
  <2> QED BY <1>6, <1>7, <2>6 DEF Inv
<1> QED BY <1>11, <1>12 DEF Ends

\* A peer crashes.
LEMMA CrashStep ==
  ASSUME Inv, NEW p \in Peers, Crash(p)
  PROVE  Inv'
<1>1. crashes' \in 0..MaxCrashes /\ p # Origin /\ Ends(p) BY DEF Crash, Inv, Maps
<1> QED BY <1>1, EndsStep

-----------------------------------------------------------------------------
(* The lookup.                                                              *)

\* The maps do not change under a step of the lookup.
LEMMA MapsSame ==
  ASSUME Inv, UNCHANGED <<netVars, started, since>>
  PROVE  /\ Maps' /\ SinceInv' /\ UNCHANGED <<up, dhtAddresses, agentRecords>>
<1>1. UNCHANGED <<up, dhtAddresses, tcpAddresses, mailboxes, agentRecords, registering, providers,
                  moves, crashes>>
  BY DEF netVars, mapVars
<1>2. Maps' BY <1>1 DEF Inv, Maps
<1>3. SinceInv' BY <1>1 DEF Inv, SinceInv, Kept
<1> QED BY <1>1, <1>2, <1>3

\* What runs on top.
LEMMA RunningTop ==
  ASSUME Inv, NEW pc, Running(pc)
  PROVE  /\ Chain /\ CallInv /\ stack # <<>> /\ reply = None /\ started
         /\ Top \in Frames /\ FrameInv(Top) /\ Top.pc = pc
         /\ Kept \subseteq since /\ Top.peer \in up
<1>1. Chain /\ CallInv /\ stack # <<>> /\ reply = None /\ Top.pc = pc BY DEF Inv, Running
<1>2. started BY <1>1 DEF CallInv, Inv, Maps
<1> QED BY <1>1, <1>2, TopIsFrame DEF Inv, SinceInv, FrameInv

\* A new frame.
LEMMA NewFrame ==
  ASSUME NEW p \in Peers, NEW pc \in FrameStates
  PROVE  /\ Frame(p, pc) \in Frames /\ Frame(p, pc).peer = p /\ Frame(p, pc).pc = pc
         /\ p \in up /\ (pc = "foreign" => p \in Foreign) => FrameInv(Frame(p, pc))
BY DEF Frame, Frames, FrameInv

\* A record that verifies, of somebody the agent was registered with.
LEMMA GoodAnswer ==
  ASSUME NEW p \in since, SinceInv
  PROVE  /\ Answer(Found(Record(p))) /\ Found(Record(p)) # None
         /\ Final(Found(Record(p)))
<1>1. PICK r : r = Record(p) OBVIOUS
<1>2. r \in Records /\ r.proof = "own" /\ r.peer = p BY <1>1 DEF Record, Records, SinceInv
<1>3. PICK a : a = Found(r) OBVIOUS
<1>4. a \in Replies /\ a.kind = "record" /\ a.record = r BY <1>2, <1>3 DEF Found, Replies
<1>5. a # None /\ a # Empty /\ a # Nil BY <1>4 DEF None, Empty, Nil
<1> QED BY <1>1, <1>2, <1>3, <1>4, <1>5 DEF Answer, Final

\* An error is an answer.
LEMMA BadAnswer == Answer(Error) /\ Error # None /\ Final(Error)
BY DEF Answer, Final, Replies, Error, None, Empty, Nil

\* A lookup starts.
LEMMA StartStep ==
  ASSUME Inv, Start
  PROVE  Inv'
<1>1. PICK pc \in {"find", "relays"} : stack' = <<Frame(Origin, pc)>> BY DEF Start
<1>2. /\ UNCHANGED <<netVars, reply>> /\ started' = TRUE /\ since' = Kept /\ reply = None
      /\ ~ started /\ Origin \in up
  BY DEF Start, Inv, CallInv
<1>3. UNCHANGED <<up, dhtAddresses, tcpAddresses, mailboxes, agentRecords, registering, providers,
                  moves, crashes>>
  BY <1>2 DEF netVars, mapVars
<1>4. Maps' BY <1>2, <1>3 DEF Inv, Maps
<1>5. SinceInv'
  <2>1. Kept' = Kept BY <1>3 DEF Kept
  <2>2. Kept \subseteq Peers \cup {Client} BY DEF Inv, Maps, Kept, Honest
  <2> QED BY <1>2, <2>1, <2>2 DEF SinceInv
<1>6. PICK f : f = Frame(Origin, pc) OBVIOUS
<1>7. /\ f \in Frames /\ f.peer = Origin /\ f.pc = pc /\ ~ f.relay /\ ~ f.delegate
      /\ f.record = NoPeer /\ ~ f.seen
  BY <1>6, NewFrame DEF FrameStates, Frame
<1>8. stack' \in Seq(Frames) /\ Len(stack') = 1 /\ stack'[1] = f /\ stack' # <<>>
  BY <1>1, <1>6, <1>7
<1>9. FrameInv(f)' BY <1>2, <1>3, <1>7 DEF FrameInv
<1>10. Chain' BY <1>7, <1>8, <1>9 DEF Chain
<1>11. Answer(reply)' BY <1>2 DEF Answer, Replies, None, Empty
<1>12. CallInv' BY <1>2, <1>7, <1>8 DEF CallInv, Top
<1> QED BY <1>4, <1>5, <1>10, <1>11, <1>12 DEF Inv

\* The handler of a request reads the maps one after the other.
LEMMA HandlerStep ==
  ASSUME Inv, ReadRelays \/ ReadDelegates \/ ReadRecord \/ CheckMailbox \/ GetMailboxRecord
  PROVE  Inv'
<1>1. UNCHANGED <<netVars, started, since>>
  BY DEF ReadRelays, ReadDelegates, ReadRecord, CheckMailbox, GetMailboxRecord
<1>2. Maps' /\ SinceInv' /\ UNCHANGED <<up, dhtAddresses, agentRecords>> BY <1>1, MapsSame
<1>3. ASSUME NEW p \in since, stack # <<>>, Return(Found(Record(p))) PROVE Inv'
  <2>1. /\ Answer(Found(Record(p))) /\ Found(Record(p)) # None
        /\ Final(Found(Record(p)))
    BY GoodAnswer DEF Inv
  <2> QED BY <1>1, <1>2, <1>3, <2>1, Returned DEF Inv
<1>4. PICK f : f = Top OBVIOUS
<1>5. ASSUME NEW pc, Running(pc)
      PROVE  /\ f \in Frames /\ FrameInv(f) /\ f.pc = pc /\ stack # <<>> /\ reply = None
             /\ Kept \subseteq since /\ f.peer \in up /\ f.peer \in Peers
  BY <1>4, <1>5, RunningTop DEF Inv, Maps
<1>6. ASSUME NEW g \in Frames, SetTop(g), FrameInv(g), g.peer = f.peer, g.pc # "wait",
             stack # <<>>, reply' = None
      PROVE  Inv'
  BY <1>1, <1>2, <1>4, <1>6, Stepped DEF Inv
<1>7. CASE ReadRelays
  <2>1. PICK g : g = [f EXCEPT !.relay = f.peer \in dhtAddresses, !.pc = "delegates"] OBVIOUS
  <2>2. Running("relays") /\ SetTop(g) /\ UNCHANGED reply BY <1>4, <1>7, <2>1 DEF ReadRelays
  <2>3. g \in Frames /\ g.peer = f.peer /\ g.pc = "delegates" /\ g.record = f.record
        /\ g.delegate = f.delegate /\ (g.relay => f.peer \in dhtAddresses)
    <3>1. PICK b \in BOOLEAN : b <=> f.peer \in dhtAddresses OBVIOUS
    <3>2. b = (f.peer \in dhtAddresses) BY <3>1
    <3>3. g = [f EXCEPT !.relay = b, !.pc = "delegates"] BY <2>1, <3>2
    <3>4. g \in Frames /\ g.peer = f.peer /\ g.pc = "delegates" /\ g.record = f.record
          /\ g.delegate = f.delegate /\ g.relay = b
      BY <1>5, <2>2, <3>3 DEF Frames, FrameStates
    <3> QED BY <3>1, <3>4
  <2>4. FrameInv(g) BY <1>5, <2>2, <2>3 DEF FrameInv
  <2> QED BY <1>5, <1>6, <2>2, <2>3, <2>4
<1>8. CASE ReadDelegates
  <2>1. Running("delegates") BY <1>8 DEF ReadDelegates
  <2>2. PICK b \in BOOLEAN : b <=> f.peer \in tcpAddresses OBVIOUS
  <2>3. b = (f.peer \in tcpAddresses) BY <2>2
  <2>4. PICK g : g = [f EXCEPT !.delegate = b, !.pc = "record"] OBVIOUS
  <2>5. SetTop(g) /\ UNCHANGED reply BY <1>4, <1>8, <2>3, <2>4 DEF ReadDelegates, IsDelegate
  <2>6. g \in Frames /\ g.peer = f.peer /\ g.pc = "record" /\ g.record = f.record
        /\ g.relay = f.relay /\ g.delegate = b
    BY <1>5, <2>1, <2>4 DEF Frames, FrameStates
  <2>7. ASSUME b PROVE agentRecords[f.peer] \in since
    <3>1. /\ f.peer \in tcpAddresses
          /\ agentRecords[f.peer] = f.peer \/ f.peer \in dhtAddresses
             \/ <<f.peer, "relay">> \in registering
      BY <2>2, <2>7 DEF Inv, Maps
    <3>2. CASE agentRecords[f.peer] = f.peer BY <1>5, <2>1, <3>1, <3>2 DEF Kept
    <3>3. CASE f.peer \in dhtAddresses BY <1>5, <2>1, <3>3 DEF Kept
    <3>4. CASE <<f.peer, "relay">> \in registering
      <4>1. agentRecords[<<f.peer, "relay">>[1]] \in Kept BY <3>4 DEF Kept
      <4> QED BY <1>5, <2>1, <4>1
    <3> QED BY <3>1, <3>2, <3>3, <3>4
  <2>8. FrameInv(g) BY <1>5, <2>1, <2>6, <2>7 DEF FrameInv
  <2> QED BY <1>5, <1>6, <2>1, <2>5, <2>6, <2>8
<1>11. CASE ReadRecord
  <2>1. Running("record") BY <1>11 DEF ReadRecord
  <2>2. CASE Top.relay /\ Return(Found(Record(agentRecords[Top.peer])))
    <3>1. agentRecords[f.peer] \in since BY <1>4, <1>5, <2>1, <2>2 DEF FrameInv, Kept
    <3> QED BY <1>3, <1>4, <1>5, <2>1, <2>2, <3>1
  <2>3. CASE ~ Top.relay
    <3>1. PICK x : x = IF f.delegate THEN agentRecords[f.peer] ELSE NoPeer OBVIOUS
    <3>2. PICK g : g = [f EXCEPT !.record = x, !.pc = "mailbox"] OBVIOUS
    <3>3. SetTop(g) /\ UNCHANGED reply /\ ~ f.relay
      BY <1>4, <1>11, <2>3, <3>1, <3>2 DEF ReadRecord
    <3>4. x \in Peers \cup {Client, NoPeer} /\ (x # NoPeer => x \in since)
      BY <1>5, <2>1, <3>1 DEF FrameInv, Inv, Maps
    <3>5. g \in Frames /\ g.peer = f.peer /\ g.pc = "mailbox" /\ g.record = x /\ ~ g.relay
          /\ g.delegate = f.delegate
      BY <1>5, <2>1, <3>2, <3>3, <3>4 DEF Frames, FrameStates
    <3>6. FrameInv(g) BY <1>5, <2>1, <3>4, <3>5 DEF FrameInv
    <3> QED BY <1>5, <1>6, <2>1, <3>3, <3>5, <3>6
  <2> QED BY <1>11, <2>2, <2>3 DEF ReadRecord
<1>9. CASE CheckMailbox
  <2>1. Running("mailbox") BY <1>9 DEF CheckMailbox
  <2>2. CASE Top.peer \in mailboxes
    <3>1. PICK g : g = [f EXCEPT !.pc = "mailboxRecord"] OBVIOUS
    <3>2. SetTop(g) /\ UNCHANGED reply BY <1>4, <1>9, <2>2, <3>1 DEF CheckMailbox
    <3>3. g \in Frames /\ g.peer = f.peer /\ g.pc = "mailboxRecord" /\ g.record = f.record
          /\ g.relay = f.relay /\ g.delegate = f.delegate
      BY <1>5, <2>1, <3>1 DEF Frames, FrameStates
    <3>4. FrameInv(g) BY <1>5, <2>1, <3>3 DEF FrameInv
    <3> QED BY <1>5, <1>6, <2>1, <3>2, <3>3, <3>4
  <2>3. CASE Top.peer \notin mailboxes /\ Top.record # NoPeer
    <3>1. Top.record \in since BY <1>4, <1>5, <2>1, <2>3 DEF FrameInv
    <3> QED BY <1>3, <1>5, <1>9, <2>1, <2>3, <3>1 DEF CheckMailbox
  <2>4. CASE Top.peer \notin mailboxes /\ Top.record = NoPeer
    <3>1. PICK g : g = Frame(f.peer, "find") OBVIOUS
    <3>2. SetTop(g) /\ UNCHANGED reply BY <1>4, <1>9, <2>4, <3>1 DEF CheckMailbox
    <3>3. g \in Frames /\ g.peer = f.peer /\ g.pc = "find" /\ FrameInv(g)
      BY <1>5, <2>1, <3>1, NewFrame DEF FrameStates
    <3> QED BY <1>5, <1>6, <2>1, <3>2, <3>3
  <2> QED BY <2>2, <2>3, <2>4
<1>10. CASE GetMailboxRecord
  <2>1. Running("mailboxRecord") BY <1>10 DEF GetMailboxRecord
  <2>2. CASE Top.peer \in mailboxes
    <3>1. f.peer \in since BY <1>4, <1>5, <2>1, <2>2 DEF Kept
    <3> QED BY <1>3, <1>4, <1>5, <1>10, <2>1, <2>2, <3>1 DEF GetMailboxRecord
  <2>3. CASE Top.peer \notin mailboxes
    <3>1. Return(Error) BY <1>10, <2>3 DEF GetMailboxRecord
    <3> QED BY <1>1, <1>2, <1>5, <2>1, <3>1, BadAnswer, Returned DEF Inv
  <2> QED BY <2>2, <2>3
<1> QED BY <1>7, <1>8, <1>9, <1>10, <1>11

\* A provider is asked: a frame on top of one that waits for it.
LEMMA Pushed ==
  ASSUME Chain, CallInv, stack # <<>>, reply = None, NEW f \in Frames, NEW g \in Frames,
         stack' = Append([stack EXCEPT ![Len(stack)] = f], g), Len(stack) < MaxDepth,
         FrameInv(f), FrameInv(g), f.pc = "wait", g.pc # "wait", f.peer = Top.peer,
         f.asked = g.peer, f.peer # g.peer,
         UNCHANGED <<up, dhtAddresses, agentRecords, started, since, reply>>
  PROVE  Chain' /\ Answer(reply)' /\ CallInv'
<1>1. PICK q : q = stack OBVIOUS
<1>2. PICK m : m = [q EXCEPT ![Len(q)] = f] OBVIOUS
<1>3. PICK r : r = stack' OBVIOUS
<1>4. q \in Seq(Frames) /\ q # <<>> /\ r = Append(m, g) BY <1>1, <1>2, <1>3 DEF Chain
<1>5. /\ m \in Seq(Frames) /\ Len(m) = Len(q) /\ Len(q) \in Nat \ {0}
      /\ m[Len(q)] = f /\ \A i \in 1..(Len(q) - 1) : m[i] = q[i]
  BY <1>2, <1>4, TopReplaced
<1>6. /\ r \in Seq(Frames) /\ Len(r) = Len(q) + 1 /\ r[Len(q) + 1] = g
      /\ \A i \in 1..Len(q) : r[i] = m[i]
  BY <1>4, <1>5, AppendProperties
<1>7. \A h : FrameInv(h) => FrameInv(h)' BY DEF FrameInv
<1>8. /\ Len(q) < MaxDepth /\ q[1].peer = Origin /\ q[Len(q)].peer = f.peer
      /\ \A i \in 1..(Len(q) - 1) :
             q[i].pc = "wait" /\ q[i].asked = q[i + 1].peer /\ q[i].peer # q[i + 1].peer
      /\ \A i \in 1..Len(q) : FrameInv(q[i])
  BY <1>1 DEF Chain, Top
<1>9. r[Len(q)] = f /\ \A i \in 1..(Len(q) - 1) : r[i] = q[i]
  <2>1. Len(q) \in 1..Len(q) /\ \A i \in 1..(Len(q) - 1) : i \in 1..Len(q) BY <1>5
  <2> QED BY <1>5, <1>6, <2>1
<1>10. ASSUME NEW i \in 1..Len(q)
       PROVE  r[i].pc = "wait" /\ r[i].asked = r[i + 1].peer /\ r[i].peer # r[i + 1].peer
  <2>1. CASE i = Len(q) BY <1>6, <1>9, <2>1
  <2>2. CASE i # Len(q)
    <3>1. i \in 1..(Len(q) - 1) BY <1>5, <2>2
    <3>2. r[i] = q[i] BY <1>9, <3>1
    <3>3. r[i + 1].peer = q[i + 1].peer
      <4>1. CASE i + 1 = Len(q) BY <1>8, <1>9, <4>1
      <4>2. CASE i + 1 # Len(q)
        <5>1. i + 1 \in 1..(Len(q) - 1) BY <1>5, <3>1, <4>2
        <5> QED BY <1>9, <5>1
      <4> QED BY <4>1, <4>2
    <3> QED BY <1>8, <3>1, <3>2, <3>3
  <2> QED BY <2>1, <2>2
<1>11. r[1].peer = Origin
  <2>1. CASE Len(q) = 1 BY <1>8, <1>9, <2>1
  <2>2. CASE Len(q) # 1
    <3>1. 1 \in 1..(Len(q) - 1) BY <1>5, <2>2
    <3> QED BY <1>8, <1>9, <3>1
  <2> QED BY <2>1, <2>2
<1>12. ASSUME NEW i \in 1..(Len(q) + 1), NEW h, h = r[i] PROVE FrameInv(h)'
  <2>1. CASE i = Len(q) + 1 BY <1>6, <1>7, <1>12, <2>1
  <2>2. CASE i = Len(q) BY <1>7, <1>9, <1>12, <2>2
  <2>3. CASE i # Len(q) /\ i # Len(q) + 1
    <3>1. i \in 1..(Len(q) - 1) /\ i \in 1..Len(q) BY <1>5, <2>3
    <3> QED BY <1>7, <1>8, <1>9, <1>12, <3>1
  <2> QED BY <2>1, <2>2, <2>3
<1>13. Len(q) + 1 <= MaxDepth /\ (Len(q) + 1) - 1 = Len(q) BY <1>5, <1>8
<1>14. Chain' BY <1>3, <1>6, <1>10, <1>11, <1>12, <1>13 DEF Chain
<1>15. Answer(reply)' BY DEF Answer, Replies, None, Empty
<1>16. r # <<>> BY <1>5, <1>6, EmptySeq
<1>17. started BY DEF CallInv
<1>18. Top' = g BY <1>3, <1>6 DEF Top
<1>19. CallInv' BY <1>3, <1>16, <1>17, <1>18 DEF CallInv
<1> QED BY <1>14, <1>15, <1>19

\* lookupAddressDHT takes the providers one after the other.
LEMMA ProvidersStep ==
  ASSUME Inv, (\E q \in Peers : NextProvider(q)) \/ ContextDone \/ ProvidersEnd
  PROVE  Inv'
<1>1. UNCHANGED <<netVars, started, since>> /\ Running("find")
  BY DEF NextProvider, ContextDone, ProvidersEnd
<1>2. Maps' /\ SinceInv' /\ UNCHANGED <<up, dhtAddresses, agentRecords>> BY <1>1, MapsSame
<1>3. PICK f : f = Top OBVIOUS
<1>4. f \in Frames /\ FrameInv(f) /\ f.pc = "find" /\ stack # <<>> /\ reply = None
  BY <1>1, <1>3, RunningTop
<1>5. ASSUME NEW g \in Frames, SetTop(g), FrameInv(g), g.peer = f.peer, g.pc # "wait",
             reply' = None
      PROVE  Inv'
  BY <1>1, <1>2, <1>3, <1>4, <1>5, Stepped DEF Inv
<1>6. ASSUME NEW q \in Peers, NextProvider(q) PROVE Inv'
  <2>1. PICK g : g = [f EXCEPT !.given = f.given \cup {q}, !.asked = q, !.seen = TRUE, !.pc = "ask"]
    OBVIOUS
  <2>2. SetTop(g) /\ UNCHANGED reply BY <1>3, <1>6, <2>1 DEF NextProvider
  <2>3. g \in Frames /\ g.peer = f.peer /\ g.pc = "ask" /\ g.record = f.record
        /\ g.relay = f.relay /\ g.delegate = f.delegate
    BY <1>4, <2>1 DEF Frames, FrameStates
  <2>4. FrameInv(g) BY <1>4, <2>3 DEF FrameInv
  <2> QED BY <1>4, <1>5, <2>2, <2>3, <2>4
<1>7. CASE ContextDone
  <2>1. PICK g : g = [f EXCEPT !.done = TRUE] OBVIOUS
  <2>2. SetTop(g) /\ UNCHANGED reply BY <1>3, <1>7, <2>1 DEF ContextDone
  <2>3. g \in Frames /\ g.peer = f.peer /\ g.pc = "find" /\ g.record = f.record
        /\ g.relay = f.relay /\ g.delegate = f.delegate /\ g.seen = f.seen
        /\ g.err = f.err
    BY <1>4, <2>1 DEF Frames
  <2>4. FrameInv(g) BY <1>4, <2>3 DEF FrameInv
  <2> QED BY <1>4, <1>5, <2>2, <2>3, <2>4
<1>8. CASE ProvidersEnd
  <2>1. f.seen => f.err BY <1>4 DEF FrameInv
  <2>2. Return(Error) BY <1>3, <1>8, <2>1 DEF ProvidersEnd
  <2> QED BY <1>1, <1>2, <1>4, <2>2, BadAnswer, Returned DEF Inv
<1> QED BY <1>6, <1>7, <1>8

\* A provider is asked, or cannot be.
LEMMA StreamStep ==
  ASSUME Inv, OpenStream
  PROVE  Inv'
<1>1. UNCHANGED <<netVars, reply, started, since>> /\ Running("ask") BY DEF OpenStream
<1>2. Maps' /\ SinceInv' /\ UNCHANGED <<up, dhtAddresses, agentRecords>> BY <1>1, MapsSame
<1>3. PICK f : f = Top OBVIOUS
<1>4. f \in Frames /\ FrameInv(f) /\ f.pc = "ask" /\ stack # <<>> /\ reply = None
  BY <1>1, <1>3, RunningTop
<1>5. ASSUME NEW g \in Frames, SetTop(g), FrameInv(g), g.peer = f.peer, g.pc # "wait"
      PROVE  Inv'
  BY <1>1, <1>2, <1>3, <1>4, <1>5, Stepped DEF Inv
<1>6. CASE SetTop([Top EXCEPT !.pc = "beyond"])
  <2>1. PICK g : g = [f EXCEPT !.pc = "beyond"] OBVIOUS
  <2>2. g \in Frames /\ g.peer = f.peer /\ g.pc = "beyond" /\ g.record = f.record
        /\ g.relay = f.relay /\ g.delegate = f.delegate
    BY <1>4, <2>1 DEF Frames, FrameStates
  <2>3. FrameInv(g) BY <1>4, <2>2 DEF FrameInv
  <2> QED BY <1>3, <1>5, <1>6, <2>1, <2>2, <2>3
<1>7. CASE SetTop(ProviderFailed(Top))
  <2>1. PICK g : g = [f EXCEPT !.pc = "find", !.asked = NoPeer, !.err = TRUE] OBVIOUS
  <2>2. g \in Frames /\ g.peer = f.peer /\ g.pc = "find" /\ g.record = f.record
        /\ g.relay = f.relay /\ g.delegate = f.delegate /\ g.err
    BY <1>4, <2>1 DEF Frames, FrameStates
  <2>3. FrameInv(g) BY <1>4, <2>2 DEF FrameInv
  <2> QED BY <1>3, <1>5, <1>7, <2>1, <2>2, <2>3 DEF ProviderFailed
<1>8. CASE /\ CanDial /\ Len(stack) < MaxDepth
           /\ stack' = Append([stack EXCEPT ![Len(stack)].pc = "wait"],
                              Frame(Top.asked, IF Top.asked \in Foreign THEN "foreign"
                                                                        ELSE "relays"))
  <2>1. PICK g : g = [f EXCEPT !.pc = "wait"] OBVIOUS
  <2>2. g \in Frames /\ g.peer = f.peer /\ g.pc = "wait" /\ g.record = f.record
        /\ g.relay = f.relay /\ g.delegate = f.delegate /\ g.asked = f.asked
    BY <1>4, <2>1 DEF Frames, FrameStates
  <2>3. FrameInv(g) BY <1>4, <2>2 DEF FrameInv
  <2>4. PICK pc : pc = IF f.asked \in Foreign THEN "foreign" ELSE "relays" OBVIOUS
  <2>5. PICK h : h = Frame(f.asked, pc) OBVIOUS
  <2>6. f.asked \in up /\ f.asked \in Peers /\ f.asked # f.peer
    BY <1>3, <1>8 DEF CanDial, Inv, Maps
  <2>7. pc \in FrameStates /\ pc # "wait" /\ (pc = "foreign" => f.asked \in Foreign)
    BY <2>4 DEF FrameStates
  <2>8. h \in Frames /\ h.peer = f.asked /\ h.pc = pc /\ FrameInv(h)
    BY <2>5, <2>6, <2>7, NewFrame
  <2>9. [stack EXCEPT ![Len(stack)].pc = "wait"] = [stack EXCEPT ![Len(stack)] = g]
    BY <1>3, <2>1 DEF Top
  <2>10. stack' = Append([stack EXCEPT ![Len(stack)] = g], h)
    BY <1>3, <1>8, <2>4, <2>5, <2>9
  <2>11. g.pc = "wait" /\ h.pc # "wait" /\ g.peer = Top.peer /\ g.asked = h.peer /\ g.peer # h.peer
    BY <1>3, <2>2, <2>6, <2>7, <2>8
  <2>12. Chain /\ CallInv BY DEF Inv
  <2>13. Chain' /\ Answer(reply)' /\ CallInv'
    BY <1>1, <1>2, <1>4, <1>8, <2>2, <2>3, <2>8, <2>10, <2>11, <2>12, Pushed
  <2> QED BY <1>2, <2>13 DEF Inv
<1> QED BY <1>6, <1>7, <1>8 DEF OpenStream

\* An answer that does not verify, or has no record, never reaches the origin's caller:
\* the frame that gives it is not the origin's.
LEMMA ForeignStep ==
  ASSUME Inv, ForeignAnswers
  PROVE  Inv'
<1>1. UNCHANGED <<netVars, started, since>> /\ Running("foreign") BY DEF ForeignAnswers
<1>2. Maps' /\ SinceInv' /\ UNCHANGED <<up, dhtAddresses, agentRecords>> BY <1>1, MapsSame
<1>3. FrameInv(Top) /\ Top.pc = "foreign" /\ stack # <<>> BY <1>1, RunningTop
<1>4. Len(stack) > 1
  <2>1. Len(stack) \in Nat \ {0} BY <1>3, TopIsFrame DEF Inv
  <2>2. Top.peer # Origin BY <1>3 DEF FrameInv
  <2>3. Len(stack) # 1 BY <1>3, <2>2 DEF Inv, Chain, Top
  <2>4. \A n \in Nat \ {0} : n # 1 => n > 1 OBVIOUS
  <2> QED BY <2>1, <2>3, <2>4
<1>5. CASE Return(Error) BY <1>1, <1>2, <1>3, <1>5, BadAnswer, Returned DEF Inv
<1>6. ASSUME NEW proof \in {"old", "none"}, Return(Found([peer |-> Client, proof |-> proof]))
      PROVE  Inv'
  <2>1. PICK r : r = [peer |-> Client, proof |-> proof] OBVIOUS
  <2>2. r \in Records /\ r.proof # "own" BY <2>1 DEF Records
  <2>3. PICK a : a = Found(r) OBVIOUS
  <2>4. a \in Replies /\ a.kind = "record" /\ a.record = r BY <2>2, <2>3 DEF Found, Replies
  <2>5. a # None /\ a # Empty BY <2>4 DEF None, Empty
  <2>6. Answer(a) BY <2>2, <2>4, <2>5 DEF Answer
  <2>7. Return(a) BY <1>6, <2>1, <2>3
  <2>8. Chain /\ CallInv BY DEF Inv
  <2>9. Chain' /\ Answer(reply)' /\ CallInv'
    BY <1>1, <1>2, <1>3, <1>4, <2>5, <2>6, <2>7, <2>8, Returned
  <2> QED BY <1>2, <2>9 DEF Inv
<1>7. CASE Return(Nil)
  <2>1. PICK a : a = Nil OBVIOUS
  <2>2. Answer(a) /\ a # None BY <2>1 DEF Answer, Replies, None, Empty, Nil
  <2>3. Return(a) BY <1>7, <2>1
  <2>4. Chain /\ CallInv BY DEF Inv
  <2>5. Chain' /\ Answer(reply)' /\ CallInv'
    BY <1>1, <1>2, <1>3, <1>4, <2>2, <2>3, <2>4, Returned
  <2> QED BY <1>2, <2>5 DEF Inv
<1> QED BY <1>5, <1>6, <1>7 DEF ForeignAnswers

\* An answer is passed on when it verifies; otherwise the next provider is asked.
LEMMA AnswerStep ==
  ASSUME Inv, ReceiveAnswer
  PROVE  Inv'
<1>1. UNCHANGED <<netVars, started, since>> /\ stack # <<>> /\ reply # None /\ reply # Nil
  BY DEF ReceiveAnswer
<1>2. Maps' /\ SinceInv' /\ UNCHANGED <<up, dhtAddresses, agentRecords>> BY <1>1, MapsSame
<1>3. CASE reply.kind = "record" /\ reply.record.proof # "none"
  <2>1. PICK r : r = reply OBVIOUS
  <2>2. Return(r) /\ Answer(r) /\ r # None /\ Final(r)
    BY <1>1, <1>3, <2>1 DEF ReceiveAnswer, IsValidProofOfRepresentation, Return, Inv, Final
  <2>3. Chain /\ CallInv BY DEF Inv
  <2>4. Chain' /\ Answer(reply)' /\ CallInv' BY <1>1, <1>2, <2>2, <2>3, Returned
  <2> QED BY <1>2, <2>4 DEF Inv
<1>4. CASE ~ (reply.kind = "record" /\ reply.record.proof # "none")
  <2>1. PICK f : f = Top OBVIOUS
  <2>2. f \in Frames /\ FrameInv(f) BY <1>1, <2>1, TopIsFrame DEF Inv
  <2>3. PICK g : g = [f EXCEPT !.pc = "find", !.asked = NoPeer, !.err = TRUE] OBVIOUS
  <2>4. g \in Frames /\ g.peer = f.peer /\ g.pc = "find" /\ g.record = f.record
        /\ g.relay = f.relay /\ g.delegate = f.delegate /\ g.err
    BY <2>2, <2>3 DEF Frames, FrameStates
  <2>5. FrameInv(g) BY <2>2, <2>4 DEF FrameInv
  <2>6. SetTop(g) /\ reply' = None
    BY <1>4, <2>1, <2>3 DEF ReceiveAnswer, IsValidProofOfRepresentation, ProviderFailed
  <2>7. Chain /\ CallInv /\ g.pc # "wait" /\ g.peer = Top.peer BY <2>1, <2>4 DEF Inv
  <2>8. Chain' /\ Answer(reply)' /\ CallInv'
    BY <1>1, <1>2, <2>4, <2>5, <2>6, <2>7, Stepped
  <2> QED BY <1>2, <2>8 DEF Inv
<1> QED BY <1>3, <1>4

\* A response without a record ends the peer that has asked.
LEMMA PanicStep ==
  ASSUME Inv, Panic
  PROVE  Inv'
<1>1. stack # <<>> /\ Ends(Top.peer) /\ UNCHANGED crashes BY DEF Panic
<1>2. Top.peer \in Peers BY <1>1, TopIsFrame DEF Inv, Frames
<1>3. started BY <1>1 DEF Inv, CallInv
<1>4. crashes' \in 0..MaxCrashes BY <1>1 DEF Inv, Maps
<1> QED BY <1>1, <1>2, <1>3, <1>4, EndsStep

\* A stream breaks.
LEMMA LostStep ==
  ASSUME Inv, StreamLost
  PROVE  Inv'
<1>1. UNCHANGED <<netVars, started, since>> BY DEF StreamLost
<1>2. Maps' /\ SinceInv' /\ UNCHANGED <<up, dhtAddresses, agentRecords>> BY <1>1, MapsSame
<1>4. Len(stack) \in Nat BY LenProperties DEF Inv, Chain
<1>3. PICK i \in 1..Len(stack) : Cut(i) BY <1>4 DEF StreamLost
<1>5. \A f : FrameInv(f) => FrameInv(f)' BY <1>1, <1>2 DEF FrameInv
<1>6. \A j \in 1..(i - 1) : j \in 1..Len(stack) BY <1>3, <1>4
<1>7. \A j \in 1..(i - 1) : \A f : f = stack[j] => FrameInv(f)' BY <1>5, <1>6 DEF Inv, Chain
<1> QED BY <1>1, <1>2, <1>3, <1>7, CutStack DEF Inv

-----------------------------------------------------------------------------
(* The theorems.                                                            *)

\* The invariant holds at the start, ...
LEMMA InvInit == Init => Inv
<1> SUFFICES ASSUME Init PROVE Inv OBVIOUS
<1>1. Maps
  <2>1. 0 \in 0..MaxMoves /\ 0 \in 0..MaxCrashes OBVIOUS
  <2>2. agentRecords \in [Peers -> Peers \cup {Client, NoPeer}] BY DEF Init
  <2>3. up \subseteq Peers /\ registering = {} /\ providers \subseteq Peers /\ started \in BOOLEAN
    BY DEF Init
  <2> QED BY <2>1, <2>2, <2>3 DEF Init, Maps
<1>2. SinceInv BY DEF Init, SinceInv
<1>3. Len(stack) = 0 /\ stack \in Seq(Frames) BY EmptySeq DEF Init
<1>4. Chain BY <1>3 DEF Init, Chain
<1>5. Answer(reply) BY DEF Init, Answer, Replies, None, Empty
<1>6. CallInv BY DEF Init, CallInv
<1> QED BY <1>1, <1>2, <1>4, <1>5, <1>6 DEF Inv

\* ... and every step keeps it.
LEMMA InvNext == Inv /\ [Next]_vars => Inv'
<1> SUFFICES ASSUME Inv, [Next]_vars PROVE Inv' OBVIOUS
<1>1. CASE Network
  BY <1>1, RegisterStep, AddressStep, DepartStep, ProvideStep, CrashStep, RestartStep DEF Network
<1>2. CASE LookupStep
  BY <1>2, HandlerStep, ProvidersStep, StreamStep, AnswerStep, PanicStep DEF LookupStep
<1>3. CASE UNCHANGED vars
  <2>1. UNCHANGED <<netVars, stack, reply, started, since>> BY <1>3 DEF vars
  <2>2. Maps' /\ SinceInv' /\ UNCHANGED <<up, dhtAddresses, agentRecords>> BY <2>1, MapsSame
  <2> QED BY <2>1, <2>2, Quiet DEF Inv
<1> QED BY <1>1, <1>2, <1>3, StartStep, ForeignStep, LostStep DEF Next

\* The frames of a lookup form a chain of peers that wait for one another, whatever crashes
\* and breaks, none asks itself, and the records of registered agents are there.
THEOREM TypeCorrect == Spec => []TypeOK
<1>1. Inv => TypeOK
  <2> SUFFICES ASSUME Inv PROVE TypeOK OBVIOUS
  <2>1. /\ stack \in Seq(Frames) /\ Len(stack) <= MaxDepth
        /\ \A i \in 1..(Len(stack) - 1) :
               /\ stack[i].pc = "wait"
               /\ stack[i].asked = stack[i + 1].peer
               /\ stack[i].peer # stack[i + 1].peer
    BY DEF Inv, Chain
  <2>2. reply \in Replies /\ (stack # <<>> => (Top.pc = "wait" <=> reply # None))
    BY DEF Inv, Answer, CallInv
  <2> QED BY <2>1, <2>2 DEF Inv, Maps, SinceInv, TypeOK
<1> QED BY <1>1, InvInit, InvNext, PTL DEF Spec

\* What a lookup returns without an error is a record that verifies and names somebody the
\* agent was registered with since the lookup began, or one that a foreign provider has
\* replayed: nothing unverified, nothing empty, no record of an agent that had left before
\* from a peer that runs this code.
THEOREM FoundIsFreshCorrect == Spec => []FoundIsFresh
<1>1. Inv => FoundIsFresh
  <2> SUFFICES ASSUME Inv, Finished, reply # Error
               PROVE  /\ reply.kind = "record"
                      /\ \/ reply.record.proof = "own" /\ reply.record.peer \in since
                         \/ reply.record.proof = "old"
    BY DEF FoundIsFresh
  <2>1. reply \in Replies /\ reply # None /\ reply # Empty /\ Final(reply)
    BY DEF Inv, Answer, CallInv, Finished
  <2>2. PICK r \in Records : reply = Found(r) BY <2>1 DEF Replies, Final
  <2>3. reply.kind = "record" /\ reply.record = r BY <2>2 DEF Found
  <2>4. r.proof \in {"own", "old"} BY <2>1, <2>2, <2>3 DEF Final, Records
  <2> QED BY <2>3, <2>4 DEF Inv, Answer
<1> QED BY <1>1, InvInit, InvNext, PTL DEF Spec
=============================================================================
