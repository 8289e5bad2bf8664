------------------------- MODULE AnnouncementProofs ------------------------
(***************************************************************************)
(* Proofs about Announcement, for any sets of addresses and notifications.  *)
(***************************************************************************)
EXTENDS Announcement, FiniteSetTheorems, TLAPS

USE AnnouncementAssumption

\* RegisterAgentAddress provides, and returns, only after the address is marked.
CallInv ==
    \A x \in Threads : call[x] \in {"provide", "ok", "err"} => arg[x] \in addressAnnouncedMap

TypeInv == TypeOK /\ CallInv

\* Initially the types hold; no notification is pending.
LEMMA TypeInit == Init => TypeInv
<1> SUFFICES ASSUME Init PROVE TypeInv
  OBVIOUS
<1>1. ThreadTypeOK BY DEF Init, ThreadTypeOK, PcStates, Threads
<1>2. MapTypeOK BY DEF Init, MapTypeOK
<1>3. CallInv BY DEF Init, CallInv
<1>4. Pending = {} BY DEF Init, Pending, Threads
<1>5. wg = Cardinality(Pending) BY <1>4, FS_EmptySet DEF Init
<1> QED BY <1>1, <1>2, <1>3, <1>5 DEF TypeInv, TypeOK

\* The set of pending notifications is finite; the WaitGroup is zero exactly
\* when it is empty.
LEMMA PendingFinite ==
  IsFiniteSet(Pending) /\ (wg = Cardinality(Pending) => (wg = 0 <=> Pending = {}))
<1>1. IsFiniteSet(Pending) BY FS_Subset DEF Pending
<1> QED BY <1>1, FS_EmptySet

\* A step that moves a thread which is no notification, or a notification that
\* stays pending, leaves the WaitGroup right.
LEMMA PendingSame ==
  ASSUME TypeOK, UNCHANGED wg,
         \A n \in Notifs : pc'[n] \in {"new", "done"} <=> pc[n] \in {"new", "done"}
  PROVE  wg' = Cardinality(Pending')
<1>1. Pending' = Pending BY DEF Pending
<1> QED BY <1>1 DEF TypeOK

\* RegisterAgentAddress keeps the types.
LEMMA TypeCall ==
  ASSUME TypeInv, NEW x \in Threads, RegisterAgentAddress(x)
  PROVE  TypeInv'
<1> USE DEF TypeInv, TypeOK
<1>1. UNCHANGED <<pc, arg, seen, maps, enableAddressAnnouncement, wg>>
  BY DEF RegisterAgentAddress, CheckAnnounced, SetAnnounced, Provide
<1>2. call[x] # "none" /\ arg[x] \in Addresses
  BY DEF RegisterAgentAddress, CheckAnnounced, SetAnnounced, Provide, ThreadTypeOK
<1>3. ThreadTypeOK'
  BY <1>1, <1>2 DEF RegisterAgentAddress, CheckAnnounced, SetAnnounced, Provide, ThreadTypeOK
<1>4. MapTypeOK'
  BY <1>1, <1>2 DEF RegisterAgentAddress, CheckAnnounced, SetAnnounced, Provide, MapTypeOK,
                    maps, CallInv
<1>5. wg' = Cardinality(Pending') BY <1>1 DEF Pending
<1>6. CallInv'
  BY <1>1 DEF RegisterAgentAddress, CheckAnnounced, SetAnnounced, Provide, CallInv, ThreadTypeOK
<1> QED BY <1>3, <1>4, <1>5, <1>6

\* The steps of a registration keep the types.
LEMMA TypeRegistration ==
  ASSUME TypeInv, NEW a \in Registering,
         RegisterRelay(a) \/ RegisterDelegate(a) \/ RegisterMailbox(a) \/ Registration(a)
  PROVE  TypeInv'
<1> USE DEF TypeInv, TypeOK
<1>1. a \in Threads /\ a \notin Notifs /\ a # New /\ a \in Addresses /\ a # NoAddr
  BY DEF Threads, Addresses
<1>2. /\ \A x \in Threads \ {a} : pc'[x] = pc[x]
      /\ UNCHANGED <<seen, enableAddressAnnouncement, wg, addressAnnouncedMap>>
  BY DEF RegisterRelay, RegisterDelegate, RegisterMailbox, Registration, AwaitNotifications,
         ReadFlag, AnnounceReturns, FinishRegistration, Goto, ThreadTypeOK
<1>3. ThreadTypeOK'
  <2>1. CASE RegisterRelay(a) \/ RegisterDelegate(a) \/ RegisterMailbox(a)
    BY <1>1, <2>1 DEF RegisterRelay, RegisterDelegate, RegisterMailbox, Goto, ThreadTypeOK, PcStates
  <2>2. CASE AwaitNotifications(a) \/ FinishRegistration(a)
    BY <1>1, <2>2 DEF AwaitNotifications, FinishRegistration, Goto, ThreadTypeOK, PcStates
  <2>3. CASE ReadFlag(a)
    BY <1>1, <2>3 DEF ReadFlag, Call, Goto, ThreadTypeOK, PcStates
  <2>4. CASE AnnounceReturns(a)
    BY <1>1, <2>4 DEF AnnounceReturns, Resume, Goto, ThreadTypeOK, PcStates
  <2> QED BY <2>1, <2>2, <2>3, <2>4 DEF Registration
<1>4. MapTypeOK'
  BY <1>1, <1>2 DEF RegisterRelay, RegisterDelegate, RegisterMailbox, Registration,
         AwaitNotifications, ReadFlag, AnnounceReturns, FinishRegistration, MapTypeOK, maps
<1>5. wg' = Cardinality(Pending')
  BY <1>1, <1>2, PendingSame DEF Threads
<1>6. CallInv'
  <2>1. CASE UNCHANGED <<call, arg>> BY <1>2, <2>1 DEF CallInv
  <2>2. CASE ReadFlag(a)
    BY <1>1, <1>2, <2>2 DEF ReadFlag, Call, CallInv, ThreadTypeOK
  <2>3. CASE AnnounceReturns(a)
    BY <1>1, <1>2, <2>3 DEF AnnounceReturns, Resume, CallInv, ThreadTypeOK
  <2> QED
    BY <2>1, <2>2, <2>3 DEF RegisterRelay, RegisterDelegate, RegisterMailbox, Registration,
       AwaitNotifications, FinishRegistration
<1> QED BY <1>3, <1>4, <1>5, <1>6

\* The steps of New keep the types.
LEMMA TypeStart ==
  ASSUME TypeInv, Start
  PROVE  TypeInv'
<1> USE DEF TypeInv, TypeOK
<1>1. New \in Threads /\ New \notin Notifs BY DEF Threads
<1>2. /\ \A x \in Threads \ {New} : pc'[x] = pc[x]
      /\ UNCHANGED <<wg, addressAnnouncedMap>>
  BY <1>1 DEF Start, LoadStored, AnnounceStored, EnableAtStart, AnnounceMine, Goto, ThreadTypeOK
<1>3. ThreadTypeOK'
  <2>1. CASE LoadStored \/ EnableAtStart
    BY <1>1, <2>1 DEF LoadStored, EnableAtStart, Goto, ThreadTypeOK, PcStates
  <2>2. CASE AnnounceStored
    BY <1>1, <2>2 DEF AnnounceStored, Visit, Call, Resume, Goto, ThreadTypeOK, PcStates,
                      MapTypeOK, Addresses, Registering
  <2>3. CASE AnnounceMine
    BY <1>1, <2>3 DEF AnnounceMine, Call, Resume, Goto, ThreadTypeOK, PcStates, Addresses
  <2> QED BY <2>1, <2>2, <2>3 DEF Start
<1>4. MapTypeOK'
  BY <1>2 DEF Start, LoadStored, AnnounceStored, EnableAtStart, AnnounceMine, MapTypeOK, maps
<1>5. wg' = Cardinality(Pending')
  BY <1>1, <1>2, PendingSame DEF Threads
<1>6. CallInv'
  <2>1. CASE UNCHANGED <<call, arg>> BY <1>2, <2>1 DEF CallInv
  <2>2. CASE \E b : Call(New, b)
    BY <1>1, <1>2, <2>2 DEF Call, CallInv, ThreadTypeOK
  <2>3. CASE Resume(New)
    BY <1>1, <1>2, <2>3 DEF Resume, CallInv, ThreadTypeOK
  <2> QED
    BY <2>1, <2>2, <2>3 DEF Start, LoadStored, AnnounceStored, EnableAtStart, AnnounceMine, Visit
<1> QED BY <1>3, <1>4, <1>5, <1>6

\* The steps of a notification keep the types: the WaitGroup goes up when it
\* begins and down when it returns.
LEMMA TypeNotification ==
  ASSUME TypeInv, NEW n \in Notifs, Notify(n) \/ Notification(n)
  PROVE  TypeInv'
<1> USE DEF TypeInv, TypeOK
<1>1. n \in Threads BY DEF Threads
<1>2. /\ \A x \in Threads \ {n} : pc'[x] = pc[x]
      /\ UNCHANGED <<maps, addressAnnouncedMap>>
  BY <1>1 DEF Notify, Notification, InRoutingTable, NotifyMine, NotifyRelays, NotifyDelegates,
         EnableAnnouncement, NotifyReturns, Done, Goto, ThreadTypeOK
<1>3. ThreadTypeOK'
  <2>1. CASE Notify(n) \/ InRoutingTable(n) \/ EnableAnnouncement(n) \/ NotifyReturns(n)
    BY <1>1, <2>1 DEF Notify, InRoutingTable, EnableAnnouncement, NotifyReturns, Done, Goto,
                      ThreadTypeOK, PcStates
  <2>2. CASE NotifyMine(n)
    BY <1>1, <2>2 DEF NotifyMine, Call, Resume, Done, Goto, ThreadTypeOK, PcStates, Addresses
  <2>3. CASE NotifyRelays(n)
    BY <1>1, <2>3 DEF NotifyRelays, Visit, Call, Resume, Goto, ThreadTypeOK, PcStates,
                      MapTypeOK, Addresses, Registering
  <2>4. CASE NotifyDelegates(n)
    BY <1>1, <2>4 DEF NotifyDelegates, Visit, Call, Resume, Goto, ThreadTypeOK, PcStates,
                      MapTypeOK, Addresses, Registering
  <2> QED BY <2>1, <2>2, <2>3, <2>4 DEF Notification
<1>4. MapTypeOK'
  BY <1>2 DEF Notify, Notification, InRoutingTable, NotifyMine, NotifyRelays, NotifyDelegates,
              EnableAnnouncement, NotifyReturns, MapTypeOK, maps
<1>5. wg' = Cardinality(Pending')
  <2>1. CASE Notify(n)
    <3>1. n \notin Pending /\ Pending' = Pending \cup {n}
      BY <1>1, <1>2, <2>1 DEF Notify, Goto, Pending, Threads, ThreadTypeOK
    <3> QED BY <2>1, <3>1, PendingFinite, FS_AddElement DEF Notify
  <2>2. CASE Done(n) /\ pc[n] \notin {"new", "done"}
    <3>1. n \in Pending /\ Pending' = Pending \ {n}
      BY <1>1, <1>2, <2>2 DEF Done, Goto, Pending, Threads, ThreadTypeOK
    <3> QED BY <2>2, <3>1, PendingFinite, FS_RemoveElement DEF Done
  <2>3. CASE UNCHANGED wg /\ pc[n] \notin {"new", "done"} /\ pc'[n] \notin {"new", "done"}
    BY <1>2, <2>3, PendingSame DEF Threads
  <2> QED
    BY <1>1, <2>1, <2>2, <2>3
       DEF Notification, InRoutingTable, NotifyMine, NotifyRelays, NotifyDelegates,
           EnableAnnouncement, NotifyReturns, Goto, ThreadTypeOK
<1>6. CallInv'
  <2>1. CASE UNCHANGED <<call, arg>> BY <1>2, <2>1 DEF CallInv
  <2>2. CASE \E b : Call(n, b)
    BY <1>1, <1>2, <2>2 DEF Call, CallInv, ThreadTypeOK
  <2>3. CASE Resume(n)
    BY <1>1, <1>2, <2>3 DEF Resume, CallInv, ThreadTypeOK
  <2> QED
    BY <2>1, <2>2, <2>3
       DEF Notify, Notification, InRoutingTable, NotifyMine, NotifyRelays, NotifyDelegates,
           EnableAnnouncement, NotifyReturns, Visit
<1> QED BY <1>3, <1>4, <1>5, <1>6

\* Every step keeps TypeInv.
LEMMA TypeNext == TypeInv /\ [Next]_vars => TypeInv'
<1> SUFFICES ASSUME TypeInv, [Next]_vars PROVE TypeInv'
  OBVIOUS
<1>1. CASE Next
  BY <1>1, TypeCall, TypeRegistration, TypeStart, TypeNotification DEF Next
<1>2. CASE UNCHANGED vars
  BY <1>2 DEF vars, maps, TypeInv, TypeOK, ThreadTypeOK, MapTypeOK, Pending, CallInv
<1> QED BY <1>1, <1>2

\* The variables of Announcement always have their types; the WaitGroup counts
\* the notifications under way and never drops below zero.
THEOREM TypeCorrect == Spec => []TypeOK
<1>1. TypeInv => TypeOK BY DEF TypeInv
<1> QED BY <1>1, TypeInit, TypeNext, PTL DEF Spec

-----------------------------------------------------------------------------
(* NoneMissed, for a peer without bootstrap peers: New is loading or up.    *)

\* New announces nothing itself; a client is in its map before it waits for the
\* notifications; its handler announces its own address.
ClientInv ==
    /\ pc[New] \in {"load", "up"} /\ call[New] = "none"
    /\ \A a \in Relays : pc[a] # "new" => a \in dhtAddresses
    /\ \A a \in Delegates : pc[a] # "new" => a \in tcpAddresses
    /\ \A a \in Registering : pc[a] = "announcing" => arg[a] = a

\* What a notification has visited is announced, but for the address at hand.
VisitInv ==
    \A n \in Notifs : \A a \in seen[n] :
        a \in addressAnnouncedMap \/ (arg[n] = a /\ call[n] \in {"check", "set"})

Passed == {"flag", "announcing", "finish", "done"}

\* The notification n is past the loop that covers the client a.
PastLoop(n, a) ==
    \/ a \in Relays /\ pc[n] \in {"delegates", "enable", "return"}
    \/ a \in Delegates /\ pc[n] \in {"enable", "return"}

\* A client that got past the wait was announced by every notification that is
\* past its loop: those that overtook it are what the client waits for.
LoopInv ==
    \A n \in Notifs : \A a \in Relays \cup Delegates :
        PastLoop(n, a) /\ pc[a] \in Passed => a \in addressAnnouncedMap

\* Once announcements are enabled no registration ends unannounced.
EnabledInv ==
    enableAddressAnnouncement =>
        \A a \in Relays \cup Delegates :
            pc[a] \in {"finish", "done"} => a \in addressAnnouncedMap

MissedInv == ClientInv /\ VisitInv /\ LoopInv /\ EnabledInv

\* RegisterAgentAddress only adds to what is announced.
LEMMA MissedCall ==
  ASSUME TypeInv, MissedInv, NEW x \in Threads, RegisterAgentAddress(x)
  PROVE  MissedInv'
<1> USE DEF TypeInv, TypeOK
<1>1. /\ UNCHANGED <<pc, arg, seen, maps, enableAddressAnnouncement>>
      /\ addressAnnouncedMap \subseteq addressAnnouncedMap'
      /\ call[x] # "none"
  BY DEF RegisterAgentAddress, CheckAnnounced, SetAnnounced, Provide
<1>2. \A y \in Threads \ {x} : call'[y] = call[y]
  BY DEF RegisterAgentAddress, CheckAnnounced, SetAnnounced, Provide, ThreadTypeOK
<1>3. ClientInv'
  <2>1. x # New /\ New \in Threads BY <1>1 DEF MissedInv, ClientInv, Threads
  <2> QED BY <1>1, <1>2, <2>1 DEF MissedInv, ClientInv, maps
<1>4. VisitInv'
  <2> SUFFICES ASSUME NEW n \in Notifs, NEW a \in seen[n]
               PROVE  \/ a \in addressAnnouncedMap'
                      \/ arg[n] = a /\ call'[n] \in {"check", "set"}
    BY <1>1 DEF VisitInv
  <2>1. n \in Threads BY DEF Threads
  <2>2. a \in addressAnnouncedMap \/ (arg[n] = a /\ call[n] \in {"check", "set"})
    BY DEF MissedInv, VisitInv
  <2>3. CASE x # n BY <1>1, <1>2, <2>1, <2>2, <2>3
  <2>4. CASE x = n
    BY <1>1, <2>1, <2>2, <2>4 DEF RegisterAgentAddress, CheckAnnounced, SetAnnounced, Provide,
                                  ThreadTypeOK
  <2> QED BY <2>3, <2>4
<1>5. LoopInv' BY <1>1 DEF MissedInv, LoopInv, PastLoop
<1>6. EnabledInv' BY <1>1 DEF MissedInv, EnabledInv
<1> QED BY <1>3, <1>4, <1>5, <1>6 DEF MissedInv

\* A registration keeps MissedInv: no notification is pending when it passes the
\* wait, and it ends announced or with announcements disabled.
LEMMA MissedRegistration ==
  ASSUME TypeInv, MissedInv, NEW a \in Registering,
         RegisterRelay(a) \/ RegisterDelegate(a) \/ RegisterMailbox(a) \/ Registration(a)
  PROVE  MissedInv'
<1> USE DEF TypeInv, TypeOK
<1>1. a \in Threads /\ a \notin Notifs /\ a # New /\ New \in Threads /\ Notifs \subseteq Threads
  BY DEF Threads
<1>2. /\ \A x \in Threads \ {a} : pc'[x] = pc[x] /\ call'[x] = call[x] /\ arg'[x] = arg[x]
      /\ UNCHANGED <<seen, enableAddressAnnouncement, wg, addressAnnouncedMap>>
      /\ dhtAddresses \subseteq dhtAddresses' /\ tcpAddresses \subseteq tcpAddresses'
  BY <1>1 DEF RegisterRelay, RegisterDelegate, RegisterMailbox, Registration, AwaitNotifications,
         ReadFlag, AnnounceReturns, FinishRegistration, Call, Resume, Goto, ThreadTypeOK, maps
<1>3. ClientInv'
  <2>1. pc'[New] \in {"load", "up"} /\ call'[New] = "none"
    BY <1>1, <1>2 DEF MissedInv, ClientInv
  <2>2. \A b \in Relays : pc'[b] # "new" => b \in dhtAddresses'
    BY <1>1, <1>2 DEF MissedInv, ClientInv, Threads, Registering, RegisterRelay, RegisterDelegate,
       RegisterMailbox, Registration, AwaitNotifications, ReadFlag, AnnounceReturns,
       FinishRegistration
  <2>3. \A b \in Delegates : pc'[b] # "new" => b \in tcpAddresses'
    BY <1>1, <1>2 DEF MissedInv, ClientInv, Threads, Registering, RegisterRelay, RegisterDelegate,
       RegisterMailbox, Registration, AwaitNotifications, ReadFlag, AnnounceReturns,
       FinishRegistration
  <2>4. pc'[a] = "announcing" => arg'[a] = a
    BY <1>1 DEF RegisterRelay, RegisterDelegate, RegisterMailbox, Registration,
       AwaitNotifications, ReadFlag, AnnounceReturns, FinishRegistration, Call, Resume, Goto,
       ThreadTypeOK
  <2> QED BY <1>2, <2>1, <2>2, <2>3, <2>4 DEF MissedInv, ClientInv, Threads
<1>4. VisitInv' BY <1>1, <1>2 DEF MissedInv, VisitInv
<1>5. LoopInv'
  <2> SUFFICES ASSUME NEW n \in Notifs, NEW b \in Relays \cup Delegates,
                      PastLoop(n, b)', pc'[b] \in Passed
               PROVE  b \in addressAnnouncedMap
    BY <1>2 DEF LoopInv
  <2>1. pc'[n] = pc[n] BY <1>1, <1>2
  <2>2. PastLoop(n, b) BY <2>1 DEF PastLoop
  <2>3. wg # 0
    BY <2>2, PendingFinite DEF PastLoop, Pending
  <2>4. pc[b] \in Passed
    <3>1. CASE b # a BY <1>2, <3>1 DEF Threads, Registering
    <3>2. CASE b = a
      BY <1>1, <2>3, <3>2 DEF RegisterRelay, RegisterDelegate, RegisterMailbox, Registration,
         AwaitNotifications, ReadFlag, AnnounceReturns, FinishRegistration, Goto, ThreadTypeOK,
         NoNotificationPending, Passed
    <3> QED BY <3>1, <3>2
  <2> QED BY <2>2, <2>4 DEF MissedInv, LoopInv
<1>6. EnabledInv'
  <2> SUFFICES ASSUME enableAddressAnnouncement, NEW b \in Relays \cup Delegates,
                      pc'[b] \in {"finish", "done"}
               PROVE  b \in addressAnnouncedMap
    BY <1>2 DEF EnabledInv
  <2>1. CASE b # a
    BY <1>2, <2>1 DEF Threads, Registering, MissedInv, EnabledInv
  <2>2. CASE b = a /\ AnnounceReturns(a)
    BY <1>1, <2>2 DEF AnnounceReturns, Returned, CallInv, MissedInv, ClientInv
  <2>3. CASE b = a /\ FinishRegistration(a)
    BY <2>3 DEF FinishRegistration, MissedInv, EnabledInv
  <2>4. CASE b = a /\ ~ AnnounceReturns(a) /\ ~ FinishRegistration(a)
    BY <1>1, <2>4 DEF RegisterRelay, RegisterDelegate, RegisterMailbox, Registration,
       AwaitNotifications, ReadFlag, Goto, ThreadTypeOK
  <2> QED BY <2>1, <2>2, <2>3, <2>4
<1> QED BY <1>3, <1>4, <1>5, <1>6 DEF MissedInv

\* Without bootstrap peers New only loads the storage.
LEMMA MissedStart ==
  ASSUME TypeInv, MissedInv, Start, pc'[New] = "up"
  PROVE  MissedInv'
<1>1. LoadStored
  BY DEF MissedInv, ClientInv, Start, AnnounceStored, EnableAtStart, AnnounceMine
<1>2. New \in Threads /\ Notifs \subseteq Threads \ {New} /\ Registering \subseteq Threads \ {New}
  BY DEF Threads
<1>3. /\ \A x \in Threads \ {New} : pc'[x] = pc[x]
      /\ pc'[New] = "up"
      /\ UNCHANGED <<call, arg, seen, tcpAddresses, enableAddressAnnouncement, addressAnnouncedMap>>
      /\ dhtAddresses \subseteq dhtAddresses'
  BY <1>1, <1>2 DEF LoadStored, Goto, TypeInv, TypeOK, ThreadTypeOK
<1>4. Relays \subseteq Registering /\ Delegates \subseteq Registering BY DEF Registering
<1>5. ClientInv' BY <1>2, <1>3, <1>4 DEF MissedInv, ClientInv
<1>6. VisitInv' BY <1>3 DEF MissedInv, VisitInv
<1>7. LoopInv' BY <1>2, <1>3, <1>4 DEF MissedInv, LoopInv, PastLoop
<1>8. EnabledInv' BY <1>2, <1>3, <1>4 DEF MissedInv, EnabledInv
<1> QED BY <1>5, <1>6, <1>7, <1>8 DEF MissedInv

\* A notification keeps MissedInv: it leaves a loop with the whole map visited.
LEMMA MissedNotification ==
  ASSUME TypeInv, MissedInv, NEW n \in Notifs, Notify(n) \/ Notification(n)
  PROVE  MissedInv'
<1> USE DEF TypeInv, TypeOK
<1>1. n \in Threads /\ n # New /\ n \notin Registering /\ New \in Threads
      /\ Registering \subseteq Threads /\ Relays \subseteq Registering /\ Delegates \subseteq Registering
      /\ Notifs \subseteq Threads
  BY DEF Threads, Registering
<1>2. /\ \A x \in Threads \ {n} :
           pc'[x] = pc[x] /\ call'[x] = call[x] /\ arg'[x] = arg[x] /\ seen'[x] = seen[x]
      /\ UNCHANGED <<maps, addressAnnouncedMap>>
  BY <1>1 DEF Notify, Notification, InRoutingTable, NotifyMine, NotifyRelays, NotifyDelegates,
         EnableAnnouncement, NotifyReturns, Done, Visit, Call, Resume, Goto, ThreadTypeOK
<1>3. ClientInv' BY <1>1, <1>2 DEF MissedInv, ClientInv, maps
<1>4. VisitInv'
  <2> SUFFICES ASSUME NEW a \in seen'[n]
               PROVE  a \in addressAnnouncedMap \/ (arg'[n] = a /\ call'[n] \in {"check", "set"})
    BY <1>1, <1>2 DEF MissedInv, VisitInv
  <2>1. CASE UNCHANGED <<call, arg, seen>> BY <2>1 DEF MissedInv, VisitInv
  <2>2. CASE UNCHANGED seen /\ call[n] \in {"none", "ok", "err"}
    BY <2>2 DEF MissedInv, VisitInv
  <2>3. CASE \E b : Visit(n, b)
    <3>1. PICK b : Visit(n, b) BY <2>3
    <3>2. call'[n] = "check" /\ arg'[n] = b /\ call[n] = "none" /\ seen'[n] = seen[n] \cup {b}
      BY <1>1, <3>1 DEF Visit, Call, ThreadTypeOK
    <3> QED BY <3>2 DEF MissedInv, VisitInv
  <2> QED
    BY <2>1, <2>2, <2>3 DEF Notify, Notification, InRoutingTable, NotifyMine, NotifyRelays,
       NotifyDelegates, EnableAnnouncement, NotifyReturns, Returned, Call
<1>5. LoopInv'
  <2> SUFFICES ASSUME NEW a \in Relays \cup Delegates, PastLoop(n, a)', pc[a] \in Passed
               PROVE  a \in addressAnnouncedMap
    BY <1>1, <1>2 DEF MissedInv, LoopInv, PastLoop
  <2>1. pc[a] # "new" BY DEF Passed
  <2>2. CASE PastLoop(n, a) BY <2>2 DEF MissedInv, LoopInv
  <2>3. CASE ~ PastLoop(n, a) /\ a \in Relays
    <3>1. call[n] = "none" /\ dhtAddresses \subseteq seen[n]
      BY <1>1, <2>3 DEF PastLoop, Notify, Notification, InRoutingTable, NotifyMine,
         NotifyRelays, NotifyDelegates, EnableAnnouncement, NotifyReturns, Done, Goto, ThreadTypeOK
    <3> QED BY <2>1, <2>3, <3>1 DEF MissedInv, ClientInv, VisitInv
  <2>4. CASE ~ PastLoop(n, a) /\ a \in Delegates
    <3>1. call[n] = "none" /\ tcpAddresses \subseteq seen[n]
      BY <1>1, <2>4 DEF PastLoop, Notify, Notification, InRoutingTable, NotifyMine,
         NotifyRelays, NotifyDelegates, EnableAnnouncement, NotifyReturns, Done, Goto, ThreadTypeOK
    <3> QED BY <2>1, <2>4, <3>1 DEF MissedInv, ClientInv, VisitInv
  <2> QED BY <2>2, <2>3, <2>4
<1>6. EnabledInv'
  <2> SUFFICES ASSUME enableAddressAnnouncement', NEW a \in Relays \cup Delegates,
                      pc[a] \in {"finish", "done"}
               PROVE  a \in addressAnnouncedMap
    BY <1>1, <1>2 DEF EnabledInv
  <2>1. CASE enableAddressAnnouncement BY <2>1 DEF MissedInv, EnabledInv
  <2>2. CASE EnableAnnouncement(n)
    BY <2>2 DEF EnableAnnouncement, MissedInv, LoopInv, PastLoop, Passed
  <2> QED
    BY <2>1, <2>2 DEF Notify, Notification, InRoutingTable, NotifyMine, NotifyRelays,
       NotifyDelegates, NotifyReturns
<1> QED BY <1>3, <1>4, <1>5, <1>6 DEF MissedInv

-----------------------------------------------------------------------------
(* NoneMissed, for a peer with bootstrap peers.                             *)

\* What the loop of New has visited is announced, but for the address at hand,
\* and all stored addresses once the loop has ended.
StoredInv ==
    /\ \A a \in seen[New] :
           a \in addressAnnouncedMap \/ (arg[New] = a /\ call[New] \in {"check", "set"})
    /\ pc[New] \in {"enable", "mine", "joined"} => Stored \subseteq addressAnnouncedMap
    /\ pc[New] = "load" => seen[New] = {}

\* The services are launched with announcements enabled, so that their clients
\* announce themselves.
ServiceInv ==
    /\ pc[New] \in {"mine", "joined"} => enableAddressAnnouncement
    /\ \A a \in Delegates \cup Mailboxes :
        /\ pc[a] # "new" => Up
        /\ pc[a] = "announcing" => arg[a] = a
        /\ pc[New] = "joined" /\ pc[a] \in {"finish", "done"} => a \in addressAnnouncedMap

JoinInv == StoredInv /\ ServiceInv

\* RegisterAgentAddress keeps JoinInv.
LEMMA JoinCall ==
  ASSUME TypeInv, JoinInv, NEW x \in Threads, RegisterAgentAddress(x)
  PROVE  JoinInv'
<1> USE DEF TypeInv, TypeOK, JoinInv
<1>1. /\ UNCHANGED <<pc, arg, seen, maps, enableAddressAnnouncement>>
      /\ addressAnnouncedMap \subseteq addressAnnouncedMap'
      /\ \A y \in Threads \ {x} : call'[y] = call[y]
  BY DEF RegisterAgentAddress, CheckAnnounced, SetAnnounced, Provide, ThreadTypeOK
<1>2. New \in Threads BY DEF Threads
<1>3. call'[x] \in {"check", "set"} \/ arg[x] \in addressAnnouncedMap'
  BY DEF RegisterAgentAddress, CheckAnnounced, SetAnnounced, Provide, CallInv, ThreadTypeOK
<1>4. StoredInv' BY <1>1, <1>2, <1>3 DEF StoredInv
<1>5. ServiceInv' BY <1>1 DEF ServiceInv, Up
<1> QED BY <1>4, <1>5

\* A registration keeps JoinInv: it reads the flag as true.
LEMMA JoinRegistration ==
  ASSUME TypeInv, JoinInv, NEW a \in Registering,
         RegisterRelay(a) \/ RegisterDelegate(a) \/ RegisterMailbox(a) \/ Registration(a)
  PROVE  JoinInv'
<1> USE DEF TypeInv, TypeOK, JoinInv
<1>1. a \in Threads /\ a # New /\ New \in Threads BY DEF Threads
<1>2. /\ \A x \in Threads \ {a} : pc'[x] = pc[x] /\ call'[x] = call[x] /\ arg'[x] = arg[x]
      /\ UNCHANGED <<seen, enableAddressAnnouncement, addressAnnouncedMap>>
  BY <1>1 DEF RegisterRelay, RegisterDelegate, RegisterMailbox, Registration, AwaitNotifications,
         ReadFlag, AnnounceReturns, FinishRegistration, Call, Resume, Goto, ThreadTypeOK
<1>3. StoredInv' BY <1>1, <1>2 DEF StoredInv
<1>4. ServiceInv'
  <2>1. Delegates \cup Mailboxes \subseteq Threads BY DEF Threads, Registering
  <2>2. Up' <=> Up BY <1>1, <1>2 DEF Up
  <2> SUFFICES ASSUME a \in Delegates \cup Mailboxes
               PROVE  /\ pc'[a] # "new" => Up
                      /\ pc'[a] = "announcing" => arg'[a] = a
                      /\ pc[New] = "joined" /\ pc'[a] \in {"finish", "done"} =>
                             a \in addressAnnouncedMap
    BY <1>1, <1>2, <2>1, <2>2 DEF ServiceInv
  <2>3. CASE RegisterRelay(a) \/ RegisterDelegate(a) \/ RegisterMailbox(a)
    BY <1>1, <2>3 DEF RegisterRelay, RegisterDelegate, RegisterMailbox, Goto, ThreadTypeOK
  <2>4. CASE AwaitNotifications(a) \/ FinishRegistration(a)
    BY <1>1, <2>4 DEF AwaitNotifications, FinishRegistration, Goto, ThreadTypeOK, ServiceInv
  <2>5. CASE ReadFlag(a)
    BY <1>1, <2>5 DEF ReadFlag, Call, Goto, ThreadTypeOK, ServiceInv
  <2>6. CASE AnnounceReturns(a)
    BY <1>1, <2>6 DEF AnnounceReturns, Returned, Goto, ThreadTypeOK, ServiceInv, CallInv
  <2> QED BY <2>3, <2>4, <2>5, <2>6 DEF Registration
<1> QED BY <1>3, <1>4

\* The steps of New keep JoinInv: the loop ends with the stored addresses visited.
LEMMA JoinStart ==
  ASSUME TypeInv, JoinInv, Start
  PROVE  JoinInv'
<1> USE DEF TypeInv, TypeOK, JoinInv
<1>1. New \in Threads /\ Delegates \cup Mailboxes \subseteq Threads \ {New}
  BY DEF Threads, Registering
<1>2. /\ \A x \in Threads \ {New} : pc'[x] = pc[x] /\ arg'[x] = arg[x]
      /\ UNCHANGED addressAnnouncedMap
  BY <1>1 DEF Start, LoadStored, AnnounceStored, EnableAtStart, AnnounceMine, Visit, Call, Resume,
              Goto, ThreadTypeOK
<1>3. ~ Up
  BY DEF Start, LoadStored, AnnounceStored, EnableAtStart, AnnounceMine, Up
<1>4. \A a \in Delegates \cup Mailboxes : pc'[a] = "new"
  BY <1>1, <1>2, <1>3 DEF ServiceInv
<1>5. enableAddressAnnouncement => enableAddressAnnouncement'
  BY DEF Start, LoadStored, AnnounceStored, EnableAtStart, AnnounceMine
<1>6. pc'[New] \in {"mine", "joined"} => enableAddressAnnouncement'
  BY <1>1, <1>5 DEF Start, LoadStored, AnnounceStored, EnableAtStart, AnnounceMine, Goto,
                    ThreadTypeOK, ServiceInv
<1>7. ServiceInv' BY <1>4, <1>6 DEF ServiceInv
<1>8. StoredInv'
  <2>1. CASE LoadStored
    BY <1>1, <2>1 DEF LoadStored, Goto, ThreadTypeOK, StoredInv
  <2>2. CASE AnnounceStored
    <3>1. CASE \E a : Visit(New, a) /\ UNCHANGED pc
      <4>1. PICK a : Visit(New, a) /\ UNCHANGED pc BY <3>1
      <4>2. call'[New] = "check" /\ arg'[New] = a /\ call[New] = "none"
            /\ seen'[New] = seen[New] \cup {a}
        BY <1>1, <4>1 DEF Visit, Call, ThreadTypeOK
      <4> QED BY <1>2, <2>2, <4>1, <4>2 DEF AnnounceStored, StoredInv
    <3>2. CASE Returned(New) /\ Resume(New) /\ UNCHANGED <<pc, seen>>
      BY <1>2, <2>2, <3>2 DEF AnnounceStored, Returned, StoredInv
    <3>3. CASE call[New] = "none" /\ Stored \subseteq seen[New] /\ Goto(New, "enable")
               /\ UNCHANGED <<call, arg, seen>>
      BY <1>1, <1>2, <3>3 DEF Goto, ThreadTypeOK, StoredInv
    <3> QED BY <2>2, <3>1, <3>2, <3>3 DEF AnnounceStored
  <2>3. CASE EnableAtStart
    BY <1>1, <1>2, <2>3 DEF EnableAtStart, Goto, ThreadTypeOK, StoredInv
  <2>4. CASE AnnounceMine
    <3>1. /\ pc[New] = "mine" /\ pc'[New] # "load" /\ UNCHANGED seen
          /\ call[New] \notin {"check", "set"}
      BY <1>1, <2>4 DEF AnnounceMine, Returned, Call, Goto, ThreadTypeOK
    <3> QED BY <1>2, <3>1 DEF StoredInv
  <2> QED BY <2>1, <2>2, <2>3, <2>4 DEF Start
<1> QED BY <1>7, <1>8

\* A notification leaves New, its clients and what is announced alone, and never
\* disables announcements.
LEMMA JoinNotification ==
  ASSUME TypeInv, JoinInv, NEW n \in Notifs, Notify(n) \/ Notification(n)
  PROVE  JoinInv'
<1> USE DEF TypeInv, TypeOK, JoinInv
<1>1. n \in Threads /\ n # New /\ n \notin Registering /\ New \in Threads
      /\ Delegates \cup Mailboxes \subseteq Threads \ {n}
  BY DEF Threads, Registering
<1>2. /\ \A x \in Threads \ {n} :
           pc'[x] = pc[x] /\ call'[x] = call[x] /\ arg'[x] = arg[x] /\ seen'[x] = seen[x]
      /\ UNCHANGED addressAnnouncedMap
  BY <1>1 DEF Notify, Notification, InRoutingTable, NotifyMine, NotifyRelays, NotifyDelegates,
         EnableAnnouncement, NotifyReturns, Done, Visit, Call, Resume, Goto, ThreadTypeOK
<1>3. enableAddressAnnouncement => enableAddressAnnouncement'
  BY DEF Notify, Notification, InRoutingTable, NotifyMine, NotifyRelays, NotifyDelegates,
         EnableAnnouncement, NotifyReturns
<1>4. StoredInv' BY <1>1, <1>2 DEF StoredInv
<1>5. ServiceInv' BY <1>1, <1>2, <1>3 DEF ServiceInv, Up
<1> QED BY <1>4, <1>5

-----------------------------------------------------------------------------

\* New never goes back to loading or to being a genesis peer, other than by
\* the step that ends the loading.
LEMMA NewBranches ==
  ASSUME TypeInv, [Next]_vars, pc'[New] \in {"load", "up"}
  PROVE  pc[New] \in {"load", "up"} /\ (Start => pc'[New] = "up")
<1> USE DEF TypeInv, TypeOK
<1>1. New \in Threads /\ New \notin Registering /\ New \notin Notifs BY DEF Threads
<1>2. CASE Start
  BY <1>1, <1>2 DEF Start, LoadStored, AnnounceStored, EnableAtStart, AnnounceMine, Goto, ThreadTypeOK
<1>3. ASSUME NEW x \in Threads, RegisterAgentAddress(x) PROVE UNCHANGED pc
  BY <1>3 DEF RegisterAgentAddress, CheckAnnounced, SetAnnounced, Provide
<1>4. ASSUME NEW a \in Registering,
             RegisterRelay(a) \/ RegisterDelegate(a) \/ RegisterMailbox(a) \/ Registration(a)
      PROVE  pc'[New] = pc[New]
  BY <1>1, <1>4 DEF RegisterRelay, RegisterDelegate, RegisterMailbox, Registration,
         AwaitNotifications, ReadFlag, AnnounceReturns, FinishRegistration, Goto, ThreadTypeOK
<1>5. ASSUME NEW n \in Notifs, Notify(n) \/ Notification(n) PROVE pc'[New] = pc[New]
  BY <1>1, <1>5 DEF Notify, Notification, InRoutingTable, NotifyMine, NotifyRelays, NotifyDelegates,
         EnableAnnouncement, NotifyReturns, Done, Goto, ThreadTypeOK
<1>6. CASE ~ Start
  BY <1>3, <1>4, <1>5, <1>6 DEF Next, vars
<1> QED BY <1>2, <1>6

\* Nobody is missed: once announcements are enabled and no notification is under
\* way, every covered client whose registration has ended is announced, for a
\* genesis and for a joining peer, whichever way registrations, New and any
\* number of notifications interleave.
THEOREM NoneMissedCorrect == Spec => []NoneMissed
<1> DEFINE GenesisInv == pc[New] \in {"load", "up"} => MissedInv
           IInv == TypeInv /\ GenesisInv /\ JoinInv
<1>1. Init => IInv
  <2> SUFFICES ASSUME Init PROVE MissedInv /\ JoinInv
    BY TypeInit
  <2>1. ClientInv BY DEF Init, ClientInv, Threads, Registering
  <2>2. VisitInv BY DEF Init, VisitInv, Threads
  <2>3. LoopInv BY DEF Init, LoopInv, PastLoop, Threads
  <2>4. EnabledInv BY DEF Init, EnabledInv
  <2>5. StoredInv BY DEF Init, StoredInv, Threads
  <2>6. ServiceInv BY DEF Init, ServiceInv, Threads, Registering
  <2> QED BY <2>1, <2>2, <2>3, <2>4, <2>5, <2>6 DEF MissedInv, JoinInv
<1>2. IInv /\ [Next]_vars => IInv'
  <2> SUFFICES ASSUME IInv, [Next]_vars PROVE GenesisInv' /\ JoinInv'
    BY TypeNext
  <2>1. CASE Next
    <3>1. JoinInv'
      BY <2>1, JoinCall, JoinRegistration, JoinStart, JoinNotification DEF Next
    <3>2. ASSUME pc'[New] \in {"load", "up"} PROVE MissedInv'
      <4>1. MissedInv /\ (Start => pc'[New] = "up") BY <3>2, NewBranches
      <4> QED BY <2>1, <4>1, MissedCall, MissedRegistration, MissedStart, MissedNotification DEF Next
    <3> QED BY <3>1, <3>2
  <2>2. CASE UNCHANGED vars
    BY <2>2 DEF vars, maps, MissedInv, ClientInv, VisitInv, LoopInv, PastLoop, EnabledInv,
                JoinInv, StoredInv, ServiceInv, Up
  <2> QED BY <2>1, <2>2
<1>3. IInv => NoneMissed
  <2> SUFFICES ASSUME IInv, CaughtUp, NEW a \in Covered, a \in Registering => pc[a] = "done"
               PROVE  a \in addressAnnouncedMap
    BY DEF NoneMissed
  <2>1. CASE pc[New] = "joined"
    BY <2>1 DEF Covered, JoinInv, StoredInv, ServiceInv, Registering
  <2>2. CASE pc[New] = "up"
    BY <2>2 DEF Covered, CaughtUp, MissedInv, EnabledInv, Registering
  <2> QED BY <2>1, <2>2 DEF CaughtUp, Up
<1> HIDE DEF IInv
<1> QED BY <1>1, <1>2, <1>3, PTL DEF Spec
=============================================================================
