--------------------------- MODULE Announcement ----------------------------
(***************************************************************************)
(* When an ACN peer announces the addresses registered with it to the DHT.  *)
(* A peer that starts without bootstrap peers (a genesis peer) may announce *)
(* nothing until a first peer has notified it; registrations until then are *)
(* caught up with by the handler of the notification.  The threads are New, *)
(* one handler per registration of an address and one per notification;     *)
(* all of them call RegisterAgentAddress.  The relay service is enabled.     *)
(***************************************************************************)
EXTENDS Integers, FiniteSets

CONSTANTS
    Relays,         \* addresses that register on a relay stream
    Stored,         \* relay addresses loaded from the persistent storage
    Delegates,      \* addresses that register with the delegate service
    Mailboxes,      \* addresses that register with the mailbox service
    Mine,           \* the address of the node's agent, if any (at most one)
    Notifs,         \* notification streams, one handler each
    New, NoAddr     \* the thread of New; no address

Registering == Relays \cup Delegates \cup Mailboxes
Addresses == Registering \cup Stored \cup Mine
Threads == Registering \cup Notifs \cup {New}

ASSUME AnnouncementAssumption ==
    /\ NoAddr \notin Addresses
    /\ IsFiniteSet(Notifs)
    /\ Relays \cap Delegates = {} /\ Relays \cap Mailboxes = {}
    /\ Delegates \cap Mailboxes = {}
    /\ Registering \cap Notifs = {} /\ New \notin Registering \cup Notifs
    /\ \A x, y \in Mine : x = y

VARIABLES
    pc,                         \* pc[x]: where thread x is
    call,                       \* call[x]: where its RegisterAgentAddress is
    arg,                        \* arg[x]: the address it was called with
    seen,                       \* seen[x]: addresses a loop has visited
    dhtAddresses,               \* addresses with a relay client
    tcpAddresses,               \* addresses with a delegate connection
    mailboxes,                  \* addresses with a mailbox
    enableAddressAnnouncement,
    wg,                         \* counter of enableAddressAnnouncementWg
    addressAnnouncedMap

maps == <<dhtAddresses, tcpAddresses, mailboxes>>
vars == <<pc, call, arg, seen, maps, enableAddressAnnouncement, wg,
          addressAnnouncedMap>>

Init ==
    /\ pc = [x \in Threads |-> IF x = New THEN "load" ELSE "new"]
    /\ call = [x \in Threads |-> "none"]
    /\ arg = [x \in Threads |-> NoAddr]
    /\ seen = [x \in Threads |-> {}]
    /\ dhtAddresses = {}
    /\ tcpAddresses = {}
    /\ mailboxes = {}
    /\ enableAddressAnnouncement = FALSE
    /\ wg = 0
    /\ addressAnnouncedMap = {}

Goto(x, l) == pc' = [pc EXCEPT ![x] = l]

\* New has launched the services of a genesis peer, of a joining peer.
Up == pc[New] \in {"up", "joined"}

-----------------------------------------------------------------------------
(* RegisterAgentAddress, called by thread x.                                *)

Call(x, a) ==
    /\ call[x] = "none"
    /\ call' = [call EXCEPT ![x] = "check"]
    /\ arg' = [arg EXCEPT ![x] = a]

\* IsAddressAnnounced.
CheckAnnounced(x) ==
    /\ call[x] = "check"
    /\ call' = [call EXCEPT ![x] = IF arg[x] \in addressAnnouncedMap THEN "ok" ELSE "set"]
    /\ UNCHANGED <<pc, arg, seen, maps, enableAddressAnnouncement, wg,
                   addressAnnouncedMap>>

\* setAddressAnnounced, before the address is provided.
SetAnnounced(x) ==
    /\ call[x] = "set"
    /\ addressAnnouncedMap' = addressAnnouncedMap \cup {arg[x]}
    /\ call' = [call EXCEPT ![x] = "provide"]
    /\ UNCHANGED <<pc, arg, seen, maps, enableAddressAnnouncement, wg>>

\* dht.Provide: it succeeds or meets the deadline, which is no error, or fails.
Provide(x) ==
    /\ call[x] = "provide"
    /\ \E result \in {"ok", "err"} : call' = [call EXCEPT ![x] = result]
    /\ UNCHANGED <<pc, arg, seen, maps, enableAddressAnnouncement, wg, addressAnnouncedMap>>

\* The caller has the result.
Returned(x) == call[x] \in {"ok", "err"}
Resume(x) ==
    /\ call' = [call EXCEPT ![x] = "none"]
    /\ arg' = [arg EXCEPT ![x] = NoAddr]

-----------------------------------------------------------------------------
(* Registrations.  A map is locked while a notification iterates over it.   *)

RelaysLocked == \E n \in Notifs : pc[n] = "relays"
DelegatesLocked == \E n \in Notifs : pc[n] = "delegates"

\* handleAeaRegisterStream, once relay clients may register.
RegisterRelay(a) ==
    /\ pc[a] = "new" /\ a \in Relays
    /\ ~ RelaysLocked
    /\ dhtAddresses' = dhtAddresses \cup {a}
    /\ Goto(a, "wait")
    /\ UNCHANGED <<call, arg, seen, tcpAddresses, mailboxes, enableAddressAnnouncement, wg,
                   addressAnnouncedMap>>

\* handleNewDelegationConnection, once New has launched the delegate service.
RegisterDelegate(a) ==
    /\ pc[a] = "new" /\ a \in Delegates
    /\ Up
    /\ ~ DelegatesLocked
    /\ tcpAddresses' = tcpAddresses \cup {a}
    /\ Goto(a, "wait")
    /\ UNCHANGED <<call, arg, seen, dhtAddresses, mailboxes, enableAddressAnnouncement, wg,
                   addressAnnouncedMap>>

\* apiRegister, once New has launched the mailbox service: the mailbox is made
\* at the end.
RegisterMailbox(a) ==
    /\ pc[a] = "new" /\ a \in Mailboxes
    /\ Up
    /\ Goto(a, "wait")
    /\ UNCHANGED <<call, arg, seen, maps, enableAddressAnnouncement, wg, addressAnnouncedMap>>

\* IsAddressAnnouncementEnabled: wait for the notifications being handled ...
\* Mutant: do not wait.
NoNotificationPendingMutant == TRUE
NoNotificationPending == wg = 0

AwaitNotifications(a) ==
    /\ pc[a] = "wait"
    /\ NoNotificationPending
    /\ Goto(a, "flag")
    /\ UNCHANGED <<call, arg, seen, maps, enableAddressAnnouncement, wg, addressAnnouncedMap>>

\* ... then read the flag; announce the address, or leave it to a notification.
ReadFlag(a) ==
    /\ pc[a] = "flag"
    /\ IF enableAddressAnnouncement
       THEN Call(a, a) /\ Goto(a, "announcing")
       ELSE Goto(a, "finish") /\ UNCHANGED <<call, arg>>
    /\ UNCHANGED <<seen, maps, enableAddressAnnouncement, wg, addressAnnouncedMap>>

\* On an error the handler returns: a mailbox is refused, a relay or delegate
\* client stays in its map.
AnnounceReturns(a) ==
    /\ pc[a] = "announcing"
    /\ Returned(a)
    /\ Resume(a)
    /\ Goto(a, IF call[a] = "err" THEN "done" ELSE "finish")
    /\ UNCHANGED <<seen, maps, enableAddressAnnouncement, wg, addressAnnouncedMap>>

FinishRegistration(a) ==
    /\ pc[a] = "finish"
    /\ mailboxes' = mailboxes \cup ({a} \cap Mailboxes)
    /\ Goto(a, "done")
    /\ UNCHANGED <<call, arg, seen, dhtAddresses, tcpAddresses, enableAddressAnnouncement, wg,
                   addressAnnouncedMap>>

-----------------------------------------------------------------------------
(* A notification: handleAeaNotifStream.                                    *)

\* A peer that has joined opens the stream; the WaitGroup goes up.
Notify(n) ==
    /\ pc[n] = "new"
    /\ wg' = wg + 1
    /\ Goto(n, "table")
    /\ UNCHANGED <<call, arg, seen, maps, enableAddressAnnouncement, addressAnnouncedMap>>

\* Every return of the handler: the deferred Done.  Mutant: it is forgotten.
DoneMutant(n) == UNCHANGED wg /\ Goto(n, "done")
Done(n) == wg' = wg - 1 /\ Goto(n, "done")

\* The peer gets into the routing table in time, or the handler returns.
InRoutingTable(n) ==
    /\ pc[n] = "table"
    /\ \/ Goto(n, "mine") /\ UNCHANGED wg
       \/ Done(n)
    /\ UNCHANGED <<call, arg, seen, maps, enableAddressAnnouncement, addressAnnouncedMap>>

\* Announce the address of the node's agent unless that was done; an error ends
\* the handler.
NotifyMine(n) ==
    /\ pc[n] = "mine"
    /\ \/ /\ call[n] = "none"
          /\ Mine \subseteq addressAnnouncedMap
          /\ Goto(n, "relays")
          /\ UNCHANGED <<call, arg, wg>>
       \/ /\ \E a \in Mine \ addressAnnouncedMap : Call(n, a)
          /\ UNCHANGED <<pc, wg>>
       \/ /\ call[n] = "ok"
          /\ Resume(n)
          /\ Goto(n, "relays")
          /\ UNCHANGED wg
       \/ /\ call[n] = "err"
          /\ Resume(n)
          /\ Done(n)
    /\ UNCHANGED <<seen, maps, enableAddressAnnouncement, addressAnnouncedMap>>

\* One address of a loop, whose errors are logged.
Visit(x, a) ==
    /\ Call(x, a)
    /\ seen' = [seen EXCEPT ![x] = @ \cup {a}]

\* The loop over dhtAddresses.
NotifyRelays(n) ==
    /\ pc[n] = "relays"
    /\ \/ \E a \in dhtAddresses \ seen[n] : Visit(n, a) /\ UNCHANGED pc
       \/ Returned(n) /\ Resume(n) /\ UNCHANGED <<pc, seen>>
       \/ /\ call[n] = "none"
          /\ dhtAddresses \subseteq seen[n]
          /\ Goto(n, "delegates")
          /\ UNCHANGED <<call, arg, seen>>
    /\ UNCHANGED <<maps, enableAddressAnnouncement, wg, addressAnnouncedMap>>

\* The loop over tcpAddresses.
NotifyDelegates(n) ==
    /\ pc[n] = "delegates"
    /\ \/ \E a \in tcpAddresses \ seen[n] : Visit(n, a) /\ UNCHANGED pc
       \/ Returned(n) /\ Resume(n) /\ UNCHANGED <<pc, seen>>
       \/ /\ call[n] = "none"
          /\ tcpAddresses \subseteq seen[n]
          /\ Goto(n, "enable")
          /\ UNCHANGED <<call, arg, seen>>
    /\ UNCHANGED <<maps, enableAddressAnnouncement, wg, addressAnnouncedMap>>

\* From now on addresses are announced as they register; the handler is done.
EnableAnnouncement(n) ==
    /\ pc[n] = "enable"
    /\ enableAddressAnnouncement' = TRUE
    /\ Goto(n, "return")
    /\ UNCHANGED <<call, arg, seen, maps, wg, addressAnnouncedMap>>

NotifyReturns(n) ==
    /\ pc[n] = "return"
    /\ Done(n)
    /\ UNCHANGED <<call, arg, seen, maps, enableAddressAnnouncement, addressAnnouncedMap>>

-----------------------------------------------------------------------------
(* New, from the handlers of relay registrations and notifications on.      *)

\* initAgentRecordPersistentStorage; a peer that has bootstrap peers goes on to
\* announce its addresses to them.
LoadStored ==
    /\ pc[New] = "load"
    /\ dhtAddresses' = dhtAddresses \cup Stored
    /\ \E branch \in {"up", "stored"} : Goto(New, branch)
    /\ UNCHANGED <<call, arg, seen, tcpAddresses, mailboxes, enableAddressAnnouncement, wg,
                   addressAnnouncedMap>>

\* The loop over dhtAddresses, without the lock: an address that a relay client
\* adds meanwhile may be visited or not.
AnnounceStored ==
    /\ pc[New] = "stored"
    /\ \/ \E a \in dhtAddresses \ seen[New] : Visit(New, a) /\ UNCHANGED pc
       \/ Returned(New) /\ Resume(New) /\ UNCHANGED <<pc, seen>>
       \/ /\ call[New] = "none"
          /\ Stored \subseteq seen[New]
          /\ Goto(New, "enable")
          /\ UNCHANGED <<call, arg, seen>>
    /\ UNCHANGED <<maps, enableAddressAnnouncement, wg, addressAnnouncedMap>>

EnableAtStart ==
    /\ pc[New] = "enable"
    /\ enableAddressAnnouncement' = TRUE
    /\ Goto(New, "mine")
    /\ UNCHANGED <<call, arg, seen, maps, wg, addressAnnouncedMap>>

\* Announce the address of the node's agent unless a notification did; an error
\* makes New fail.
AnnounceMine ==
    /\ pc[New] = "mine"
    /\ \/ /\ call[New] = "none"
          /\ Mine \subseteq addressAnnouncedMap
          /\ Goto(New, "joined")
          /\ UNCHANGED <<call, arg>>
       \/ /\ \E a \in Mine \ addressAnnouncedMap : Call(New, a)
          /\ UNCHANGED pc
       \/ /\ Returned(New)
          /\ Resume(New)
          /\ Goto(New, IF call[New] = "ok" THEN "joined" ELSE "failed")
    /\ UNCHANGED <<seen, maps, enableAddressAnnouncement, wg, addressAnnouncedMap>>

-----------------------------------------------------------------------------

RegisterAgentAddress(x) == CheckAnnounced(x) \/ SetAnnounced(x) \/ Provide(x)

Registration(a) ==
    AwaitNotifications(a) \/ ReadFlag(a) \/ AnnounceReturns(a) \/ FinishRegistration(a)

Notification(n) ==
    \/ InRoutingTable(n) \/ NotifyMine(n) \/ NotifyRelays(n) \/ NotifyDelegates(n)
    \/ EnableAnnouncement(n) \/ NotifyReturns(n)

Start == LoadStored \/ AnnounceStored \/ EnableAtStart \/ AnnounceMine

\* A failed New closes the peer.
Next ==
    /\ pc[New] # "failed"
    /\ \/ \E x \in Threads : RegisterAgentAddress(x)
       \/ \E a \in Registering : RegisterRelay(a) \/ RegisterDelegate(a) \/ RegisterMailbox(a)
       \/ \E a \in Registering : Registration(a)
       \/ \E n \in Notifs : Notify(n)
       \/ \E n \in Notifs : Notification(n)
       \/ Start

Spec == Init /\ [][Next]_vars

\* Every thread runs: Provide and the wait for the routing table have timeouts.
\* Nobody needs to register or to notify.
FairSpec ==
    /\ Spec
    /\ \A x \in Threads : WF_vars(RegisterAgentAddress(x))
    /\ \A a \in Registering : WF_vars(pc[New] # "failed" /\ Registration(a))
    /\ \A n \in Notifs : WF_vars(pc[New] # "failed" /\ Notification(n))
    /\ WF_vars(Start)

-----------------------------------------------------------------------------
(* Properties                                                               *)

PcStates ==
    {"new", "wait", "flag", "announcing", "finish", "done", "table", "mine", "relays",
     "delegates", "enable", "return", "load", "stored", "up", "joined", "failed"}

ThreadTypeOK ==
    /\ pc \in [Threads -> PcStates]
    /\ call \in [Threads -> {"none", "check", "set", "provide", "ok", "err"}]
    /\ arg \in [Threads -> Addresses \cup {NoAddr}]
    /\ \A x \in Threads : call[x] = "none" <=> arg[x] = NoAddr
    /\ seen \in [Threads -> SUBSET Addresses]

MapTypeOK ==
    /\ dhtAddresses \subseteq Relays \cup Stored
    /\ tcpAddresses \subseteq Delegates
    /\ mailboxes \subseteq Mailboxes
    /\ enableAddressAnnouncement \in BOOLEAN
    /\ addressAnnouncedMap \subseteq Addresses

Pending == {n \in Notifs : pc[n] \notin {"new", "done"}}

\* The variables have the values their declarations announce, and the WaitGroup
\* counts the notifications being handled: a counter below zero would panic.
TypeOK == ThreadTypeOK /\ MapTypeOK /\ wg = Cardinality(Pending)

\* The peer may announce addresses and no notification is under way.
CaughtUp == Up /\ enableAddressAnnouncement /\ wg = 0

\* Nobody is missed: when a peer has caught up, every client whose registration
\* has ended was announced, by its own handler, by a notification or by New,
\* however these interleaved.  A genesis peer covers its relay and delegate
\* clients, a joining one the stored addresses, delegate clients and mailboxes.
Covered == IF pc[New] = "joined" THEN Stored \cup Delegates \cup Mailboxes
                                 ELSE Relays \cup Delegates
NoneMissed ==
    CaughtUp => \A a \in Covered :
                    (a \in Registering => pc[a] = "done") => a \in addressAnnouncedMap

\* No registration is left waiting for notifications, and no two threads wait
\* for each other's lock or WaitGroup.
RegistrationsEnd ==
    \A a \in Registering : (pc[a] = "wait") ~> (pc[a] = "done" \/ pc[New] = "failed")
=============================================================================
