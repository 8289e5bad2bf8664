\* A peer, genesis or joining: clients register while it starts and is notified.
SPECIFICATION FairSpec
CONSTANTS
  Relays = {ra}
  Stored = {rs}
  Delegates = {da}
  Mailboxes = {ba}
  Mine = {ma}
  Notifs = {n1}
  New = New
  NoAddr = NoAddr
INVARIANTS
  TypeOK
  NoneMissed
PROPERTIES
  RegistrationsEnd
CHECK_DEADLOCK FALSE
