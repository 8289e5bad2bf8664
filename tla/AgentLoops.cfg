\* The agent writes, answers late or never, and goes at any time.
SPECIFICATION FairSpec
CONSTANTS
  SendQueueSize = 1
  OutQueueSize = 1
  StatusQueueSize = 1
  MaxFromAgent = 3
  Script <- MCScript
  MaxIncoming = 2
INVARIANTS
  TypeOK
  AckedIsKept
  StatusDrift
PROPERTIES
  AckedIsRouted
  AgentGoneEndsLoops
CHECK_DEADLOCK FALSE
