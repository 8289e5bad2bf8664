\* Three frames over every kind of link, in any segments, each of them perhaps cut.
SPECIFICATION FairSpec
CONSTANTS
  Base = 3
  Messages <- MCMessages
  MaxSize = 2
  MaxFrames = 3
  MaxStarts = 3
INVARIANTS
  TypeOK
  NothingGarbled
  RecordsSurvive
PROPERTIES
  AllIsRead
CHECK_DEADLOCK FALSE
