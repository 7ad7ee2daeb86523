SPECIFICATION FairSpec
CONSTANTS
  Streams <- Scripts
  Uid = "1"
  Named = "42"
  MaxCommands = 4
  InCapacity = 1
  OutCapacity = 1
  Nothing = Nothing
INVARIANTS EndsTogether SentAtEnd
PROPERTIES DrivesProcessor ServiceEnds
CHECK_DEADLOCK FALSE
