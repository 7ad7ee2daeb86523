SPECIFICATION Spec
CONSTANTS
  CommandLines <- MCCommandLines
  Files <- MCFiles
  Directories <- MCDirectories
  Sizes <- MCSizes
  Timeouts <- MCTimeouts
  Readings <- MCReadings
  Contents <- MCContents
  Packets <- MCPackets
  RhTerms <- MCRhTerms
  MaxCommands = 2
  Null = Null
  Malformed = Malformed
INVARIANTS  OpenAsLongAsUsed AnswersAreExplained RelationsAgree
CHECK_DEADLOCK FALSE
