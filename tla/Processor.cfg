SPECIFICATION FairSpec
CONSTANTS
  Inputs <- Scripts
  MaxCommands = 4
  InCapacity = 1
  OutCapacity = 1
  Nothing = Nothing
INVARIANTS AnsweredOnce ReportIsLast InOrder DrainedAtExit
PROPERTIES CloseCompletes RequestAnswered
CHECK_DEADLOCK FALSE
