SPECIFICATION FairSpec
CONSTANTS
  a = a
  b = b
  Chains = {a, b}
  Timetables = {t1}
  NoTT = NoTT
  Nobody = Nobody
  Runs <- Any
INVARIANTS NeverRefused SuccessHasTimetable
  InterruptedNotSucceeded OneSidedOnlyIfLate
PROPERTIES ImplementsControllerSpec PlacedIsAnswered StoppedFinishes
CHECK_DEADLOCK FALSE
