SPECIFICATION FairSpec
CONSTANTS
  AlgorithmCount = 2
  Timetables = {t1, t2}
  NoTT = NoTT
  Observers = {o1}
INVARIANTS ImprovesActual FinishedHasTimetable ReadyMeansAccepted
  IntermediateIsCurrent
PROPERTIES TimetableNeverLost ImplementsChainSpec
  InterruptionStops InjectionServed
CHECK_DEADLOCK FALSE
