SPECIFICATION FairSpec
CONSTANTS
  AlgorithmCount = 1
  Timetables = {t1}
  NoTT = NoTT
  Observers = {}
PROPERTY DestructorReturns
CHECK_DEADLOCK FALSE
