SPECIFICATION Spec
CONSTANTS
  a = a
  b = b
  Chains = {a}
  Timetables = {t1}
  NoTT = NoTT
  Nobody = Nobody
  Runs <- InterruptAndStats
INVARIANT NoRequestLost
CHECK_DEADLOCK FALSE
