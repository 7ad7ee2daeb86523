SPECIFICATION Spec
CONSTANTS
  a = a
  b = b
  Chains = {a, b}
  Timetables = {t1}
  NoTT = NoTT
  Nobody = Nobody
  Runs <- ExchangeOnly
INVARIANT TakenBeforePeerInjects
CHECK_DEADLOCK FALSE
