SPECIFICATION AccountingSpec
CONSTANTS
  Threads = {t1, t2}
  Clients = {t1, t2}
  Free = Free
  MaxClock = 3
  IntIds = {i}
  DoubleIds = {d}
  Nothing = Nothing
  MaxChanges = 2
INVARIANTS TimesAddUp WorkingIsExact EventsExplainValues
CHECK_DEADLOCK FALSE
