SPECIFICATION Spec
CONSTANTS
  n1 = n1
  n2 = n2
  n3 = n3
  n4 = n4
  JobIds <- MCJobIds
  Nodes <- MCNodes
  Part <- MCPart
  Gangs = {"g", "h"}
  NoGang = ""
  Inputs <- MCInputs
INVARIANTS NoDoubleBooking GangStartsTogether DependenciesWithoutGang
PROPERTIES PreferenceIsFree
CHECK_DEADLOCK FALSE
