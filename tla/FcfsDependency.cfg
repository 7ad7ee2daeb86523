SPECIFICATION Spec
CONSTANTS
  n1 = n1
  n2 = n2
  n3 = n3
  n4 = n4
  JobIds <- FourJobIds
  Nodes <- MCNodes
  Part <- MCPart
  Gangs = {"g", "h"}
  NoGang = ""
  Inputs <- DelayedGang
INVARIANT DependenciesEndFirst
CHECK_DEADLOCK FALSE
