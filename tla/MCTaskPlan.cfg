CONSTANTS
  a = a
  b = b
  c = c
  NodeIds <- MCNodeIds
  NodeLists <- MCNodeLists
SPECIFICATION Spec
INVARIANTS
  TypeOK
  AcceptedIsValid
  RejectedIsInvalid
  VerdictIsReachability
PROPERTIES
  ValidationEnds
CHECK_DEADLOCK FALSE
