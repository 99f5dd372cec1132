CONSTANTS
  n1 = n1
  n2 = n2
  t1 = t1
  t2 = t2
  b1 = b1
  x1 = x1
  r1 = r1
  r2 = r2
  h1 = h1
  h2 = h2
  None = None
  v1 = v1
  TaskIds = {t1}
  NodeIds = {n1, n2}
  BlockerIds = {b1}
  NextActions = {x1}
  ReceiptIds = {r1, r2}
  Handles = {h1, h2}
  Plans <- MCForkPlans
  Receipts <- MCReceipts
  ReceiptTuples <- MCVerification
  Revisions = {v1}
  MaxEvents = 4
  MaxCheckpoints = 2
SPECIFICATION Spec
INVARIANTS
  CheckpointIsDurable
PROPERTIES
  OpensUpToDate
CHECK_DEADLOCK FALSE
