CONSTANTS
  n1 = n1
  n2 = n2
  t1 = t1
  t2 = t2
  b1 = b1
  x1 = x1
  r1 = r1
  r2 = r2
  h1 = h1
  h2 = h2
  None = None
  v1 = v1
  TaskIds = {t1, t2}
  NodeIds = {n1, n2}
  BlockerIds = {b1}
  NextActions = {}
  ReceiptIds = {r1, r2}
  Handles = {h1, h2}
  Plans <- MCPlans
  Receipts <- MCReceipts
  ReceiptTuples <- MCReceiptTuples
  Revisions = {}
  MaxEvents = 6
  MaxCheckpoints = 1
SPECIFICATION Spec
INVARIANTS
  TypeOK
  EventsAreNumbered
  PublishedIsDurable
  CompletedIsEvidenced
  DependenciesComeFirst
  StatesDeserialize
  ResumeNeverRefused
  HistoryIsReplay
PROPERTIES
  ReceiptsAreImmutable
  ImplementsTaskBoard
CHECK_DEADLOCK FALSE
