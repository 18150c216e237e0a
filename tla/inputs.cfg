SPECIFICATION MCSpec
CONSTANTS
  NoContract = NoContract
  MaxDepth = 5
  PytestTimeout = 60
  VisibilityTimeout = 300
  NormalForm <- Normalize
  SignatureOf <- Signature
  Dropped <- Unhashed
  Meets <- MCMeets
  Parsed <- Parse
  Rank <- Levels
  Schemas <- MCSchemas
  Documents <- AllDocuments
  Bodies <- MCBodies
  JsonValues <- MCJsonValues
  Requests <- MCRequests
  Swaggers <- MCSwaggers
  Reports <- MCReports
  Timeouts <- MCTimeouts
  Threads = {t1, t2}
  Limit = 1
  Window = 2
  MaxDelay = 2
  MaxTime = 4
  MaxHits = 3
CHECK_DEADLOCK FALSE
INVARIANTS
  HashDeterminesContract
  NarrowingIsSeen
  InliningKeepsTheMeaning
  CopiesAreShallow
  TargetsAreNotEmpty
  ConversionKeepsTheRequests
  CountersMatchTheEntries
  TimeIsOrdered
  QuotaIsExact
  LateOnesAreBounded
  RefusalsAreEarned
