\* One goroutine emits: no event is lost, skipped or reordered.
SPECIFICATION FairSpec
CONSTANTS
  e1 = e1
  e2 = e2
  c1 = c1
  c2 = c2
  Emitters <- OneEmitter
  Clients <- TwoClients
  Backend = "sqlite"
  BufSize = 1
  ReplayBatch = 2
  MaxSeq = 3
  MaxDrops = 1
  MaxRestarts = 1
INVARIANTS
  TypeOK
  NoGap
  ResumeLosesNothing
  NoLeakedSubscription
  OpenWhileSubscribed
PROPERTIES
  ImplementsFeed
  CursorMovesBackOnlyToStart
  EveryEventArrives
CHECK_DEADLOCK FALSE
