\* Two goroutines emit into Postgres, whose rows commit out of order.
SPECIFICATION Spec
CONSTANTS
  e1 = e1
  e2 = e2
  c1 = c1
  c2 = c2
  Emitters <- TwoEmitters
  Clients <- OneClient
  Backend = "postgres"
  BufSize = 2
  ReplayBatch = 2
  MaxSeq = 3
  MaxDrops = 1
  MaxRestarts = 1
SYMMETRY Symmetry
INVARIANTS
  Durable
  InOrder
CHECK_DEADLOCK FALSE
