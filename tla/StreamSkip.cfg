\* Two emitters publish in the other order than they appended.
SPECIFICATION Spec
CONSTANTS
  e1 = e1
  e2 = e2
  c1 = c1
  c2 = c2
  Emitters <- TwoEmitters
  Clients <- OneClient
  Backend = "sqlite"
  BufSize = 2
  ReplayBatch = 2
  MaxSeq = 2
  MaxDrops = 0
  MaxRestarts = 0
PROPERTIES
  SkipsOnlyReplayed
CHECK_DEADLOCK FALSE
