\* Two writers of the same bytes at once.
SPECIFICATION Spec
CONSTANTS
  d1 = d1
  d2 = d2
  s2 = s2
  m1 = m1
  m2 = m2
  Nobody = nobody
  Downloads <- TwoDownloads
  Sends <- OneSend
  MsgOf <- SameBytes
  ContentOf <- Bytes
  MaxFailures = 0
  MaxCrashes = 0
INVARIANTS
  FilesAreWhole
CHECK_DEADLOCK FALSE
