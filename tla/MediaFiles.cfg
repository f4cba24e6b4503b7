\* A message that comes twice, and the same bytes sent.
SPECIFICATION Spec
CONSTANTS
  d1 = d1
  d2 = d2
  s2 = s2
  m1 = m1
  m2 = m2
  Nobody = nobody
  Downloads <- TwoDownloads
  Sends <- OneSend
  MsgOf <- SameBytes
  ContentOf <- Bytes
  MaxFailures = 2
  MaxCrashes = 1
INVARIANTS
  TypeOK
  WholeUnlessShared
  RowsHaveFiles
  SharingHeals
  MediaIsListed
PROPERTIES
  ReadersSeeWhole
CHECK_DEADLOCK FALSE
