SPECIFICATION FairSpec
CONSTANTS
  d1 = d1
  d2 = d2
  a = a
  Nil = Nil
  Calls = {d1}
  Clients = {a}
  ClientOf <- OneClient
  CHUNK_SIZE = 2
  Sizes = {0, 1, 2, 3, 5}
  MaxSize = 5
  ReadErrors = TRUE
INVARIANTS
  DownloadTypeOK
  DownloadExact
PROPERTIES
  DownloadsReclaimed
CHECK_DEADLOCK FALSE
