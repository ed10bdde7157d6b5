SPECIFICATION FairSpec
CONSTANTS
  t1 = t1
  t2 = t2
  t3 = t3
  s1 = s1
  s2 = s2
  a = a
  b = b
  path1 = path1
  path2 = path2
  Nil = Nil
  Transfers = {t1, t2}
  Sessions = {s1}
  Clients = {a}
  Paths = {path1, path2}
  SessionOf <- MCSessionOf
  ClientOf <- MCClientOf
  PathOf <- MCPathOf
  ChunksOf <- MCChunksOf
  WriteErrors = FALSE
PROPERTIES
  UploadsReclaimed
CHECK_DEADLOCK FALSE
