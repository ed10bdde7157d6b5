SPECIFICATION Spec
CONSTANTS
  t1 = t1
  t2 = t2
  t3 = t3
  s1 = s1
  s2 = s2
  a = a
  b = b
  path1 = path1
  path2 = path2
  Nil = Nil
  Transfers = {t2, t3}
  Sessions = {s1, s2}
  Clients = {a, b}
  Paths = {path1}
  SessionOf <- MCSessionOf
  ClientOf <- MCClientOf
  PathOf <- MCPathOf
  ChunksOf <- MCChunksOf
  WriteErrors = TRUE
INVARIANTS
  UploadTypeOK
  ChunksInOrder
  UploadExact
  FinalIsWhole
CHECK_DEADLOCK FALSE
