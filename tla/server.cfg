SPECIFICATION FairSpec
CONSTANTS
  c1 = c1
  c2 = c2
  t1 = t1
  t2 = t2
  Client = {c1, c2}
  Thread = {t1, t2}
  Nobody = Nobody
  Size <- Sizes
  MaxRead = 2
  Statements = 2
  MaxConnections = 1
  MaxFiles = 2
  Fault = {"port taken", "exception", "hang up"}
  MaxStarts = 2
  MaxOutages = 1
INVARIANTS
  TypeOK
  AnswersAreKept
  OnlyWholeRequests
  NoHalfRequests
  ConnectionsBounded
PROPERTIES
  StaysUp
  EverySenderServed
  DeafEngineEnds
