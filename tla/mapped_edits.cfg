SPECIFICATION StorageSpec
CONSTANTS
  Parts = {"table"}
  Process = {p1, p2}
  Thread = {t1, t2}
  MaxRev = 2
  MaxMeta = 1
  CliDevice = {"r"}
  CliProc = {1, 2}
  CliDir = {"d1"}
  CliBounds <- CliScopes
  Space = {"s", "u"}
  Peer = {"p"}
  Task = {1}
  Retain = 2
  ManagerScopes <- SerialScopes
  KeyProc = {1, 2}
  MaxKey = 3
  KeyBounds <- KeyScopes
  LinkDevice = {1, 2, 3}
  LinksOverlap = FALSE
  MaxLinks = 2
  MaxCert = 2
  MergeDevice = {1, 2}
  RecordId = {1, 2}
  MergeBounds <- MergeScopes
  TableDevice = {1, 2}
  TableBounds <- RowScopes
  SqliteDevice = {1, 2}
  SqliteWriters = {1}
  SqliteModes = {"wal", "watched"}
  MaxPages = 2
  MaxEdit = 2
PROPERTY EditsSurvive
CHECK_DEADLOCK FALSE
