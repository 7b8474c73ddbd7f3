\* Every kind of request, two at a time, with one failing call, clients that
\* hang up, crashes and a changed key.
SPECIFICATION Spec
CONSTANTS
  Job = {j1, j2}
  RecordId = {r1, r2}
  AttId = {a1, a2}
  Text = {x1}
  Key = {k1, k2}
  None = None
  Ops = {"create", "update", "delete", "detach", "download"}
  MaxPerRequest = 2
  MaxFaults = 1
  MayCancel = TRUE
  MayCrash = TRUE
SYMMETRY Symmetric
INVARIANTS
  StoreInvariant FilesInvariant RowHasFile RowHasRecord EveryFileAccounted
  LostIsDead MissingMeansDeleted
PROPERTIES UndecryptableKept Implements
