\* Two updates of one record, one failing insert.
SPECIFICATION Spec
CONSTANTS
  Job = {j1, j2}
  RecordId = {r1}
  AttId = {a1}
  Text = {x1, x2}
  Key = {k1}
  None = None
  Ops = {"create", "update"}
  MaxPerRequest = 1
  MaxFaults = 1
  MayCancel = FALSE
  MayCrash = FALSE
SYMMETRY Symmetric
CHECK_DEADLOCK FALSE
PROPERTIES LastSaveWins
