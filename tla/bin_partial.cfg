\* An update with two files, one failing insert.
SPECIFICATION Spec
CONSTANTS
  Job = {j1}
  RecordId = {r1}
  AttId = {a1, a2}
  Text = {x1}
  Key = {k1}
  None = None
  Ops = {"create", "update"}
  MaxPerRequest = 2
  MaxFaults = 1
  MayCancel = FALSE
  MayCrash = FALSE
SYMMETRY Symmetric
CHECK_DEADLOCK FALSE
INVARIANTS FailedSaveLeavesNoRow
