\* A create with two files races a delete; no call fails on its own.
SPECIFICATION Spec
CONSTANTS
  Job = {j1, j2}
  RecordId = {r1}
  AttId = {a1, a2}
  Text = {x1}
  Key = {k1}
  None = None
  Ops = {"create", "delete"}
  MaxPerRequest = 2
  MaxFaults = 0
  MayCancel = FALSE
  MayCrash = FALSE
SYMMETRY Symmetric
INVARIANTS NoOrphans
