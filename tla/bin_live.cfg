\* Liveness of the handlers, with hang-ups, crashes and a failing call.
SPECIFICATION FairSpec
CONSTANTS
  Job = {j1, j2}
  RecordId = {r1}
  AttId = {a1, a2}
  Text = {x1}
  Key = {k1}
  None = None
  Ops = {"create", "update", "delete", "detach", "download"}
  MaxPerRequest = 1
  MaxFaults = 1
  MayCancel = TRUE
  MayCrash = TRUE
PROPERTIES Answered DeletedFileGoes
