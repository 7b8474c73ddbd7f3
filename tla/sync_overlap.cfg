\* An event arrives while a reload is in flight.
SPECIFICATION SyncSpec
CONSTANTS
  Job = {j1, j2}
  RecordId = {r1}
  AttId = {}
  Text = {x1, x2}
  Key = {k1}
  None = None
  Ops = {"create", "update"}
  MaxPerRequest = 0
  MaxFaults = 0
  MayCancel = FALSE
  MayCrash = FALSE
  MayDisconnect = FALSE
  MayTurn = FALSE
PROPERTIES Converges
