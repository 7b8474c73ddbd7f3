\* Two handlers, a network that fails, a server that crashes, a pager, reloads
\* that overlap with events and with each other.
SPECIFICATION SyncSpec
CONSTANTS
  Job = {j1, j2}
  RecordId = {r1}
  AttId = {a1}
  Text = {x1}
  Key = {k1}
  None = None
  Ops = {"create", "delete"}
  MaxPerRequest = 1
  MaxFaults = 0
  MayCancel = FALSE
  MayCrash = TRUE
  MayDisconnect = TRUE
  MayTurn = TRUE
INVARIANTS SyncInvariant Announced UpToDate
PROPERTIES ConvergesUnlessMissed
