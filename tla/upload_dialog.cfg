\* One form, one file that fits, chosen in the dialog or dropped.
SPECIFICATION FormSpec
CONSTANTS
  File = {"small"}
  Bytes <- MCBytes
  ContentBytes = {1}
  MAX_ATTACHMENTS_PER_RECORD = 2
  AttachmentLimits = {2}
  MAX_REQUEST_BYTES = 8
  MAX_CONTENT_BYTES = 1
  Overhead = 1
  MaxParts = 1
  MaxSaves = 1
  NoFile = "none"
INVARIANT SavesWhatIsShown
CHECK_DEADLOCK FALSE
