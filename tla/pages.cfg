\* The list: two writers, two records, pages of none, one and two, page numbers
\* and sizes that overflow an integer of five bits.  The form: three files, one
\* of them too large, two files to a form, forms that are too large in every
\* way, two forms sent.
SPECIFICATION PagesSpec
CONSTANTS
  Writer = {w1, w2}
  RecordId = {1, 2}
  PageSizes = {0, 1, 2}
  AskedPages <- MCPages
  AskedSizes <- MCSizes
  Half = 16
  MAX_VARIABLES = 1
  MaxTime = 1
  None = None
  File = {"small", "full", "large"}
  Bytes <- MCBytes
  ContentBytes = {1, 2}
  MAX_ATTACHMENTS_PER_RECORD = 2
  AttachmentLimits = {0, 2}
  MAX_REQUEST_BYTES = 8
  MAX_CONTENT_BYTES = 1
  Overhead = 1
  MaxParts = 2
  MaxSaves = 2
  NoFile = "none"
SYMMETRY Symmetric
INVARIANTS ListInvariant WalkComplete NewestOnTop FormTypeOK SavesWhatWasDropped ScriptAgrees StoredWithinLimits ShortByLastWrite DownloadIsUpload
PROPERTIES PageIsSlice BlankMeansEmpty
