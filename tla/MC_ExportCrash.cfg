\* A restart drops the deletion timers; the export files stay on disk.
CONSTANTS
  r1 = r1
  r2 = r2
  Requests <- MCRequests
  Formats = {"json", "csv", "pdf"}
  MaxExports = 3
  MaxCrashes = 1
  WriteFaults = FALSE
SPECIFICATION Spec
PROPERTY ExportEventuallyDeleted
