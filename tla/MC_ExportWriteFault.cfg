\* writeFile rejects after creating the file: no timer is armed.
CONSTANTS
  r1 = r1
  r2 = r2
  Requests <- MCRequests
  Formats = {"json", "csv", "pdf"}
  MaxExports = 3
  MaxCrashes = 0
  WriteFaults = TRUE
SPECIFICATION Spec
PROPERTY ExportEventuallyDeleted
