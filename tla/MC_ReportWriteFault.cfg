\* A failing writeFile of the monthly report is only logged and never
\* retried, so that month has no report (compliance.service.ts:95).
CONSTANTS
  r1 = r1
  r2 = r2
  Requests <- MCRequests
  Formats = {"json"}
  MaxExports = 0
  MaxCrashes = 0
  WriteFaults = TRUE
  StartYear = 2023
  StartMonth = 11
  MaxMonths = 2
  MaxRows = 1
  LateTimes = {86399000, 86399500}
SPECIFICATION ServiceSpec
PROPERTY MonthlyReportWritten
