\* A trade in the last second of a month after 23:59:59.000 is left out of
\* that month's compliance report (financial-report.generator.ts:16).
CONSTANTS
  r1 = r1
  r2 = r2
  Requests <- MCRequests
  Formats = {"json"}
  MaxExports = 0
  MaxCrashes = 0
  WriteFaults = FALSE
  StartYear = 2023
  StartMonth = 11
  MaxMonths = 2
  MaxRows = 1
  LateTimes = {86399000, 86399500}
SPECIFICATION ServiceSpec
INVARIANT ReportCountsWholeMonth
