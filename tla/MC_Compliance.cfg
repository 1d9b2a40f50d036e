\* Exports with one restart, and the monthly reports the clock produces from
\* December 2023 to March 2024 (a year end and a leap February).
CONSTANTS
  r1 = r1
  r2 = r2
  Requests <- MCRequests
  Formats = {"json", "pdf"}
  MaxExports = 1
  MaxCrashes = 1
  WriteFaults = FALSE
  StartYear = 2023
  StartMonth = 11
  MaxMonths = 3
  MaxRows = 1
  LateTimes = {86399500}
SPECIFICATION ServiceSpec
INVARIANT ReportHoldsItsMonth
PROPERTY KeptForRetention
PROPERTY ExportDeletedUnlessRestart
PROPERTY MonthlyReportWritten
