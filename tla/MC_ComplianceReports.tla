----------------------- MODULE MC_ComplianceReports -----------------------
(* Model-checking instance of ComplianceReports: two concurrent export     *)
(* requests next to the monthly report cron.                               *)
EXTENDS ComplianceReports

CONSTANTS r1, r2

MCRequests == {r1, r2}
=============================================================================
