------------------------ MODULE MC_ComplianceExport ------------------------
(* Model-checking instance of ComplianceExport: two concurrent requests. *)
EXTENDS ComplianceExport

CONSTANTS r1, r2

MCRequests == {r1, r2}
=============================================================================
