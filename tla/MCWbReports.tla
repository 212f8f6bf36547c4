---------------------------- MODULE MCWbReports ----------------------------
(* Instances of WbReports for TLC.                                         *)
EXTENDS WbReports, TLC

CONSTANTS l1, l2, v1, v2

FirstIssue == (l1 :> v1) @@ (l2 :> v1)
Correction == l1 :> v2
BothFiles == {FirstIssue, Correction}
=============================================================================
