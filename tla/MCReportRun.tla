----------------------------- MODULE MCReportRun -----------------------------
(* ReportRun on small instances; the .cfg files choose the instance.         *)
EXTENDS ReportRun, TLC

Symmetry == Permutations(Prints)
=============================================================================
