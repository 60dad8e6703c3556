----------------------------- MODULE MCPaidLedger -----------------------------
(* PaidLedger on small instances; the .cfg files choose the instance.       *)
EXTENDS PaidLedger, TLC

Symmetry == Permutations(Jobs) \cup Permutations(Passes) \cup Permutations(Requests)

===============================================================================
