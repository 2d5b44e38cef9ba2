------------------------------ MODULE MCScanRuns ------------------------------
(* Model-checking instances of ScanRuns: a few attempts, interchangeable    *)
(* except for whether they are leased, and interchangeable documents.       *)
EXTENDS ScanRuns, TLC

CONSTANTS a1, a2, u1, d1, d2

Symmetric == Permutations(Attempt \ Unleased) \cup Permutations(Doc)
===============================================================================
