-------------------------- MODULE MCFindingWorkflow ---------------------------
(* Model-checking instances of FindingWorkflow: one or two pages, with      *)
(* interchangeable contents, issues and evidence.                           *)
EXTENDS FindingWorkflow, TLC

CONSTANTS d1, d2, c1, c2, stale, review, e1, e2

Symmetric ==
  Permutations(Doc) \cup Permutations(Content) \cup Permutations(Issue) \cup Permutations(Evidence)
===============================================================================
