--------------------------- MODULE MCPgTransactions ---------------------------
(* Model-checking instances of PgTransactions.                             *)
EXTENDS PgTransactions, TLC

CONSTANTS w1, w2, c1, c2, f1, f2, e1, e2

Symmetric == Permutations(Worker) \cup Permutations(Client)
               \cup Permutations(Finding) \cup Permutations(Evidence)
===============================================================================
