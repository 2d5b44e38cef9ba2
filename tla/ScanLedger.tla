------------------------------ MODULE ScanLedger ------------------------------
(***************************************************************************)
(* What the scan store promises about the scans of a database, without     *)
(* leases, clocks, rows or workers: a ledger with one entry per scan       *)
(* attempt.  One attempt at a time is running; a running attempt gets one  *)
(* outcome and keeps it until its rows are discarded, by retention (which  *)
(* never takes a running one) or by clearing the whole database.           *)
(*                                                                         *)
(* ScanRuns implements this specification (ScanRuns!LedgerSpec).           *)
(***************************************************************************)
CONSTANT Attempt

VARIABLE outcome

Outcome == {"none", "running", "completed", "failed", "gone"}

Init == outcome = [a \in Attempt |-> "none"]

(* An attempt starts its scan only when no other scan is running.          *)
Begin(a) ==
  /\ outcome[a] = "none"
  /\ \A b \in Attempt : outcome[b] # "running"
  /\ outcome' = [outcome EXCEPT ![a] = "running"]

(* The running scan reaches its one terminal state.                        *)
Finish(a, result) ==
  /\ outcome[a] = "running"
  /\ outcome' = [outcome EXCEPT ![a] = result]

(* Retention deletes some finished scans.                                  *)
Prune(old) ==
  /\ \A a \in old : outcome[a] \in {"completed", "failed"}
  /\ outcome' = [a \in Attempt |-> IF a \in old THEN "gone" ELSE outcome[a]]

(* Clearing the database deletes every scan there is.                      *)
Clear ==
  outcome' = [a \in Attempt |-> IF outcome[a] = "none" THEN "none" ELSE "gone"]

Next ==
  \/ \E a \in Attempt : Begin(a)
  \/ \E a \in Attempt, result \in {"completed", "failed"} : Finish(a, result)
  \/ \E old \in SUBSET Attempt : Prune(old)
  \/ Clear

Spec == Init /\ [][Next]_outcome
===============================================================================
