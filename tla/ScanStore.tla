------------------------------- MODULE ScanStore -------------------------------
(***************************************************************************)
(* SqliteStorage as the scan attempts see it: the one row of scan_state    *)
(* (the lease), the scans table, and the documents and audit_results rows  *)
(* that belong to each scan.  Every operator below is one SQL transaction  *)
(* of storage/sqlite.py; ScanRuns is the program that issues them.         *)
(*                                                                         *)
(* Time.  The code compares lease_expires_at with a "now" the caller read  *)
(* before it queued for the write lock.  The model keeps the time left     *)
(* (lease.ttl) instead of the two timestamps, and passes to each operation *)
(* the age d of the caller's "now": lease_expires_at > now is ttl + d > 0. *)
(*                                                                         *)
(* Tokens.  try_start_scan draws a fresh uuid and an attempt calls it      *)
(* once, so an attempt stands for its own token.  in_progress = 1 and a    *)
(* non-NULL owner_token and lease_expires_at are always written together:  *)
(* all three are "lease.owner # None".                                     *)
(***************************************************************************)
EXTENDS Integers, FiniteSets

CONSTANTS
  Attempt,        \* scan attempts: one CLI invocation, one POST /api/scans
  Unleased,       \* the attempts that run without an owner token
  Doc,            \* document ids a source may return
  LeaseDuration,  \* LEASE_DURATION_SECONDS, in ticks
  MaxDelay,       \* bound: most ticks between reading the clock and the write
  Keep,           \* prune_scans(keep=...)
  None            \* SQL NULL

ASSUME LeaseAssumption ==
  /\ LeaseDuration \in Nat /\ MaxDelay \in Nat /\ MaxDelay < LeaseDuration
ASSUME StoreAssumption ==
  /\ Unleased \subseteq Attempt
  /\ None \notin Attempt /\ None \notin Nat
  /\ Keep \in Nat \ {0}

VARIABLES
  lease,      \* scan_state: owner_token and the time left of lease_expires_at
  lastScan,   \* scan_state.last_scan_id
  scans,      \* scan id -> its scans row with the ids of its child rows
  seq         \* sqlite_sequence: the last scan id handed out

storeVars == <<lease, lastScan, scans, seq>>

Row == [status : {"running", "completed", "failed"},
        owner  : Attempt \cup {None},
        docs   : SUBSET Doc,     \* documents.id of this scan
        results: SUBSET Doc]     \* audit_results.document_id of this scan

NoLease == [owner |-> None, ttl |-> 0]

StoreTypeOK ==
  /\ lease \in [owner : Attempt \cup {None}, ttl : Int]
  /\ lastScan \in Nat \cup {None}
  /\ seq \in Nat
  /\ DOMAIN scans \subseteq 1..seq
  /\ scans \in [DOMAIN scans -> Row]

StoreInit ==
  /\ lease = NoLease
  /\ lastScan = None
  /\ scans = [i \in {} |-> None]
  /\ seq = 0

-------------------------------------------------------------------------------
(* What the queries of the store select.                                   *)

Token(a) == IF a \in Unleased THEN None ELSE a

LiveAt(d) == lease.owner # None /\ lease.ttl + d > 0

(* Mutation: the owner is compared and the expiry is not.                  *)
HoldsAt_IgnoresExpiry(a, d) == lease.owner = a


HoldsAt(a, d) == lease.owner = a /\ lease.ttl + d > 0

IsRunning(i) == i \in DOMAIN scans /\ scans[i].status = "running"

IsTerminal(i) == i \in DOMAIN scans /\ scans[i].status \in {"completed", "failed"}

UnleasedRunning == \E i \in DOMAIN scans : IsRunning(i) /\ scans[i].owner = None

(* The most recent completed scan: a set with that id, or the empty set.   *)
Latest ==
  {i \in DOMAIN scans : /\ scans[i].status = "completed"
                        /\ \A j \in DOMAIN scans : scans[j].status = "completed" => j <= i}

(* Mutation: the hashes of every scan, completed or not.                   *)
LatestDocs_AnyScan == UNION {scans[i].docs : i \in DOMAIN scans}

(* get_previous_hashes: the documents whose hash a new scan can find unchanged. *)
LatestDocs == UNION {scans[i].docs : i \in Latest}

LatestResults == UNION {scans[i].results : i \in Latest}

(* Mutation: the lease is not checked, only the scan.                      *)
MayWrite_NoLease(a, i, d) == IsRunning(i) /\ scans[i].owner = Token(a)

(* The guard of every write of a scan: a leased one must hold a live lease *)
(* and the scan must still be running under the writer's token.            *)
MayWrite(a, i, d) ==
  /\ a \in Unleased \/ HoldsAt(a, d)
  /\ IsRunning(i)
  /\ scans[i].owner = Token(a)

-------------------------------------------------------------------------------
(* The transactions.                                                       *)

(* Mutation: audit_results are not deleted.                                *)
Failed_KeepsResults(row) == [row EXCEPT !.status = "failed", !.docs = {}]


Failed(row) == [row EXCEPT !.status = "failed", !.docs = {}, !.results = {}]

(* Running scans of the expired owner are failed, and their rows deleted.  *)
Abandoned(token) ==
  [i \in DOMAIN scans |->
     IF IsRunning(i) /\ scans[i].owner = token THEN Failed(scans[i]) ELSE scans[i]]

(* Mutation: unleased scans are not looked for.                            *)
MayAcquire_IgnoresUnleased(d) == ~LiveAt(d)


MayAcquire(d) == ~LiveAt(d) /\ ~UnleasedRunning

(* Mutation: the scans of the expired owner are left alone.                *)
AcquireLease_NoCleanup(a, d) ==
  /\ MayAcquire(d)
  /\ lease' = [owner |-> a, ttl |-> LeaseDuration - d]
  /\ UNCHANGED <<lastScan, scans, seq>>


AcquireLease(a, d) ==
  /\ MayAcquire(d)
  /\ scans' = IF lease.owner # None THEN Abandoned(lease.owner) ELSE scans
  /\ lease' = [owner |-> a, ttl |-> LeaseDuration - d]
  /\ UNCHANGED <<lastScan, seq>>

RenewedLease(a, d) == [owner |-> a, ttl |-> LeaseDuration - d]

(* Mutation: any lease is released, not only the caller's.                 *)
ReleaseLease_AnyOwner(a, last, d) ==
  /\ lease' = NoLease
  /\ lastScan' = last
  /\ UNCHANGED <<scans, seq>>


ReleaseLease(a, last, d) ==
  /\ HoldsAt(a, d)
  /\ lease' = NoLease
  /\ lastScan' = last
  /\ UNCHANGED <<scans, seq>>

MayStart(a, d) == IF a \in Unleased THEN ~LiveAt(d) ELSE HoldsAt(a, d)

InsertScan(a) ==
  /\ seq' = seq + 1
  /\ scans' = [i \in DOMAIN scans \cup {seq + 1} |->
                 IF i = seq + 1
                 THEN [status |-> "running", owner |-> Token(a), docs |-> {}, results |-> {}]
                 ELSE scans[i]]
  /\ UNCHANGED <<lease, lastScan>>

(* Every write of a running scan rewrites its row and nothing else.        *)
WriteScan(i, row) ==
  /\ scans' = [scans EXCEPT ![i] = row]
  /\ UNCHANGED <<lease, lastScan, seq>>

WithDoc(row, doc) == [row EXCEPT !.docs = @ \cup {doc}]

WithResult(row, doc) == [row EXCEPT !.results = @ \cup {doc}]

(* carry_forward_results copies the rows the latest completed scan has NOW. *)
WithCarried(row, skipped) == [row EXCEPT !.results = @ \cup (skipped \cap LatestResults)]

Completed(row) == [row EXCEPT !.status = "completed"]

(* prune_scans deletes the terminal scans older than the keep-th newest one. *)
Retained(i) ==
  IsTerminal(i) => Cardinality({j \in DOMAIN scans : IsTerminal(j) /\ j > i}) < Keep

PruneScans ==
  /\ scans' = [i \in {j \in DOMAIN scans : Retained(j)} |-> scans[i]]
  /\ UNCHANGED <<lease, lastScan, seq>>

(* Mutation: running scans are spared, the id sequence is not.             *)
ClearAllIfIdle_SparesRunning(d) ==
  /\ ~LiveAt(d)
  /\ lease' = NoLease
  /\ lastScan' = None
  /\ scans' = [i \in {j \in DOMAIN scans : IsRunning(j)} |-> scans[i]]
  /\ seq' = 0

(* DELETE /api/scans and the demo command.                                 *)
ClearAllIfIdle(d) ==
  /\ ~LiveAt(d)
  /\ lease' = NoLease
  /\ lastScan' = None
  /\ scans' = [i \in {} |-> None]
  /\ seq' = 0
===============================================================================
