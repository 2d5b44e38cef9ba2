---------------------------- MODULE PgTransactions ----------------------------
(***************************************************************************)
(* PostgresStorage, statement by statement.  SQLite serializes writers     *)
(* with one lock; here a transaction takes its row and table locks one     *)
(* statement at a time, at READ COMMITTED, and other sessions run between  *)
(* two statements.  A worker is the connection of one leased scan; a       *)
(* client is any other connection: the renewal thread's, a web request's   *)
(* or a command's.  A connection first runs the schema DDL of connect(),   *)
(* whose CREATE INDEX IF NOT EXISTS locks tables that already have the     *)
(* index; the workers here are connected from the start.                   *)
(*                                                                         *)
(* call[s] is the storage method session s is in or about to call, and     *)
(* at[s] its next statement.  The locks a session holds are those of the   *)
(* statements before at[s]; what it wrote becomes visible in the step that *)
(* commits.                                                                *)
(*                                                                         *)
(* A worker stands for its owner token and for its one scan.  Lease time   *)
(* is left out: a lease expires at any time, and early[s] says that it did *)
(* so after session s read the "now" its method compares the expiry with.  *)
(***************************************************************************)
EXTENDS Integers, FiniteSets, Sequences, SequencesExt

CONSTANTS
  Worker,      \* owner tokens of leased scans
  Client,      \* other connections
  Finding,     \* finding keys, one per document; every scan fetches them all
  Evidence,    \* evidence hashes
  Target,      \* states reviewers ask for
  Reason,      \* whether they give a dismissal_reason with them
  Keep,        \* prune_scans(keep=...)
  MaxRequests, \* bound: requests made by clients, those that are no review counted twice
  Faults,      \* whether a statement or a process may fail for other reasons
  None

Table == {"scan_state", "scans", "documents", "audit_results", "finding_workflow"}

(* accepted_risk is treated as dismissed is.                               *)
State == {"open", "acknowledged", "snoozed", "dismissed", "fixed"}

FindingRow == [state : State, hash : Evidence, until : {None, "ahead", "over"}, seen : Worker]

(* What a statement locks is named by its table or by the finding's key.   *)
ASSUME PgAssumption ==
  /\ Worker \cap Client = {} /\ None \notin Worker \cup Client \cup Evidence \cup FindingRow
  /\ IsFiniteSet(Finding) /\ Finding \cap (Table \cup {"others", None}) = {}
  /\ Keep \in Nat \ {0} /\ MaxRequests \in Nat /\ Faults \in BOOLEAN
  /\ Target \subseteq State /\ Reason \subseteq BOOLEAN

VARIABLES
  lease,     \* the scan_state row: owner_token, and whether its expiry is ahead
  scans,     \* the scans row of each worker: its status
  rows,      \* which child tables have rows of that scan
  order,     \* the ids of the scans: workers in the order they started theirs
  finding,   \* finding_workflow: key -> row
  call, at, early,
  read,      \* what the sync of session s selected from finding_workflow
  results,   \* what the completing scan of a worker found: key -> evidence hash
  request,   \* what a client's connection is for
  served     \* requests made so far, as the bound counts them

data == <<lease, scans, rows, order, finding>>
vars == <<data, call, at, early, read, results, request, served>>

Session == Worker \cup Client
Terminal == {"dismissed", "fixed"}
Request ==
  [op : {"renew_lease"}, token : Worker]
    \cup [op : {"update_workflow"}, key : Finding, state : Target, reason : Reason]
    \cup [op : {"clear_all_if_idle", "get_scan_state"}]

WorkerCall == {"try_start_scan", "start_scan", "get_previous_hashes",
  "store_document", "store_result", "complete_scan_with_findings", "prune_scans", "fail_scan",
  "end_scan", "done"}
ClientCall == {"closed", "connect"} \cup {r.op : r \in Request}

(* Every variable keeps its type, and a lease that is ahead has an owner.   *)
TypeOK ==
  /\ lease \in [owner : Worker \cup {None}, live : BOOLEAN]
  /\ lease.owner = None => ~lease.live
  /\ scans \in [Worker -> {"none", "running", "completed", "failed", "gone"}]
  /\ rows \in [Worker -> SUBSET {"documents", "audit_results"}]
  /\ order \in Seq(Worker)
  /\ DOMAIN finding \subseteq Finding /\ finding \in [DOMAIN finding -> FindingRow]
  /\ DOMAIN call = Session /\ DOMAIN results = Worker /\ DOMAIN read = Worker
  /\ \A w \in Worker : call[w] \in WorkerCall
  /\ \A c \in Client : call[c] \in ClientCall
  /\ request \in [Client -> Request \cup {None}]
  /\ at \in [Session -> Nat \ {0}] /\ early \in [Session -> BOOLEAN]
  /\ \A w \in Worker : /\ DOMAIN results[w] \subseteq Finding
                       /\ results[w] \in [DOMAIN results[w] -> Evidence]
                       /\ DOMAIN read[w] \subseteq Finding
                       /\ read[w] \in [DOMAIN read[w] -> FindingRow \cup {None}]
  /\ served \in 0..MaxRequests

Nothing == [x \in {} |-> None]

Init ==
  /\ lease = [owner |-> None, live |-> FALSE]
  /\ scans = [w \in Worker |-> "none"]
  /\ rows = [w \in Worker |-> {}]
  /\ order = <<>>
  /\ finding = Nothing
  /\ call = [s \in Session |-> IF s \in Worker THEN "try_start_scan" ELSE "closed"]
  /\ at = [s \in Session |-> 1]
  /\ early = [s \in Session |-> FALSE]
  /\ read = [w \in Worker |-> Nothing]
  /\ results = [w \in Worker |-> Nothing]
  /\ request = [c \in Client |-> None]
  /\ served = 0

-------------------------------------------------------------------------------
(* The statements of each transaction, as what each must lock: a row       *)
(* ("own"), a table for writing ("write", ROW EXCLUSIVE) or a table for    *)
(* CREATE INDEX ("share", SHARE).  "select" locks nothing.                 *)

LeaseRow == <<"scan_state", "own">>

SchemaDDL ==
  << <<"scans", "share">>, <<"documents", "share">>, <<"audit_results", "share">>,
     <<"finding_workflow", "share">> >>

ScanRows == << <<"audit_results", "write">>, <<"documents", "write">>, <<"scans", "write">> >>

(* Updating a finding.                                                     *)
Touch(f) == << <<"finding_workflow", "write">>, <<f, "own">> >>

(* One SELECT and one write for each result, then one SELECT for the rest  *)
(* of the scanned documents' findings and a write for each of those.       *)
SyncStatements(res) ==
  LET detected == SetToSeq(DOMAIN res)
      others == SetToSeq(Finding \ DOMAIN res)
      Sync(f) == << <<f, "select">>, Touch(f)[1], Touch(f)[2]>>
  IN [i \in 1..(3 * Len(detected)) |-> Sync(detected[(i + 2) \div 3])[((i - 1) % 3) + 1]]
       \o << <<"others", "select">> >>
       \o [i \in 1..(2 * Len(others)) |-> Touch(others[(i + 1) \div 2])[((i - 1) % 2) + 1]]

(* _abandon_running_scans deletes rows only for a running scan of the      *)
(* token it found.                                                         *)
Abandons == lease.owner # None /\ scans[lease.owner] = "running"

Finished == {w \in Worker : scans[w] \in {"completed", "failed"}}

(* Mutation: the lease is looked at without FOR UPDATE.                    *)
ClearStatements_Unlocked ==
  ScanRows \o << <<"finding_workflow", "write">> >>
           \o SetToSeq({<<f, "own">> : f \in DOMAIN finding}) \o <<LeaseRow>>

ClearStatements ==
  <<LeaseRow>> \o ScanRows \o << <<"finding_workflow", "write">> >>
               \o SetToSeq({<<f, "own">> : f \in DOMAIN finding})

Statements(s) ==
  CASE call[s] = "connect" -> SchemaDDL
    [] call[s] = "try_start_scan" -> <<LeaseRow>> \o (IF Abandons THEN ScanRows ELSE <<>>)
    [] call[s] = "start_scan" -> <<LeaseRow, <<"scans", "write">> >>
    [] call[s] = "store_document" -> <<LeaseRow, <<"documents", "write">> >>
    [] call[s] = "store_result" -> <<LeaseRow, <<"audit_results", "write">> >>
    [] call[s] = "complete_scan_with_findings" ->
         <<LeaseRow>> \o SyncStatements(results[s]) \o << <<"scans", "write">> >>
    [] call[s] = "fail_scan" -> <<LeaseRow>> \o ScanRows
    [] call[s] = "prune_scans" ->
         <<LeaseRow>> \o (IF Cardinality(Finished) >= Keep THEN ScanRows ELSE <<>>)
    [] call[s] \in {"end_scan", "renew_lease"} -> <<LeaseRow>>
    [] call[s] = "update_workflow" -> Touch(request[s].key)
    [] call[s] = "clear_all_if_idle" -> ClearStatements
    [] OTHER -> <<>>

(* Mutation: _check_lease without FOR UPDATE.                              *)
Held_CheckDoesNotLock(s) ==
  {Statements(s)[i] : i \in 1..(at[s] - 1)}
    \ (IF s \in Worker /\ call[s] # "try_start_scan" THEN {LeaseRow} ELSE {})

Held(s) == LET locks == Statements(s) IN {locks[i] : i \in 1..(at[s] - 1)}

Conflict(x, y) ==
  x[1] = y[1] /\ "select" \notin {x[2], y[2]} /\ (x[2] = "own" \/ x[2] # y[2])

InProgress(s) == at[s] <= Len(Statements(s))

(* The sessions whose locks keep s from its next statement.                *)
Blockers(s) ==
  IF InProgress(s)
  THEN LET next == Statements(s)[at[s]]
       IN {t \in Session \ {s} : \E l \in Held(t) : Conflict(l, next)}
  ELSE {}

(* The cycles of sessions each waiting for another.                        *)
Deadlocks ==
  LET blockers == [s \in Session |-> Blockers(s)]
      Waiting == {s \in Session : blockers[s] # {}}
      Stuck(D) == D # {} /\ \A s \in D : blockers[s] \cap D # {}
  IN {D \in SUBSET Waiting : Stuck(D) /\ \A E \in SUBSET D : Stuck(E) => E = D}

-------------------------------------------------------------------------------
(* What the first statement of a method finds in the lease row.            *)

(* The token whose lease the method needs.                                 *)
TokenOf(s) == IF s \in Worker THEN s ELSE request[s].token

(* Mutation: the lease is taken to be whoever's runs it.                   *)
HoldsLease_AnyOwner(s) == lease.live \/ early[s]

HoldsLease(s) == lease.owner = TokenOf(s) /\ (lease.live \/ early[s])

LiveLease(s) == lease.owner # None /\ (lease.live \/ early[s])

(* Calls that return False or None, or raise LeaseLostError, on what they  *)
(* read first.                                                             *)
Refused(s) ==
  CASE call[s] \in {"try_start_scan", "clear_all_if_idle"} -> LiveLease(s)
    [] call[s] \in {"start_scan", "prune_scans", "end_scan", "renew_lease"} -> ~HoldsLease(s)
    [] call[s] \in {"store_document", "store_result", "complete_scan_with_findings", "fail_scan"} ->
         ~HoldsLease(s) \/ scans[s] # "running"
    [] OTHER -> FALSE

-------------------------------------------------------------------------------
(* The methods that follow one another in a scan, and after a failure.     *)

After(w) ==
  CASE call[w] = "try_start_scan" -> "start_scan"
    [] call[w] = "start_scan" -> "get_previous_hashes"
    [] call[w] = "get_previous_hashes" -> "store_document"
    [] call[w] = "store_document" -> "store_result"
    [] call[w] = "store_result" -> "complete_scan_with_findings"
    [] call[w] = "complete_scan_with_findings" -> "prune_scans"
    [] call[w] \in {"prune_scans", "fail_scan"} -> "end_scan"
    [] call[w] = "end_scan" -> "done"

(* LeaseLostError leaves the run without fail_scan; a prune that fails in  *)
(* any way does not matter.                                                *)
AfterRefusal(w) ==
  CASE call[w] \in {"try_start_scan", "end_scan"} -> "done"
    [] OTHER -> "end_scan"

AfterError(w) ==
  CASE call[w] \in {"try_start_scan", "end_scan"} -> "done"
    [] call[w] \in {"start_scan", "prune_scans", "fail_scan"} -> "end_scan"
    [] OTHER -> "fail_scan"

(* A scan may find any issues; only completing it needs them.              *)
Results(s, next) ==
  IF next = "complete_scan_with_findings"
  THEN UNION {[detected -> Evidence] : detected \in SUBSET Finding}
  ELSE {Nothing}

(* The session returns from its method: a worker goes on, a client that    *)
(* connected makes its request, any other closes its connection.           *)
Return(s, next) ==
  /\ call' = [call EXCEPT ![s] = next]
  /\ at' = [at EXCEPT ![s] = 1]
  /\ early' = [early EXCEPT ![s] = FALSE]
  /\ read' = IF s \in Worker THEN [read EXCEPT ![s] = Nothing] ELSE read
  /\ \E res \in Results(s, next) :
       results' = IF s \in Worker THEN [results EXCEPT ![s] = res] ELSE results
  /\ request' = IF next = "closed" THEN [request EXCEPT ![s] = None] ELSE request
  /\ UNCHANGED served

-------------------------------------------------------------------------------
(* What the transactions write.                                            *)

(* Mutation: only the results are deleted; the documents are left to ON    *)
(* DELETE CASCADE, which an UPDATE of the scan does not trigger.           *)
Failed_TrustsCascade(w) ==
  /\ scans' = [scans EXCEPT ![w] = "failed"]
  /\ rows' = [rows EXCEPT ![w] = @ \ {"audit_results"}]

Failed(w) ==
  /\ scans' = [scans EXCEPT ![w] = "failed"]
  /\ rows' = [rows EXCEPT ![w] = {}]

Abandon == IF Abandons THEN Failed(lease.owner) ELSE UNCHANGED <<scans, rows>>

Reopens(row, hash) ==
  \/ row.state = "snoozed" /\ row.until = "over"
  \/ row.state \in Terminal /\ row.hash # hash

(* Mutation: a confirmed finding is written back as it was selected.       *)
Synced_WholeRow(w, f, row, old) ==
  CASE f \in DOMAIN results[w] /\ old # None /\ Reopens(old, results[w][f]) ->
         [state |-> "open", hash |-> results[w][f], until |-> None, seen |-> w]
    [] f \in DOMAIN results[w] /\ old # None /\ ~Reopens(old, results[w][f]) ->
         [old EXCEPT !.hash = results[w][f], !.seen = w]
    [] f \in DOMAIN results[w] /\ old = None ->
         [state |-> "open", hash |-> results[w][f], until |-> None, seen |-> w]
    [] f \notin DOMAIN results[w] /\ old.state # "fixed" -> [row EXCEPT !.state = "fixed"]
    [] OTHER -> row

(* _do_sync_findings_pg on one finding: what to do is decided on old, the  *)
(* row it selected, and done to row, the one it then locks.  (Every page   *)
(* is reanalyzed; FindingWorkflow has the unchanged ones.)                 *)
Synced(w, f, row, old) ==
  CASE f \in DOMAIN results[w] /\ (old = None \/ Reopens(old, results[w][f])) ->
         [state |-> "open", hash |-> results[w][f], until |-> None, seen |-> w]
    [] f \in DOMAIN results[w] /\ old # None /\ ~Reopens(old, results[w][f]) ->
         [row EXCEPT !.hash = results[w][f], !.seen = w]
    [] f \notin DOMAIN results[w] /\ old.state # "fixed" -> [row EXCEPT !.state = "fixed"]
    [] OTHER -> row

RowOf(f) == IF f \in DOMAIN finding THEN finding[f] ELSE None

SyncFindings(w) ==
  finding' = [f \in DOMAIN finding \cup DOMAIN results[w] |->
                Synced(w, f, RowOf(f), read[w][f])]

(* prune_scans: the finished scans older than the Keep-th newest.          *)
Older(w) ==
  LET newer(v) == \E i, j \in DOMAIN order : order[i] = w /\ order[j] = v /\ i < j
  IN {v \in Finished : newer(v)}

Prune ==
  LET old == {w \in Finished : Cardinality(Older(w)) >= Keep} IN
  /\ scans' = [w \in Worker |-> IF w \in old THEN "gone" ELSE scans[w]]
  /\ rows' = [w \in Worker |-> IF w \in old THEN {} ELSE rows[w]]

Clear ==
  /\ scans' = [w \in Worker |-> IF scans[w] = "none" THEN "none" ELSE "gone"]
  /\ rows' = [w \in Worker |-> {}]
  /\ finding' = Nothing
  /\ lease' = [owner |-> None, live |-> FALSE]
  /\ UNCHANGED order

Reviewed(row, r) ==
  [row EXCEPT !.state = r.state, !.until = IF r.state = "snoozed" THEN "ahead" ELSE None]

(* _STATE_CLEANUP sets dismissal_reason to NULL, which the schema forbids. *)
ViolatesNotNull(r) ==
  r.key \in DOMAIN finding /\ r.state \in {"open", "acknowledged"} /\ ~r.reason

Write(s) ==
  CASE call[s] = "try_start_scan" ->
         /\ Abandon /\ lease' = [owner |-> s, live |-> TRUE]
         /\ UNCHANGED <<order, finding>>
    [] call[s] = "start_scan" ->
         /\ scans' = [scans EXCEPT ![s] = "running"] /\ order' = Append(order, s)
         /\ UNCHANGED <<lease, rows, finding>>
    [] call[s] = "store_document" ->
         rows' = [rows EXCEPT ![s] = {"documents"}] /\ UNCHANGED <<lease, scans, order, finding>>
    [] call[s] = "store_result" ->
         /\ rows' = [rows EXCEPT ![s] = @ \cup {"audit_results"}]
         /\ UNCHANGED <<lease, scans, order, finding>>
    [] call[s] = "complete_scan_with_findings" ->
         /\ SyncFindings(s) /\ scans' = [scans EXCEPT ![s] = "completed"]
         /\ UNCHANGED <<lease, rows, order>>
    [] call[s] = "fail_scan" -> Failed(s) /\ UNCHANGED <<lease, order, finding>>
    [] call[s] = "prune_scans" -> Prune /\ UNCHANGED <<lease, order, finding>>
    [] call[s] = "end_scan" ->
         lease' = [owner |-> None, live |-> FALSE] /\ UNCHANGED <<scans, rows, order, finding>>
    [] call[s] = "renew_lease" ->
         lease' = [lease EXCEPT !.live = TRUE] /\ UNCHANGED <<scans, rows, order, finding>>
    [] call[s] = "update_workflow" ->
         /\ finding' = [f \in DOMAIN finding |->
              IF f = request[s].key THEN Reviewed(finding[f], request[s]) ELSE finding[f]]
         /\ UNCHANGED <<lease, scans, rows, order>>
    [] call[s] = "clear_all_if_idle" -> Clear
    [] OTHER -> UNCHANGED data

-------------------------------------------------------------------------------
(* The steps of a session.                                                 *)

(* Why a connection is opened: the renewal thread of a scan under way, a   *)
(* review of a finding that was listed, any other request.                 *)
Asked(r) ==
  CASE r.op = "renew_lease" -> call[r.token] \notin {"try_start_scan", "done"}
    [] r.op = "update_workflow" -> r.key \in DOMAIN finding
    [] OTHER -> TRUE

Weight(r) == IF r.op = "update_workflow" THEN 1 ELSE 2

Open(c, r) ==
  /\ call[c] = "closed" /\ served + Weight(r) <= MaxRequests /\ Asked(r)
  /\ call' = [call EXCEPT ![c] = "connect"]
  /\ request' = [request EXCEPT ![c] = r]
  /\ served' = served + Weight(r)
  /\ UNCHANGED <<data, at, early, read, results>>

(* A statement that reads findings, before the one that locks them.        *)
Select(s) ==
  /\ InProgress(s) /\ Statements(s)[at[s]][2] = "select"
  /\ LET what == Statements(s)[at[s]][1]
         keys == IF what = "others" THEN Finding \ DOMAIN results[s] ELSE {what}
     IN read' = [read EXCEPT ![s] = [f \in DOMAIN @ \cup keys |->
                                       IF f \in keys THEN RowOf(f) ELSE @[f]]]
  /\ at' = [at EXCEPT ![s] = @ + 1]
  /\ UNCHANGED <<data, call, early, results, request, served>>

(* A statement gets its lock.                                              *)
Execute(s) ==
  /\ InProgress(s) /\ Statements(s)[at[s]][2] # "select"
  /\ Blockers(s) = {} /\ ~(at[s] = 1 /\ Refused(s))
  /\ at' = [at EXCEPT ![s] = @ + 1]
  /\ early' = [early EXCEPT ![s] = FALSE]
  /\ UNCHANGED <<data, call, read, results, request, served>>

(* Its first statement finds that it may not go on.                        *)
Refuse(s) ==
  /\ at[s] = 1 /\ InProgress(s) /\ Blockers(s) = {} /\ Refused(s)
  /\ Return(s, IF s \in Worker THEN AfterRefusal(s) ELSE "closed")
  /\ UNCHANGED data

Commit(s) ==
  /\ call[s] \notin {"closed", "done"}
  /\ at[s] = Len(Statements(s)) + 1
  /\ ~(call[s] = "update_workflow" /\ ViolatesNotNull(request[s]))
  /\ Write(s)
  /\ Return(s, IF s \in Worker THEN After(s)
                ELSE IF call[s] = "connect" THEN request[s].op ELSE "closed")

(* Mutation: the sync is committed before the scan is completed.           *)
Raise_KeepsFindings(s) ==
  /\ Return(s, IF s \in Worker THEN AfterError(s) ELSE "closed")
  /\ IF call[s] = "complete_scan_with_findings" /\ DOMAIN read[s] = Finding
     THEN SyncFindings(s) /\ UNCHANGED <<lease, scans, rows, order>>
     ELSE UNCHANGED data

(* Rolls back and raises.                                                  *)
Raise(s) ==
  /\ Return(s, IF s \in Worker THEN AfterError(s) ELSE "closed")
  /\ UNCHANGED data

NotNullViolation(s) ==
  /\ call[s] = "update_workflow" /\ at[s] = Len(Statements(s)) + 1
  /\ ViolatesNotNull(request[s])
  /\ Raise(s)

(* The server breaks a cycle at one of its sessions, whichever.            *)
DeadlockDetected == \E D \in Deadlocks : \E s \in D : Raise(s)

(* Any other error of a statement.                                         *)
StatementFails(s) ==
  /\ Faults /\ InProgress(s)
  /\ Raise(s)

(* A read outside a transaction's try fails and is not rolled back: the    *)
(* connection stays in its aborted transaction, and the fail_scan that     *)
(* follows only rolls that back and raises.                                *)
ReadFails(w) ==
  /\ Faults /\ call[w] = "get_previous_hashes" /\ at[w] = 1
  /\ Return(w, "end_scan")
  /\ UNCHANGED data

(* The process dies; the server rolls its transaction back.                *)
Crash(w) ==
  /\ Faults /\ call[w] # "done" /\ (scans[w] # "none" \/ lease.owner = w)
  /\ Return(w, "done")
  /\ UNCHANGED data

(* The next statement of s compares the expiry with a clock value that s   *)
(* may have read already.                                                  *)
AboutToCheck(s) == at[s] = 1 /\ InProgress(s) /\ Statements(s)[1] = LeaseRow

(* The lease expires; those that read the clock before still find it live. *)
Expire ==
  /\ lease.live
  /\ lease' = [lease EXCEPT !.live = FALSE]
  /\ \E slow \in SUBSET {s \in Session : AboutToCheck(s)} :
       early' = [s \in Session |-> early[s] \/ s \in slow]
  /\ UNCHANGED <<scans, rows, order, finding, call, at, read, results, request, served>>

SnoozeEnds(f) ==
  /\ f \in DOMAIN finding /\ finding[f].until = "ahead"
  /\ finding' = [finding EXCEPT ![f].until = "over"]
  /\ UNCHANGED <<lease, scans, rows, order, call, at, early, read, results, request, served>>

Step(s) == Select(s) \/ Execute(s) \/ Refuse(s) \/ Commit(s) \/ NotNullViolation(s)

Next ==
  \/ \E c \in Client, r \in Request : Open(c, r)
  \/ \E s \in Session : Step(s) \/ StatementFails(s)
  \/ DeadlockDetected
  \/ \E w \in Worker : ReadFails(w) \/ Crash(w)
  \/ Expire
  \/ \E f \in Finding : SnoozeEnds(f)

Spec == Init /\ [][Next]_vars

-------------------------------------------------------------------------------
(* A scan has rows only as far as it got: a failed one has none, whatever  *)
(* its late worker still had to write, and a completed one has both kinds. *)
RowsMatchStatus ==
  \A w \in Worker :
    /\ scans[w] \in {"none", "failed", "gone"} => rows[w] = {}
    /\ scans[w] = "completed" => rows[w] = {"documents", "audit_results"}

(* No finding of an incomplete scan is ever visible: complete_scan_with_   *)
(* findings either does both or neither, deadlocked or not.                *)
FindingsOfCompletedScans ==
  \A f \in DOMAIN finding : scans[finding[f].seen] \in {"completed", "gone"}

(* The lease row is locked first wherever more than one table is written,  *)
(* so the storage methods never wait for one another in a circle: every    *)
(* deadlock has a session that is only connecting in it.                   *)
DeadlocksNeedAConnect ==
  \A D \in Deadlocks : \E s \in D : call[s] = "connect"

(* The row was reviewed, or its snooze ended, after it was selected; it is *)
(* still the finding of the same scan and evidence.                        *)
ReviewedSince(old, row) ==
  /\ old # None /\ row # old
  /\ \E state \in State, until \in {None, "ahead", "over"} :
       row = [old EXCEPT !.state = state, !.until = until]

(* The sync of w did to f what it would do with nobody else connected, or  *)
(* a review of f was committed after the sync selected it.                 *)
SerialButForAReview(w, f) ==
  LET old == read[w][f] IN
  \/ finding'[f] = Synced(w, f, RowOf(f), RowOf(f))
  \/ /\ f \in DOMAIN finding /\ ReviewedSince(old, finding[f])
     /\ \/ f \in DOMAIN results[w]
             /\ finding'[f] = [finding[f] EXCEPT !.hash = results[w][f], !.seen = w]
        \/ f \in DOMAIN results[w] /\ Reopens(old, results[w][f])
             /\ finding'[f].state = "open"
        \/ f \notin DOMAIN results[w] /\ old.state # "fixed"
             /\ finding'[f] = [finding[f] EXCEPT !.state = "fixed"]
        \/ f \notin DOMAIN results[w] /\ old.state = "fixed"
             /\ finding'[f] = finding[f]

(* Completing a scan is serial, up to such reviews: the review then stands *)
(* beside what the scan confirms, and a finding selected as fixed stays as *)
(* reviewed; but the review is lost where the sync reopens or resolves     *)
(* what it selected.                                                       *)
SyncIsSerialButForRaces ==
  [][\A w \in Worker : scans[w] = "running" /\ scans'[w] = "completed" =>
       \A f \in DOMAIN finding' : SerialButForAReview(w, f)]_vars

(* The ledger entry of a scan.  A running one whose token scan_state no    *)
(* longer names can never be written again, and counts as failed.          *)
Entry(w) == IF scans[w] = "running" /\ lease.owner # w THEN "failed" ELSE scans[w]

Ledger == INSTANCE ScanLedger WITH Attempt <- Worker, outcome <- [w \in Worker |-> Entry(w)]

(* Row locks give what SQLite's write lock gives: one scan at a time, one  *)
(* lasting outcome each.                                                   *)
LedgerSpec == Ledger!Spec

(* Every started scan reaches a terminal state (Auditor.run, "Scan         *)
(* lifecycle guarantees"): a worker that returned either still has its     *)
(* token in scan_state, for the next one to find, or left its scan ended.  *)
StartedScansEnd ==
  \A w \in Worker : call[w] = "done" /\ lease.owner # w => scans[w] # "running"
===============================================================================
