---------------------------- MODULE FindingWorkflow ----------------------------
(***************************************************************************)
(* The finding_workflow table of SqliteStorage: what completing a scan     *)
(* does to it (_do_sync_findings, in the transaction that marks the scan   *)
(* completed), what a reviewer does to it (update_workflow, from PATCH     *)
(* /api/findings and kb-audit triage), and what retention and clearing     *)
(* leave of it.  Scans are taken whole here, one at a time; ScanRuns shows *)
(* that leased scans are.                                                  *)
(*                                                                         *)
(* A page has a content; a scan finds it current, or raises one issue with *)
(* some evidence.  Title, note, owner, due date and dismissal reason are   *)
(* left out: nothing branches on them.                                     *)
(***************************************************************************)
EXTENDS Integers, FiniteSets

CONSTANTS
  Doc,        \* pages
  Content,    \* content hashes of a page
  Issue,      \* statuses that raise a finding: stale, needs_review, unknown
  Evidence,   \* evidence hashes of a result
  Keep,       \* prune_scans(keep=...)
  MaxScans,   \* bound: scans started
  MaxTime,    \* bound: the clock
  None,       \* SQL NULL
  Unset       \* _UNSET: a field the caller left out

ASSUME WorkflowAssumption ==
  /\ None \notin Issue \cup Evidence /\ None \notin Nat /\ Unset \notin Nat /\ None # Unset
  /\ Keep \in Nat \ {0} /\ MaxScans \in Nat /\ MaxTime \in Nat

VARIABLES
  finding,   \* finding key -> its row
  scans,     \* id of a completed scan -> its results, page by page
  seq,       \* the last scan id handed out
  now

vars == <<finding, scans, seq, now>>

State == {"open", "acknowledged", "snoozed", "accepted_risk", "dismissed", "fixed"}
Terminal == {"fixed", "dismissed", "accepted_risk"}
Time == 0..MaxTime

(* build_finding_key: the page and the status it was given.                *)
Key == Doc \X Issue
PageOf(k) == k[1]
IssueOf(k) == k[2]

Row == [state : State, hash : Evidence, until : Time \cup {None},
        seen : Nat, checked : Nat]     \* last_seen_scan_id, last_checked_scan_id

(* An audit result: actionable, or not (current, or requires_human_audit   *)
(* is false).                                                              *)
Result == [content : Content, issue : Issue, hash : Evidence]
            \cup [content : Content, issue : {None}, hash : {None}]

(* Every row and every stored result is well formed, and no finding was    *)
(* seen by a scan that has not been started.                               *)
TypeOK ==
  /\ DOMAIN finding \subseteq Key /\ finding \in [DOMAIN finding -> Row]
  /\ \A k \in DOMAIN finding : finding[k].seen <= seq
  /\ DOMAIN scans \subseteq 1..seq
  /\ \A i \in DOMAIN scans : /\ DOMAIN scans[i] \subseteq Doc
                             /\ scans[i] \in [DOMAIN scans[i] -> Result]
  /\ seq \in Nat /\ now \in Time

Init ==
  /\ finding = [k \in {} |-> None]
  /\ scans = [i \in {} |-> None]
  /\ seq = 0 /\ now = 0

-------------------------------------------------------------------------------
(* The scan before: its pages and their results.                           *)

Latest == {i \in DOMAIN scans : \A j \in DOMAIN scans : j <= i}

(* The page of result r is unchanged since the scan before.                *)
Unchanged(d, r) == \E i \in Latest : d \in DOMAIN scans[i] /\ scans[i][d].content = r.content

(* Unchanged pages carry their result forward, the others may get any.     *)
CarriedOrNew(res) ==
  \A i \in Latest : \A d \in DOMAIN res \cap DOMAIN scans[i] :
    Unchanged(d, res[d]) => res[d] = scans[i][d]

(* _actionable_results, as finding keys.                                   *)
Detects(res, k) == PageOf(k) \in DOMAIN res /\ res[PageOf(k)].issue = IssueOf(k)

-------------------------------------------------------------------------------
(* _do_sync_findings, row by row.                                          *)

NewRow(hash, id) ==
  [state |-> "open", hash |-> hash, until |-> None, seen |-> id, checked |-> id]

SnoozeOver(row) == row.state = "snoozed" /\ row.until # None /\ row.until <= now

(* Mutation: new evidence does not reopen.                                 *)
MustReopen_IgnoresEvidence(row, hash) == SnoozeOver(row)

MustReopen(row, hash) ==
  SnoozeOver(row) \/ (row.state \in Terminal /\ row.hash # hash)

Reopened(row, hash, id) ==
  [row EXCEPT !.state = "open", !.hash = hash, !.until = None, !.seen = id, !.checked = id]

(* Mutation: the evidence of a confirmed finding is not refreshed.         *)
Confirmed_KeepsHash(row, hash, id) == [row EXCEPT !.seen = id, !.checked = id]

Confirmed(row, hash, id) == [row EXCEPT !.hash = hash, !.seen = id, !.checked = id]

Checked(row, id) == [row EXCEPT !.checked = id]

(* Mutation: resolving a finding counts as seeing it.                      *)
AutoFixed_Sees(row, id) == [row EXCEPT !.state = "fixed", !.seen = id, !.checked = id]

AutoFixed(row, id) == [row EXCEPT !.state = "fixed", !.checked = id]

(* Mutation: carried results count as reanalyzed.                          *)
Redetected_Always(row, hash, id, reanalyzed) ==
  IF MustReopen(row, hash) THEN Reopened(row, hash, id) ELSE Confirmed(row, hash, id)

(* A finding whose issue is in the results again.                          *)
Redetected(row, hash, id, reanalyzed) ==
  CASE MustReopen(row, hash) -> Reopened(row, hash, id)
    [] ~MustReopen(row, hash) /\ reanalyzed -> Confirmed(row, hash, id)
    [] OTHER -> Checked(row, id)

(* Mutation: only untouched findings are resolved.                         *)
NotDetected_OnlyOpen(row, id) ==
  IF row.state = "open" THEN AutoFixed(row, id) ELSE Checked(row, id)

(* A finding of a scanned page whose issue is not: every state but fixed   *)
(* is auto-fixable.                                                        *)
NotDetected(row, id) ==
  IF row.state # "fixed" THEN AutoFixed(row, id) ELSE Checked(row, id)

SyncFindings(res, id) ==
  finding' = [k \in DOMAIN finding \cup {k \in Key : Detects(res, k)} |->
    CASE k \notin DOMAIN finding -> NewRow(res[PageOf(k)].hash, id)
      [] k \in DOMAIN finding /\ Detects(res, k) ->
           Redetected(finding[k], res[PageOf(k)].hash, id, ~Unchanged(PageOf(k), res[PageOf(k)]))
      [] k \in DOMAIN finding /\ ~Detects(res, k) /\ PageOf(k) \in DOMAIN res ->
           NotDetected(finding[k], id)
      [] OTHER -> finding[k]]

-------------------------------------------------------------------------------
(* The operations.                                                         *)

(* complete_scan_with_findings, for a scan that fetched the pages of res.  *)
CompleteScan(res) ==
  /\ seq < MaxScans
  /\ CarriedOrNew(res)
  /\ SyncFindings(res, seq + 1)
  /\ scans' = [i \in DOMAIN scans \cup {seq + 1} |-> IF i = seq + 1 THEN res ELSE scans[i]]
  /\ seq' = seq + 1
  /\ UNCHANGED now

(* A scan that fails leaves nothing but its id.                            *)
FailScan ==
  /\ seq < MaxScans
  /\ seq' = seq + 1
  /\ UNCHANGED <<finding, scans, now>>

(* prune_scans, after a scan completed: every id is then a terminal scan's, *)
(* so the failed ones count.  finding_workflow is not pruned.              *)
Prune ==
  LET kept == {i \in DOMAIN scans : seq - i < Keep} IN
  /\ seq \in DOMAIN scans /\ kept # DOMAIN scans
  /\ scans' = [i \in kept |-> scans[i]]
  /\ UNCHANGED <<finding, seq, now>>

(* Mutation: the findings survive, the ids they refer to do not.           *)
ClearScans_KeepsFindings ==
  /\ scans' = [i \in {} |-> None]
  /\ seq' = 0
  /\ UNCHANGED <<finding, now>>

(* clear_all_if_idle.                                                      *)
ClearScans ==
  /\ finding' = [k \in {} |-> None]
  /\ scans' = [i \in {} |-> None]
  /\ seq' = 0
  /\ UNCHANGED now

(* snoozed_until after an update: the caller's value, or _STATE_CLEANUP's. *)
UpdatedUntil(row, state, until) ==
  CASE until # Unset -> until
    [] until = Unset /\ state \in State \ {"snoozed"} -> None
    [] OTHER -> row.until

(* update_workflow: snoozing requires a date, leaving a field out does not. *)
UpdateWorkflow(k, state, until) ==
  /\ k \in DOMAIN finding
  /\ state # Unset \/ until # Unset
  /\ state = "snoozed" => until \notin {Unset, None}
  /\ finding' = [finding EXCEPT ![k].state = IF state = Unset THEN @ ELSE state,
                                ![k].until = UpdatedUntil(finding[k], state, until)]
  /\ UNCHANGED <<scans, seq, now>>

Tick == now < MaxTime /\ now' = now + 1 /\ UNCHANGED <<finding, scans, seq>>

Next ==
  \/ \E pages \in SUBSET Doc : \E res \in [pages -> Result] : CompleteScan(res)
  \/ FailScan \/ Prune \/ ClearScans \/ Tick
  \/ \E k \in Key, state \in State \cup {Unset}, until \in Time \cup {None, Unset} :
       UpdateWorkflow(k, state, until)

Spec == Init /\ [][Next]_vars

-------------------------------------------------------------------------------
(* The queue (get_findings without arguments).                             *)

Queue ==
  {k \in DOMAIN finding :
     /\ finding[k].state \notin Terminal
     /\ finding[k].state = "snoozed" => finding[k].until = None \/ finding[k].until <= now}

(* Every issue the latest scan raised has its finding, on the evidence of  *)
(* that scan, whatever reviewers, earlier scans and retention did.         *)
DetectedIssuesAreTracked ==
  \A i \in Latest, k \in Key :
    Detects(scans[i], k) =>
      /\ k \in DOMAIN finding
      /\ finding[k].hash = scans[i][PageOf(k)].hash
      /\ finding[k].checked = i

(* The result a finding is shown with (_enrich_finding_with_audit_context, *)
(* by last_seen_scan_id) is one that raised it, if it is still stored.     *)
ContextShowsTheFinding ==
  \A k \in DOMAIN finding :
    finding[k].seen \in DOMAIN scans => Detects(scans[finding[k].seen], k)

(* A scan that raises an issue again leaves its finding disposed of only   *)
(* on the evidence it was disposed of on; other evidence reopens it.       *)
DispositionsCoverTheirEvidence ==
  [][seq' \in DOMAIN scans' /\ seq' > seq =>
       \A k \in DOMAIN finding :
         /\ Detects(scans'[seq'], k)
         /\ finding[k].state \in Terminal /\ finding'[k].state \in Terminal
         => finding[k].hash = scans'[seq'][PageOf(k)].hash]_vars

(* Right after a scan, the queue holds no finding of a scanned page that   *)
(* the scan did not raise: current pages leave the queue.                  *)
ScansClearTheQueue ==
  [][seq' \in DOMAIN scans' /\ seq' > seq =>
       \A k \in Queue' : PageOf(k) \in DOMAIN scans'[seq'] => Detects(scans'[seq'], k)]_vars

(* A scan does not touch the findings of pages it did not fetch, and takes *)
(* an unchanged page for new evidence of nothing: its issue is seen again, *)
(* or its finding moved, only because a snooze ran out.                    *)
ScansActOnEvidence ==
  [][seq' \in DOMAIN scans' /\ seq' > seq =>
       \A k \in DOMAIN finding : LET res == scans'[seq'] IN
         /\ PageOf(k) \notin DOMAIN res => finding'[k] = finding[k]
         /\ Detects(res, k) /\ Unchanged(PageOf(k), res[PageOf(k)]) /\ ~SnoozeOver(finding[k])
            => finding'[k] = [finding[k] EXCEPT !.checked = seq']]_vars
===============================================================================
