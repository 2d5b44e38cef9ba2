------------------------- MODULE FindingWorkflow_proofs -------------------------
(***************************************************************************)
(* Theorems about FindingWorkflow, for any set of pages, issues and        *)
(* evidence, any retention and any number of scans.                        *)
(***************************************************************************)
EXTENDS FindingWorkflow, TLAPS

-------------------------------------------------------------------------------
(* The rows a scan writes.                                                 *)

LEMMA NotDetectedRow ==
  ASSUME NEW row \in Row, NEW id \in Nat
  PROVE  /\ NotDetected(row, id) \in Row
         /\ NotDetected(row, id).seen = row.seen
BY DEF NotDetected, AutoFixed, Checked, Row, State

-------------------------------------------------------------------------------
(* What completing a scan does.                                            *)

LEMMA ResultOfDetection ==
  ASSUME NEW pages \in SUBSET Doc, NEW res \in [pages -> Result], NEW k \in Key, Detects(res, k)
  PROVE  res[PageOf(k)].hash \in Evidence
BY WorkflowAssumption DEF Detects, Result, Key, IssueOf, PageOf

LEMMA CompleteScanRows ==
  ASSUME TypeOK, NEW pages \in SUBSET Doc, NEW res \in [pages -> Result], CompleteScan(res)
  PROVE  /\ DOMAIN finding' = DOMAIN finding \cup {k \in Key : Detects(res, k)}
         /\ \A k \in DOMAIN finding' :
              /\ finding'[k] \in Row
              /\ Detects(res, k) =>
                   /\ finding'[k].checked = seq + 1
                   /\ \/ finding'[k].hash = res[PageOf(k)].hash
                      \/ /\ k \in DOMAIN finding /\ finding'[k].hash = finding[k].hash
                         /\ Unchanged(PageOf(k), res[PageOf(k)])
              /\ \/ finding'[k].seen = seq + 1 /\ Detects(res, k)
                 \/ k \in DOMAIN finding /\ finding'[k].seen = finding[k].seen
<1>1. DOMAIN finding' = DOMAIN finding \cup {k \in Key : Detects(res, k)}
  BY DEF CompleteScan, SyncFindings
<1>2. seq + 1 \in Nat /\ DOMAIN finding \subseteq Key  BY DEF TypeOK
<1> SUFFICES ASSUME NEW k \in DOMAIN finding'
             PROVE  /\ finding'[k] \in Row
                    /\ Detects(res, k) =>
                         /\ finding'[k].checked = seq + 1
                         /\ \/ finding'[k].hash = res[PageOf(k)].hash
                            \/ /\ k \in DOMAIN finding /\ finding'[k].hash = finding[k].hash
                               /\ Unchanged(PageOf(k), res[PageOf(k)])
                    /\ \/ finding'[k].seen = seq + 1 /\ Detects(res, k)
                       \/ k \in DOMAIN finding /\ finding'[k].seen = finding[k].seen
  BY <1>1
<1>3. k \in Key  BY <1>1, <1>2
<1>4. CASE k \notin DOMAIN finding
  <2>1. Detects(res, k) /\ res[PageOf(k)].hash \in Evidence
    BY <1>1, <1>3, <1>4, ResultOfDetection
  <2>2. finding'[k] = NewRow(res[PageOf(k)].hash, seq + 1)
    BY <1>1, <1>4 DEF CompleteScan, SyncFindings
  <2> QED  BY <1>2, <2>1, <2>2 DEF NewRow, Row, State
<1>5. CASE k \in DOMAIN finding /\ Detects(res, k)
  <2>1. res[PageOf(k)].hash \in Evidence /\ finding[k] \in Row
    BY <1>3, <1>5, ResultOfDetection DEF TypeOK
  <2>2. finding'[k] = Redetected(finding[k], res[PageOf(k)].hash, seq + 1,
                                 ~Unchanged(PageOf(k), res[PageOf(k)]))
    BY <1>1, <1>5 DEF CompleteScan, SyncFindings
  <2> DEFINE hash == res[PageOf(k)].hash
  <2>3. CASE MustReopen(finding[k], hash)
    <3>1. finding'[k] = Reopened(finding[k], hash, seq + 1)  BY <2>2, <2>3 DEF Redetected
    <3>2. /\ finding'[k] \in Row /\ finding'[k].checked = seq + 1
          /\ finding'[k].hash = hash /\ finding'[k].seen = seq + 1
      BY <1>2, <2>1, <3>1 DEF Reopened, Row, State
    <3> QED  BY <1>5, <3>2
  <2>4. CASE ~MustReopen(finding[k], hash) /\ Unchanged(PageOf(k), res[PageOf(k)])
    <3>1. finding'[k] = Checked(finding[k], seq + 1)  BY <2>2, <2>4 DEF Redetected
    <3>2. /\ finding'[k] \in Row /\ finding'[k].checked = seq + 1
          /\ finding'[k].hash = finding[k].hash /\ finding'[k].seen = finding[k].seen
      BY <1>2, <2>1, <3>1 DEF Checked, Row
    <3> QED  BY <1>5, <2>4, <3>2
  <2>5. CASE ~MustReopen(finding[k], hash) /\ ~Unchanged(PageOf(k), res[PageOf(k)])
    <3>1. finding'[k] = Confirmed(finding[k], hash, seq + 1)  BY <2>2, <2>5 DEF Redetected
    <3>2. /\ finding'[k] \in Row /\ finding'[k].checked = seq + 1
          /\ finding'[k].hash = hash /\ finding'[k].seen = seq + 1
      BY <1>2, <2>1, <3>1 DEF Confirmed, Row, State
    <3> QED  BY <1>5, <3>2
  <2> QED  BY <2>3, <2>4, <2>5
<1>6. CASE k \in DOMAIN finding /\ ~Detects(res, k) /\ PageOf(k) \in DOMAIN res
  <2>1. finding[k] \in Row  BY <1>6 DEF TypeOK
  <2>2. finding'[k] = NotDetected(finding[k], seq + 1)
    BY <1>1, <1>6 DEF CompleteScan, SyncFindings
  <2> QED  BY <1>2, <1>6, <2>1, <2>2, NotDetectedRow
<1>7. CASE k \in DOMAIN finding /\ PageOf(k) \notin DOMAIN res
  <2>1. ~Detects(res, k)  BY <1>7 DEF Detects
  <2>2. finding'[k] = finding[k]
    BY <1>1, <1>7, <2>1 DEF CompleteScan, SyncFindings
  <2> QED  BY <1>7, <2>1, <2>2 DEF TypeOK
<1> QED  BY <1>4, <1>5, <1>6, <1>7

-------------------------------------------------------------------------------
(* The invariant.                                                          *)

Inv == TypeOK /\ DetectedIssuesAreTracked /\ ContextShowsTheFinding

LEMMA CompleteScanTypeOK ==
  ASSUME TypeOK, NEW pages \in SUBSET Doc, NEW res \in [pages -> Result], CompleteScan(res)
  PROVE  TypeOK'
<1>1. DOMAIN finding' \subseteq Key
  BY CompleteScanRows DEF TypeOK
<1>2. finding' \in [DOMAIN finding' -> Row]
  BY CompleteScanRows DEF CompleteScan, SyncFindings
<1>3. \A k \in DOMAIN finding' : finding'[k].seen <= seq'
  <2> TAKE k \in DOMAIN finding'
  <2>1. CASE finding'[k].seen = seq + 1
    BY <2>1 DEF CompleteScan, TypeOK
  <2>2. CASE k \in DOMAIN finding /\ finding'[k].seen = finding[k].seen
    BY <2>2 DEF CompleteScan, TypeOK, Row
  <2> QED  BY <2>1, <2>2, CompleteScanRows
<1>4. /\ DOMAIN scans' \subseteq 1..seq'
      /\ \A i \in DOMAIN scans' : /\ DOMAIN scans'[i] \subseteq Doc
                                  /\ scans'[i] \in [DOMAIN scans'[i] -> Result]
      /\ seq' \in Nat /\ now' \in Time
  BY DEF CompleteScan, TypeOK
<1> QED  BY <1>1, <1>2, <1>3, <1>4 DEF TypeOK

LEMMA CompleteScanInv ==
  ASSUME Inv, NEW pages \in SUBSET Doc, NEW res \in [pages -> Result], CompleteScan(res)
  PROVE  Inv'
<1> USE DEF Inv
<1>1. TypeOK'  BY CompleteScanTypeOK
<1>2. /\ seq + 1 \notin DOMAIN scans /\ DOMAIN scans' = DOMAIN scans \cup {seq + 1}
      /\ scans'[seq + 1] = res /\ \A i \in DOMAIN scans : scans'[i] = scans[i]
  BY DEF CompleteScan, TypeOK
<1>3. Latest' = {seq + 1}
  BY <1>2 DEF Latest, TypeOK
<1>4. DetectedIssuesAreTracked'
  <2> SUFFICES ASSUME NEW k \in Key, Detects(res, k)
               PROVE  /\ k \in DOMAIN finding' /\ finding'[k].checked = seq + 1
                      /\ finding'[k].hash = res[PageOf(k)].hash
    BY <1>2, <1>3 DEF DetectedIssuesAreTracked
  <2>1. k \in DOMAIN finding' /\ finding'[k].checked = seq + 1
    BY CompleteScanRows
  <2>2. CASE finding'[k].hash = res[PageOf(k)].hash
    BY <2>1, <2>2
  <2>3. CASE /\ k \in DOMAIN finding /\ finding'[k].hash = finding[k].hash
             /\ Unchanged(PageOf(k), res[PageOf(k)])
    <3>1. PICK i \in Latest : /\ PageOf(k) \in DOMAIN scans[i]
                              /\ scans[i][PageOf(k)].content = res[PageOf(k)].content
      BY <2>3 DEF Unchanged
    <3>2. res[PageOf(k)] = scans[i][PageOf(k)]
      BY <2>3, <3>1 DEF CompleteScan, CarriedOrNew, Detects
    <3>3. Detects(scans[i], k)
      BY <3>1, <3>2 DEF Detects
    <3> QED  BY <2>1, <2>3, <3>1, <3>2, <3>3 DEF DetectedIssuesAreTracked
  <2> QED  BY <2>1, <2>2, <2>3, CompleteScanRows
<1>5. ContextShowsTheFinding'
  <2> SUFFICES ASSUME NEW k \in DOMAIN finding', finding'[k].seen \in DOMAIN scans'
               PROVE  Detects(scans'[finding'[k].seen], k)
    BY DEF ContextShowsTheFinding, Detects
  <2>1. CASE finding'[k].seen = seq + 1 /\ Detects(res, k)
    BY <1>2, <2>1
  <2>2. CASE k \in DOMAIN finding /\ finding'[k].seen = finding[k].seen
    <3>1. finding[k].seen # seq + 1
      BY <2>2 DEF TypeOK, Row
    <3>2. finding[k].seen \in DOMAIN scans
      BY <1>2, <2>2, <3>1
    <3> QED  BY <1>2, <2>2, <3>2 DEF ContextShowsTheFinding
  <2> QED  BY <2>1, <2>2, CompleteScanRows
<1> QED  BY <1>1, <1>4, <1>5

LEMMA UpdateWorkflowInv ==
  ASSUME Inv, NEW k \in Key, NEW state \in State \cup {Unset},
         NEW until \in Time \cup {None, Unset}, UpdateWorkflow(k, state, until)
  PROVE  Inv'
<1> DEFINE row == [finding[k] EXCEPT !.state = IF state = Unset THEN finding[k].state ELSE state,
                                     !.until = UpdatedUntil(finding[k], state, until)]
<1>1. k \in DOMAIN finding /\ finding[k] \in Row
  BY DEF UpdateWorkflow, Inv, TypeOK
<1>2. finding' = [finding EXCEPT ![k] = row] /\ UNCHANGED <<scans, seq, now>>
  BY DEF UpdateWorkflow
<1>3. UpdatedUntil(finding[k], state, until) \in Time \cup {None}
  BY <1>1 DEF UpdatedUntil, Row
<1>4. /\ row \in Row /\ row.hash = finding[k].hash /\ row.seen = finding[k].seen
      /\ row.checked = finding[k].checked
  BY <1>1, <1>3, WorkflowAssumption DEF Row
<1> HIDE DEF row
<1>5. /\ DOMAIN finding' = DOMAIN finding /\ finding' \in [DOMAIN finding -> Row]
      /\ \A j \in DOMAIN finding : /\ finding'[j].hash = finding[j].hash
                                   /\ finding'[j].seen = finding[j].seen
                                   /\ finding'[j].checked = finding[j].checked
  BY <1>1, <1>2, <1>4 DEF Inv, TypeOK
<1>6. TypeOK'  BY <1>2, <1>5 DEF Inv, TypeOK
<1>7. DetectedIssuesAreTracked'
  BY <1>2, <1>5 DEF Inv, DetectedIssuesAreTracked, Latest, Detects
<1>8. ContextShowsTheFinding'
  BY <1>2, <1>5 DEF Inv, ContextShowsTheFinding, Detects
<1> QED  BY <1>6, <1>7, <1>8 DEF Inv

LEMMA NextInv == Inv /\ [Next]_vars => Inv'
<1> SUFFICES ASSUME Inv, [Next]_vars PROVE Inv'
  OBVIOUS
<1>1. ASSUME NEW pages \in SUBSET Doc, NEW res \in [pages -> Result], CompleteScan(res)
      PROVE  Inv'
  BY <1>1, CompleteScanInv
<1>2. CASE FailScan
  <2>1. seq' \in Nat /\ seq' > seq /\ UNCHANGED <<finding, scans, now>>
    BY <1>2 DEF FailScan, Inv, TypeOK
  <2>2. TypeOK'  BY <2>1 DEF Inv, TypeOK, Row
  <2> QED  BY <2>1, <2>2 DEF Inv, DetectedIssuesAreTracked, ContextShowsTheFinding, Latest
<1>3. CASE Prune
  <2>1. /\ UNCHANGED <<finding, seq, now>> /\ seq \in DOMAIN scans /\ seq \in DOMAIN scans'
        /\ DOMAIN scans' \subseteq DOMAIN scans
        /\ \A i \in DOMAIN scans' : scans'[i] = scans[i]
    BY <1>3, WorkflowAssumption DEF Prune, Inv, TypeOK
  <2>2. Latest' = {seq} /\ Latest = {seq}
    BY <2>1 DEF Latest, Inv, TypeOK
  <2>3. TypeOK'  BY <2>1 DEF Inv, TypeOK
  <2>4. DetectedIssuesAreTracked'
    BY <2>1, <2>2 DEF Inv, DetectedIssuesAreTracked
  <2>5. ContextShowsTheFinding'
    BY <2>1 DEF Inv, ContextShowsTheFinding
  <2> QED  BY <2>3, <2>4, <2>5 DEF Inv
<1>4. CASE ClearScans
  BY <1>4 DEF ClearScans, Inv, TypeOK, DetectedIssuesAreTracked, ContextShowsTheFinding, Latest
<1>5. CASE Tick
  BY <1>5, WorkflowAssumption
  DEF Tick, Time, Inv, TypeOK, DetectedIssuesAreTracked, ContextShowsTheFinding, Latest
<1>6. ASSUME NEW k \in Key, NEW state \in State \cup {Unset},
             NEW until \in Time \cup {None, Unset}, UpdateWorkflow(k, state, until)
      PROVE  Inv'
  BY <1>6, UpdateWorkflowInv
<1>7. CASE UNCHANGED vars
  BY <1>7 DEF vars, Inv, TypeOK, DetectedIssuesAreTracked, ContextShowsTheFinding, Latest
<1> QED  BY <1>1, <1>2, <1>3, <1>4, <1>5, <1>6, <1>7 DEF Next

(* The three parts hold together: the issue a pruned or cleared scan leaves *)
(* behind is found by its row, and a row's evidence by the scan it names.  *)
LEMMA InvariantHolds == Spec => []Inv
<1>1. Init => Inv
  BY WorkflowAssumption
  DEF Init, Inv, TypeOK, DetectedIssuesAreTracked, ContextShowsTheFinding, Latest, Time
<1>2. Inv /\ [Next]_vars => Inv'  BY NextInv
<1> QED  BY <1>1, <1>2, PTL DEF Spec

-------------------------------------------------------------------------------
(* Where a scan finds and leaves the rows that were there before it.       *)

LEMMA OnlyCompleteScanStoresAScan ==
  ASSUME Inv, [Next]_vars, seq' \in DOMAIN scans', seq' > seq
  PROVE  \E pages \in SUBSET Doc : \E res \in [pages -> Result] :
           CompleteScan(res) /\ res = scans'[seq']
<1>1. seq \in Nat /\ DOMAIN scans \subseteq 1..seq  BY DEF Inv, TypeOK
<1>2. ASSUME NEW pages \in SUBSET Doc, NEW res \in [pages -> Result], CompleteScan(res)
      PROVE  res = scans'[seq']
  BY <1>1, <1>2 DEF CompleteScan
<1>3. ~FailScan  BY <1>1 DEF FailScan
<1>4. ~Prune  BY <1>1 DEF Prune
<1>5. ~ClearScans  BY <1>1 DEF ClearScans
<1>6. ~Tick /\ ~UNCHANGED vars  BY <1>1 DEF Tick, vars
<1>7. ASSUME NEW k \in Key, NEW state \in State \cup {Unset},
             NEW until \in Time \cup {None, Unset}, UpdateWorkflow(k, state, until)
      PROVE  FALSE
  BY <1>1, <1>7 DEF UpdateWorkflow
<1> QED  BY <1>2, <1>3, <1>4, <1>5, <1>6, <1>7 DEF Next

LEMMA RowAfterScan ==
  ASSUME NEW pages \in SUBSET Doc, NEW res \in [pages -> Result], CompleteScan(res),
         NEW k \in DOMAIN finding
  PROVE  /\ PageOf(k) \notin DOMAIN res => finding'[k] = finding[k]
         /\ Detects(res, k) =>
              finding'[k] = Redetected(finding[k], res[PageOf(k)].hash, seq + 1,
                                       ~Unchanged(PageOf(k), res[PageOf(k)]))
         /\ PageOf(k) \in DOMAIN res /\ ~Detects(res, k) =>
              finding'[k] = NotDetected(finding[k], seq + 1)
<1>1. CASE PageOf(k) \notin DOMAIN res
  BY <1>1 DEF CompleteScan, SyncFindings, Detects
<1>2. CASE PageOf(k) \in DOMAIN res
  BY <1>2 DEF CompleteScan, SyncFindings
<1> QED  BY <1>1, <1>2

(* A carried result is on the evidence its finding has already.            *)
LEMMA CarriedEvidenceIsKnown ==
  ASSUME Inv, NEW pages \in SUBSET Doc, NEW res \in [pages -> Result], CompleteScan(res),
         NEW k \in DOMAIN finding, Detects(res, k), Unchanged(PageOf(k), res[PageOf(k)])
  PROVE  finding[k].hash = res[PageOf(k)].hash
<1>1. k \in Key  BY DEF Inv, TypeOK
<1>2. PICK i \in Latest : /\ PageOf(k) \in DOMAIN scans[i]
                          /\ scans[i][PageOf(k)].content = res[PageOf(k)].content
  BY DEF Unchanged
<1>3. res[PageOf(k)] = scans[i][PageOf(k)]
  BY <1>2 DEF CompleteScan, CarriedOrNew, Detects
<1>4. Detects(scans[i], k)  BY <1>2, <1>3 DEF Detects
<1> QED  BY <1>1, <1>2, <1>3, <1>4 DEF Inv, DetectedIssuesAreTracked

-------------------------------------------------------------------------------

(* The queue, the scans and the clock keep their types, and no finding     *)
(* claims a scan that has not been numbered yet.                           *)
THEOREM FindingsTypeCorrect == Spec => []TypeOK
<1>1. Inv => TypeOK  BY DEF Inv
<1> QED  BY <1>1, InvariantHolds, PTL

(* Every issue of the latest completed scan has its finding, checked by    *)
(* that scan and on that scan's evidence, whatever reviews, prunes, failed *)
(* scans and clears came between (sync_workflow).                          *)
THEOREM FindingsFollowScans == Spec => []DetectedIssuesAreTracked
<1>1. Inv => DetectedIssuesAreTracked  BY DEF Inv
<1> QED  BY <1>1, InvariantHolds, PTL

(* A finding is shown beside a result that raised that very issue: the     *)
(* scan of its last_seen, as long as that scan is stored (get_workflow).   *)
THEOREM ContextFollowsFinding == Spec => []ContextShowsTheFinding
<1>1. Inv => ContextShowsTheFinding  BY DEF Inv
<1> QED  BY <1>1, InvariantHolds, PTL

(* A scan that raises a disposed-of issue again leaves it disposed of only *)
(* if it was disposed of on the very same evidence (_do_sync_findings).    *)
THEOREM DispositionsHold == Spec => DispositionsCoverTheirEvidence
<1> DEFINE Covered ==
      seq' \in DOMAIN scans' /\ seq' > seq =>
        \A k \in DOMAIN finding :
          /\ Detects(scans'[seq'], k)
          /\ finding[k].state \in Terminal /\ finding'[k].state \in Terminal
          => finding[k].hash = scans'[seq'][PageOf(k)].hash
<1>1. Inv /\ [Next]_vars => Covered
  <2> SUFFICES ASSUME Inv, [Next]_vars, seq' \in DOMAIN scans', seq' > seq,
                      NEW k \in DOMAIN finding, Detects(scans'[seq'], k),
                      finding[k].state \in Terminal, finding'[k].state \in Terminal
               PROVE  finding[k].hash = scans'[seq'][PageOf(k)].hash
    OBVIOUS
  <2>0. PICK pages \in SUBSET Doc : \E res \in [pages -> Result] :
          CompleteScan(res) /\ res = scans'[seq']
    BY OnlyCompleteScanStoresAScan
  <2>1. PICK res \in [pages -> Result] : CompleteScan(res) /\ res = scans'[seq']
    BY <2>0
  <2> DEFINE hash == res[PageOf(k)].hash
  <2>2. finding'[k] = Redetected(finding[k], hash, seq + 1,
                                 ~Unchanged(PageOf(k), res[PageOf(k)]))
    BY <2>1, RowAfterScan
  <2>3. CASE MustReopen(finding[k], hash)
    <3>1. finding'[k] = Reopened(finding[k], hash, seq + 1)
      BY <2>2, <2>3 DEF Redetected
    <3>2. finding[k] \in Row  BY DEF Inv, TypeOK
    <3>3. finding'[k].state = "open"  BY <3>1, <3>2 DEF Reopened, Row
    <3> QED  BY <3>3 DEF Terminal
  <2>4. CASE ~MustReopen(finding[k], hash)
    BY <2>1, <2>4 DEF MustReopen
  <2> QED  BY <2>3, <2>4
<1>2. Inv /\ [Next]_vars => [Covered]_vars  BY <1>1
<1> QED  BY <1>2, InvariantHolds, PTL DEF Spec, DispositionsCoverTheirEvidence

(* Right after a scan the queue shows, of the pages the scan fetched, only *)
(* what it raised: whatever state the other findings were in, it resolved  *)
(* them (_do_sync_findings, _AUTO_FIXABLE).                                *)
THEOREM QueueFollowsScans == Spec => ScansClearTheQueue
<1> DEFINE Cleared ==
      seq' \in DOMAIN scans' /\ seq' > seq =>
        \A k \in Queue' : PageOf(k) \in DOMAIN scans'[seq'] => Detects(scans'[seq'], k)
<1>1. Inv /\ [Next]_vars => Cleared
  <2> SUFFICES ASSUME Inv, [Next]_vars, seq' \in DOMAIN scans', seq' > seq,
                      NEW k \in Queue', PageOf(k) \in DOMAIN scans'[seq'],
                      ~Detects(scans'[seq'], k)
               PROVE  FALSE
    OBVIOUS
  <2>0. PICK pages \in SUBSET Doc : \E res \in [pages -> Result] :
          CompleteScan(res) /\ res = scans'[seq']
    BY OnlyCompleteScanStoresAScan
  <2>1. PICK res \in [pages -> Result] : CompleteScan(res) /\ res = scans'[seq']
    BY <2>0
  <2>2. k \in DOMAIN finding
    BY <2>1, CompleteScanRows DEF Inv, Queue
  <2>3. finding'[k] = NotDetected(finding[k], seq + 1)
    BY <2>1, <2>2, RowAfterScan
  <2>4. finding[k] \in Row  BY <2>2 DEF Inv, TypeOK
  <2>5. finding'[k].state = "fixed"
    BY <2>3, <2>4 DEF NotDetected, AutoFixed, Checked, Row
  <2> QED  BY <2>5 DEF Queue, Terminal
<1>2. Inv /\ [Next]_vars => [Cleared]_vars  BY <1>1
<1> QED  BY <1>2, InvariantHolds, PTL DEF Spec, ScansClearTheQueue

(* A scan leaves the findings of pages it did not fetch alone, and a page  *)
(* it found unchanged moves its finding only if a snooze ran out: the row  *)
(* has that evidence already (_do_sync_findings, reanalyzed_doc_ids).      *)
THEOREM ScansNeedEvidence == Spec => ScansActOnEvidence
<1> DEFINE OnEvidence ==
      seq' \in DOMAIN scans' /\ seq' > seq =>
        \A k \in DOMAIN finding : LET res == scans'[seq'] IN
          /\ PageOf(k) \notin DOMAIN res => finding'[k] = finding[k]
          /\ Detects(res, k) /\ Unchanged(PageOf(k), res[PageOf(k)]) /\ ~SnoozeOver(finding[k])
             => finding'[k] = [finding[k] EXCEPT !.checked = seq']
<1>1. Inv /\ [Next]_vars => OnEvidence
  <2> SUFFICES ASSUME Inv, [Next]_vars, seq' \in DOMAIN scans', seq' > seq,
                      NEW k \in DOMAIN finding
               PROVE  LET res == scans'[seq'] IN
                      /\ PageOf(k) \notin DOMAIN res => finding'[k] = finding[k]
                      /\ /\ Detects(res, k) /\ Unchanged(PageOf(k), res[PageOf(k)])
                         /\ ~SnoozeOver(finding[k])
                         => finding'[k] = [finding[k] EXCEPT !.checked = seq']
    OBVIOUS
  <2>0. PICK pages \in SUBSET Doc : \E res \in [pages -> Result] :
          CompleteScan(res) /\ res = scans'[seq']
    BY OnlyCompleteScanStoresAScan
  <2>1. PICK res \in [pages -> Result] : CompleteScan(res) /\ res = scans'[seq']
    BY <2>0
  <2>2. PageOf(k) \notin DOMAIN res => finding'[k] = finding[k]
    BY <2>1, RowAfterScan
  <2>3. ASSUME Detects(res, k), Unchanged(PageOf(k), res[PageOf(k)]), ~SnoozeOver(finding[k])
        PROVE  finding'[k] = [finding[k] EXCEPT !.checked = seq']
    <3>1. finding[k].hash = res[PageOf(k)].hash
      BY <2>1, <2>3, CarriedEvidenceIsKnown
    <3>2. ~MustReopen(finding[k], res[PageOf(k)].hash)
      BY <2>3, <3>1 DEF MustReopen
    <3>3. finding'[k] = Redetected(finding[k], res[PageOf(k)].hash, seq + 1, FALSE)
      BY <2>1, <2>3, RowAfterScan
    <3>4. finding'[k] = Checked(finding[k], seq + 1)
      BY <3>2, <3>3 DEF Redetected
    <3>5. seq' = seq + 1  BY <2>1 DEF CompleteScan
    <3> QED  BY <3>4, <3>5 DEF Checked
  <2> QED  BY <2>1, <2>2, <2>3
<1>2. Inv /\ [Next]_vars => [OnEvidence]_vars  BY <1>1
<1> QED  BY <1>2, InvariantHolds, PTL DEF Spec, ScansActOnEvidence
===============================================================================
