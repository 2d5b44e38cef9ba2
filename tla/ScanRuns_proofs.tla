---------------------------- MODULE ScanRuns_proofs ----------------------------
(***************************************************************************)
(* Theorems about ScanRuns, for any number of attempts, documents, any     *)
(* lease duration and any retention.                                       *)
(***************************************************************************)
EXTENDS ScanRuns, FiniteSetTheorems, TLAPS

-------------------------------------------------------------------------------
(* Type correctness.                                                       *)

LEMMA InitTypeOK == Init => TypeOK
BY LeaseAssumption, StoreAssumption
   DEF Init, StoreInit, TypeOK, StoreTypeOK, RunsTypeOK, Phase, NoLease, Row

(* The row updates of the store yield rows.                                *)
LEMMA RowUpdates ==
  ASSUME NEW row \in Row
  PROVE  /\ Failed(row) \in Row
         /\ Completed(row) \in Row
         /\ \A doc \in Doc : WithDoc(row, doc) \in Row /\ WithResult(row, doc) \in Row
         /\ \A S \in SUBSET Doc : WithCarried(row, S) \in Row
<1>1. Failed(row) \in Row  BY DEF Failed, Row
<1>2. Completed(row) \in Row  BY DEF Completed, Row
<1>3. \A doc \in Doc : WithDoc(row, doc) \in Row /\ WithResult(row, doc) \in Row
  BY DEF WithDoc, WithResult, Row
<1>4. \A S \in SUBSET Doc : WithCarried(row, S) \in Row
  BY DEF WithCarried, Row
<1> QED  BY <1>1, <1>2, <1>3, <1>4

(* A write of a running scan that keeps the row a row keeps the store typed. *)
LEMMA WriteScanTypeOK ==
  ASSUME StoreTypeOK, NEW i \in DOMAIN scans, NEW row \in Row, WriteScan(i, row)
  PROVE  StoreTypeOK'
BY DEF StoreTypeOK, WriteScan

LEMMA WorksTypeOK ==
  ASSUME TypeOK, NEW a \in Attempt, Works(a), 
         mainAge' = [mainAge EXCEPT ![a] = 0], UNCHANGED wakeAge
  PROVE  TypeOK'
<1> USE LeaseAssumption, StoreAssumption
    DEF TypeOK, StoreTypeOK, RunsTypeOK, Phase, Goto, UnchangedRun, Moves, Leaves, Left,
        DropLists, DropContext, storeVars, ctxVars
<1>1. CASE EnterContext(a)  BY <1>1 DEF EnterContext
<1>2. CASE SetupFails(a)  BY <1>2 DEF SetupFails
<1>3. ASSUME NEW fetched \in SUBSET Doc, NEW same \in SUBSET Doc, ReadHashes(a, fetched, same)
      PROVE  TypeOK'
  BY <1>3 DEF ReadHashes
<1>4. CASE Analyze(a)  BY <1>4 DEF Analyze
<1>5. CASE Report(a)  BY <1>5 DEF Report
<1>6. CASE NoReporter(a)  BY <1>6 DEF NoReporter
<1>7. CASE ReadHistory(a)
  <2>1. Latest \subseteq Nat  BY DEF Latest
  <2> QED  BY <1>7, <2>1 DEF ReadHistory
<1>8. CASE RunFails(a)  BY <1>8 DEF RunFails
<1>9. CASE FailsOutside(a)  BY <1>9 DEF FailsOutside
<1>10. CASE FailScanRaises(a)  BY <1>10 DEF FailScanRaises
<1>11. CASE Interrupted(a)  BY <1>11 DEF Interrupted
<1>12. CASE EndScanRaises(a)  BY <1>12 DEF EndScanRaises
<1> QED
  BY <1>1, <1>2, <1>3, <1>4, <1>5, <1>6, <1>7, <1>8, <1>9, <1>10, <1>11, <1>12
  DEF Works

LEMMA WritesTypeOK ==
  ASSUME TypeOK, NEW a \in Attempt, NEW d \in Ages(a), Writes(a, d),
         mainAge' = [mainAge EXCEPT ![a] = 0], UNCHANGED wakeAge
  PROVE  TypeOK'
<1>d. d \in Int  BY DEF TypeOK, RunsTypeOK, Ages
<1> USE LeaseAssumption, StoreAssumption, <1>d
    DEF TypeOK, StoreTypeOK, RunsTypeOK, Phase, Goto, UnchangedRun, Moves, Leaves, Left,
        DropLists, DropContext, storeVars, ctxVars, NoLease
<1>1. CASE TryStartScan(a, d)
  <2>1. scans' \in [DOMAIN scans -> Row]
    BY <1>1, RowUpdates DEF TryStartScan, AcquireLease, Abandoned
  <2> QED  BY <1>1, <2>1 DEF TryStartScan, AcquireLease
<1>2. CASE TryStartRefused(a, d)  BY <1>2 DEF TryStartRefused
<1>3. CASE CheckPasses(a, d)  BY <1>3 DEF CheckPasses
<1>4. CASE CheckFails(a, d)  BY <1>4 DEF CheckFails
<1>5. CASE StartScan(a, d)
  <2>1. seq' \in Nat /\ DOMAIN scans' \subseteq 1..seq' /\ scans' \in [DOMAIN scans' -> Row]
    BY <1>5 DEF StartScan, InsertScan, Token, Row
  <2>2. sid' \in [Attempt -> Nat \cup {None}]
    BY <1>5, <2>1 DEF StartScan
  <2>3. StoreTypeOK'  BY <1>5, <2>1 DEF StartScan, InsertScan
  <2>4. RunsTypeOK'  BY <1>5, <2>2 DEF StartScan
  <2> QED  BY <2>3, <2>4
<1>6. CASE CarryForward(a, d)
  <2>1. sid[a] \in DOMAIN scans /\ scans[sid[a]] \in Row  BY <1>6 DEF CarryForward, MayWrite, IsRunning
  <2>2. WithCarried(scans[sid[a]], skipped[a]) \in Row
    <3>1. skipped[a] \in SUBSET Doc  OBVIOUS
    <3> QED  BY <2>1, <3>1, RowUpdates
  <2>3. StoreTypeOK'  BY <1>6, <2>1, <2>2, WriteScanTypeOK DEF CarryForward
  <2>4. RunsTypeOK'  BY <1>6 DEF CarryForward
  <2> QED  BY <2>3, <2>4
<1>7. CASE CompleteScan(a, d)
  <2>1. sid[a] \in DOMAIN scans /\ scans[sid[a]] \in Row  BY <1>7 DEF CompleteScan, MayWrite, IsRunning
  <2>2. Completed(scans[sid[a]]) \in Row  BY <2>1, RowUpdates
  <2>3. StoreTypeOK'  BY <1>7, <2>1, <2>2, WriteScanTypeOK DEF CompleteScan
  <2>4. RunsTypeOK'  BY <1>7 DEF CompleteScan
  <2> QED  BY <2>3, <2>4
<1>8. ASSUME NEW doc \in Doc, StoreDocument(a, d, doc) PROVE TypeOK'
  <2>1. sid[a] \in DOMAIN scans /\ scans[sid[a]] \in Row  BY <1>8 DEF StoreDocument, MayWrite, IsRunning
  <2>2. WithDoc(scans[sid[a]], doc) \in Row  BY <2>1, RowUpdates
  <2>3. StoreTypeOK'  BY <1>8, <2>1, <2>2, WriteScanTypeOK DEF StoreDocument
  <2>4. RunsTypeOK'  BY <1>8 DEF StoreDocument, AfterFetch
  <2> QED  BY <2>3, <2>4
<1>9. ASSUME NEW doc \in Doc, StoreResult(a, d, doc) PROVE TypeOK'
  <2>1. sid[a] \in DOMAIN scans /\ scans[sid[a]] \in Row  BY <1>9 DEF StoreResult, MayWrite, IsRunning
  <2>2. WithResult(scans[sid[a]], doc) \in Row  BY <2>1, RowUpdates
  <2>3. StoreTypeOK'  BY <1>9, <2>1, <2>2, WriteScanTypeOK DEF StoreResult
  <2>4. RunsTypeOK'  BY <1>9 DEF StoreResult
  <2> QED  BY <2>3, <2>4
<1>10. CASE WriteRefused(a, d)  BY <1>10 DEF WriteRefused
<1>11. CASE FailScan(a, d)
  <2>1. CASE MayWrite(a, sid[a], d)
    <3>1. sid[a] \in DOMAIN scans /\ Failed(scans[sid[a]]) \in Row
      BY <2>1, RowUpdates DEF MayWrite, IsRunning
    <3> QED  BY <1>11, <2>1, <3>1, WriteScanTypeOK DEF FailScan
  <2>2. CASE ~MayWrite(a, sid[a], d)  BY <1>11, <2>2 DEF FailScan
  <2> QED  BY <2>1, <2>2
<1>12. CASE Prune(a, d)  BY <1>12 DEF Prune, PruneScans
<1>13. CASE PruneFails(a, d)  BY <1>13 DEF PruneFails
<1>14. CASE EndScan(a, d)  BY <1>14 DEF EndScan, ReleaseLease
<1>15. CASE EndScanRefused(a, d)  BY <1>15 DEF EndScanRefused
<1> QED
  BY <1>1, <1>2, <1>3, <1>4, <1>5, <1>6, <1>7, <1>8, <1>9, <1>10, <1>11, <1>12, <1>13, <1>14, <1>15
  DEF Writes

LEMMA RenewalTypeOK ==
  ASSUME TypeOK, NEW a \in Attempt, Renewal(a)
  PROVE  TypeOK'
<1> USE LeaseAssumption DEF TypeOK, StoreTypeOK, RunsTypeOK, storeVars, runVars, ctxVars, ages
<1>1. CASE RenewalWakes(a)  BY <1>1 DEF RenewalWakes
<1>2. CASE RenewRaises(a)  BY <1>2 DEF RenewRaises
<1>3. ASSUME NEW d \in 0..wakeAge[a], Renew(a, d) PROVE TypeOK'
  BY <1>3 DEF Renew, RenewedLease
<1>4. ASSUME NEW d \in 0..wakeAge[a], RenewRefused(a, d) PROVE TypeOK'
  BY <1>4 DEF RenewRefused
<1> QED  BY <1>1, <1>2, <1>3, <1>4 DEF Renewal

(* TypeOK is inductive.                                                    *)
LEMMA NextTypeOK == TypeOK /\ [Next]_vars => TypeOK'
<1> SUFFICES ASSUME TypeOK, [Next]_vars PROVE TypeOK'
  OBVIOUS
<1> USE LeaseAssumption, StoreAssumption DEF TypeOK, StoreTypeOK, RunsTypeOK
<1>1. ASSUME NEW a \in Attempt, Step(a) PROVE TypeOK'
  BY <1>1, WorksTypeOK, WritesTypeOK DEF Step
<1>2. ASSUME NEW a \in Attempt, Dies(a) PROVE TypeOK'
  BY <1>2 DEF Dies, Crash, Goto, DropLists, DropContext, storeVars, ages, Phase
<1>3. ASSUME NEW a \in Attempt, Renewal(a) PROVE TypeOK'
  BY <1>3, RenewalTypeOK
<1>4. CASE Tick
  BY <1>4 DEF Tick, Older, runVars, ctxVars
<1>5. ASSUME NEW d \in 0..MaxDelay, ClearScans(d) PROVE TypeOK'
  BY <1>5 DEF ClearScans, ClearAllIfIdle, NoLease, runVars, ctxVars, ages
<1>6. CASE UNCHANGED vars
  BY <1>6 DEF vars, storeVars, runVars, ctxVars, ages
<1> QED  BY <1>1, <1>2, <1>3, <1>4, <1>5, <1>6 DEF Next

(* Every variable of the store and of the attempts keeps its type.         *)
THEOREM TypeCorrect == Spec => []TypeOK
<1>1. Init => TypeOK  BY InitTypeOK
<1>2. TypeOK /\ [Next]_vars => TypeOK'  BY NextTypeOK
<1> QED  BY <1>1, <1>2, PTL DEF Spec

-------------------------------------------------------------------------------
(* What the steps do to the store and to the phases.                       *)

Tail == {"prune", "report", "finish"}

(* Steps of the main thread that are not transactions leave the store      *)
(* alone and move only their own attempt.                                  *)
LEMMA WorksEffect ==
  ASSUME TypeOK, NEW a \in Attempt, Works(a)
  PROVE  /\ UNCHANGED <<lease, lastScan, scans, seq, sid>>
         /\ \A b \in Attempt \ {a} : phase'[b] = phase[b] /\ lost'[b] = lost[b]
         /\ lost'[a] => lost[a]
         /\ phase'[a] \notin {"new", "held"}
         /\ phase'[a] = "start" => phase[a] = "held"
         /\ phase'[a] = "exit" => a \notin Unleased \/ phase[a] = "held"
         /\ phase'[a] \in Tail => phase[a] \in Tail
         /\ ~CleanupMayFail /\ phase'[a] = "exit" => phase[a] \in {"held", "start"} \cup Tail
BY DEF Works, EnterContext, SetupFails, ReadHashes, Analyze, Report, NoReporter, ReadHistory,
       RunFails, FailsOutside, FailScanRaises, Interrupted, EndScanRaises, Guarded, Boundary,
       Moves, Leaves, Left, Goto, DropLists, DropContext, UnchangedRun, storeVars, ctxVars,
       TypeOK, RunsTypeOK, Tail

(* A write of a running scan rewrites the row of the attempt's own scan,   *)
(* keeps its owner, and leaves the program only with the scan finished.    *)
RewritesOwn(a, d) ==
  /\ MayWrite(a, sid[a], d)
  /\ DOMAIN scans' = DOMAIN scans
  /\ \A i \in DOMAIN scans : scans'[i].owner = scans[i].owner
  /\ \A i \in DOMAIN scans : i # sid[a] => scans'[i] = scans[i]
  /\ phase'[a] = "exit" => scans'[sid[a]].status = "failed"
  /\ phase'[a] \in Tail => scans'[sid[a]].status = "completed"
  /\ \/ scans'[sid[a]].status # "failed"
     \/ scans'[sid[a]].docs = {} /\ scans'[sid[a]].results = {}
  /\ UNCHANGED <<lease, lastScan, seq, sid, lost>>
  /\ \A b \in Attempt \ {a} : phase'[b] = phase[b]
  /\ phase'[a] \notin {"new", "held", "start"}
  /\ phase'[a] = "exit" => a \notin Unleased

LEMMA RowRewrite ==
  ASSUME StoreTypeOK, NEW i \in DOMAIN scans, NEW row, WriteScan(i, row),
         row.owner = scans[i].owner
  PROVE  /\ DOMAIN scans' = DOMAIN scans
         /\ \A j \in DOMAIN scans : scans'[j].owner = scans[j].owner
         /\ \A j \in DOMAIN scans : j # i => scans'[j] = scans[j]
         /\ scans'[i] = row
         /\ UNCHANGED <<lease, lastScan, seq>>
<1>1. scans' = [scans EXCEPT ![i] = row] /\ UNCHANGED <<lease, lastScan, seq>>
  BY DEF WriteScan
<1>2. DOMAIN scans' = DOMAIN scans  BY <1>1
<1>3. scans'[i] = row  BY <1>1
<1>4. \A j \in DOMAIN scans : j # i => scans'[j] = scans[j]  BY <1>1
<1> QED  BY <1>1, <1>2, <1>3, <1>4

LEMMA WriteEffect ==
  ASSUME TypeOK, NEW a \in Attempt, NEW d,
         \/ CarryForward(a, d) \/ CompleteScan(a, d)
         \/ \E doc \in Doc : StoreDocument(a, d, doc) \/ StoreResult(a, d, doc)
         \/ FailScan(a, d) /\ MayWrite(a, sid[a], d)
  PROVE  RewritesOwn(a, d)
<1> USE DEF TypeOK, RunsTypeOK, Tail, Goto, UnchangedRun, DropLists, ctxVars, RewritesOwn
<1>w. MayWrite(a, sid[a], d)
  BY DEF CarryForward, CompleteScan, StoreDocument, StoreResult
<1>i. sid[a] \in DOMAIN scans /\ scans[sid[a]].status = "running"
  BY <1>w DEF MayWrite, IsRunning
<1>r. scans[sid[a]] \in Row  BY <1>i DEF StoreTypeOK
<1> DEFINE row == scans[sid[a]]
<1>1. CASE CarryForward(a, d)
  <2>1. WithCarried(row, skipped[a]).owner = row.owner /\ WithCarried(row, skipped[a]).status = row.status
    BY <1>r DEF WithCarried, Row
  <2> QED  BY <1>1, <1>w, <1>i, <2>1, RowRewrite DEF CarryForward
<1>2. CASE CompleteScan(a, d)
  <2>1. Completed(row).owner = row.owner /\ Completed(row).status = "completed"
    BY <1>r DEF Completed, Row
  <2> QED  BY <1>2, <1>w, <1>i, <2>1, RowRewrite DEF CompleteScan
<1>3. ASSUME NEW doc \in Doc, StoreDocument(a, d, doc) PROVE RewritesOwn(a, d)
  <2>1. WithDoc(row, doc).owner = row.owner /\ WithDoc(row, doc).status = row.status
    BY <1>r DEF WithDoc, Row
  <2> QED  BY <1>3, <1>w, <1>i, <2>1, RowRewrite DEF StoreDocument, AfterFetch
<1>4. ASSUME NEW doc \in Doc, StoreResult(a, d, doc) PROVE RewritesOwn(a, d)
  <2>1. WithResult(row, doc).owner = row.owner /\ WithResult(row, doc).status = row.status
    BY <1>r DEF WithResult, Row
  <2> QED  BY <1>4, <1>w, <1>i, <2>1, RowRewrite DEF StoreResult
<1>5. CASE FailScan(a, d) /\ MayWrite(a, sid[a], d)
  <2>1. Failed(row).owner = row.owner /\ Failed(row).status = "failed"
    BY <1>r DEF Failed, Row
  <2>2. Failed(row).docs = {} /\ Failed(row).results = {}
    BY <1>r DEF Failed, Row
  <2> QED  BY <2>2, <1>5, <1>w, <1>i, <2>1, RowRewrite DEF FailScan, Left
<1> QED  BY <1>1, <1>2, <1>3, <1>4, <1>5

(* A transaction that is refused changes no row, and an attempt that       *)
(* leaves because of it lost the lease or has no running scan.             *)
Refused(a, d) ==
  \/ TryStartRefused(a, d) \/ CheckPasses(a, d) \/ CheckFails(a, d) \/ WriteRefused(a, d)
  \/ PruneFails(a, d) \/ EndScanRefused(a, d)
  \/ FailScan(a, d) /\ ~MayWrite(a, sid[a], d)

LEMMA RefusedEffect ==
  ASSUME TypeOK, NEW a \in Attempt, NEW d, Refused(a, d)
  PROVE  /\ UNCHANGED <<lease, lastScan, scans, seq, sid>>
         /\ \A b \in Attempt \ {a} : phase'[b] = phase[b] /\ lost'[b] = lost[b]
         /\ lost'[a] => lost[a] \/ ~HoldsAt(a, d)
         /\ phase'[a] \notin {"new", "held"}
         /\ phase'[a] = "start" => phase[a] = "start"
         /\ phase'[a] \in Tail => phase[a] \in Tail
         /\ phase'[a] = "exit" => /\ a \notin Unleased
                                  /\ \/ phase[a] = "start" \/ lost[a]
                                     \/ ~HoldsAt(a, d) \/ ~RunsOwn(a)
BY DEF Refused, TryStartRefused, CheckPasses, CheckFails, WriteRefused, PruneFails,
       EndScanRefused, FailScan, Boundary, MayWrite, MayProceed, IsRunning, Token, RunsOwn,
       Moves, Leaves, Left, Goto, DropLists, DropContext, UnchangedRun, storeVars, ctxVars,
       TypeOK, RunsTypeOK, Tail

-------------------------------------------------------------------------------
(* Every leased row belongs to one attempt.                                *)

LEMMA InitOwnership == Init => Ownership
BY StoreAssumption DEF Init, StoreInit, NoLease, Ownership

LEMMA NextOwnership == TypeOK /\ Ownership /\ [Next]_vars => Ownership'
<1> SUFFICES ASSUME TypeOK, Ownership, [Next]_vars PROVE Ownership'
  OBVIOUS
<1> USE StoreAssumption DEF TypeOK, RunsTypeOK, Ownership
<1>1. ASSUME NEW a \in Attempt, Works(a) PROVE Ownership'
  BY <1>1, WorksEffect
<1>2. ASSUME NEW a \in Attempt, NEW d \in Ages(a), Writes(a, d) PROVE Ownership'
  <2>1. CASE TryStartScan(a, d)
    <3>1. /\ lease'.owner = a /\ sid' = sid /\ a \notin Unleased
          /\ phase'[a] = "held" /\ \A b \in Attempt \ {a} : phase'[b] = phase[b]
      BY <2>1 DEF TryStartScan, AcquireLease, Goto, UnchangedRun
    <3>2. DOMAIN scans' = DOMAIN scans /\ \A i \in DOMAIN scans : scans'[i].owner = scans[i].owner
      <4>1. \A i \in DOMAIN scans : Failed(scans[i]).owner = scans[i].owner
        BY DEF Failed, StoreTypeOK, Row
      <4> QED  BY <2>1, <4>1 DEF TryStartScan, AcquireLease, Abandoned
    <3> QED  BY <2>1, <3>1, <3>2 DEF TryStartScan
  <2>2. CASE StartScan(a, d)
    <3>1. /\ seq + 1 \notin DOMAIN scans /\ DOMAIN scans' = DOMAIN scans \cup {seq + 1}
          /\ scans'[seq + 1].owner = Token(a)
          /\ \A i \in DOMAIN scans : scans'[i] = scans[i]
      BY <2>2 DEF StartScan, InsertScan, StoreTypeOK
    <3>2. lease' = lease /\ sid'[a] = seq + 1 /\ \A b \in Attempt \ {a} : sid'[b] = sid[b]
      BY <2>2 DEF StartScan, InsertScan
    <3>3. sid[a] = None /\ phase'[a] = "hashes" /\ \A b \in Attempt \ {a} : phase'[b] = phase[b]
      BY <2>2 DEF StartScan, Goto
    <3>4. \A i \in DOMAIN scans : scans[i].owner # a
      BY <3>3 DEF StoreTypeOK
    <3> QED  BY <3>1, <3>2, <3>3, <3>4 DEF Token, StoreTypeOK, Row
  <2>3. ASSUME RewritesOwn(a, d) PROVE Ownership'
    BY <2>3 DEF RewritesOwn
  <2>4. ASSUME Refused(a, d) PROVE Ownership'
    BY <2>4, RefusedEffect
  <2>5. CASE Prune(a, d)
    BY <2>5 DEF Prune, PruneScans, Goto, UnchangedRun
  <2>6. CASE EndScan(a, d)
    BY <2>6 DEF EndScan, ReleaseLease, NoLease, Goto, UnchangedRun
  <2> QED  BY <1>2, <2>1, <2>2, <2>3, <2>4, <2>5, <2>6, WriteEffect DEF Writes, Refused
<1>3. ASSUME NEW a \in Attempt, Dies(a) PROVE Ownership'
  BY <1>3 DEF Dies, Crash, Goto, DropLists, storeVars
<1>4. ASSUME NEW a \in Attempt, Renewal(a) PROVE Ownership'
  BY <1>4 DEF Renewal, RenewalWakes, RenewRaises, Renew, RenewRefused, RenewedLease, HoldsAt,
              storeVars, runVars
<1>5. CASE Tick
  BY <1>5 DEF Tick, runVars, StoreTypeOK
<1>6. ASSUME NEW d \in 0..MaxDelay, ClearScans(d) PROVE Ownership'
  BY <1>6 DEF ClearScans, ClearAllIfIdle, NoLease, runVars
<1>7. CASE UNCHANGED vars
  BY <1>7 DEF vars, storeVars, runVars
<1> QED  BY <1>1, <1>2, <1>3, <1>4, <1>5, <1>6, <1>7 DEF Next, Step

-------------------------------------------------------------------------------
(* Failed scans.                                                           *)

(* What acquiring the lease does to the rows: the running scans of the     *)
(* expired owner are failed and emptied, every other row stays.            *)
LEMMA AcquireEffect ==
  ASSUME StoreTypeOK, NEW a \in Attempt, NEW d, AcquireLease(a, d)
  PROVE  /\ DOMAIN scans' = DOMAIN scans
         /\ \A i \in DOMAIN scans :
              \/ /\ scans'[i] = scans[i]
                 /\ ~(IsRunning(i) /\ lease.owner # None /\ scans[i].owner = lease.owner)
              \/ /\ IsRunning(i) /\ lease.owner # None /\ scans[i].owner = lease.owner
                 /\ scans'[i].status = "failed" /\ scans'[i].owner = scans[i].owner
                 /\ scans'[i].docs = {} /\ scans'[i].results = {}
         /\ lease'.owner = a
         /\ UNCHANGED <<lastScan, seq>>
<1>1. \A i \in DOMAIN scans :
        /\ Failed(scans[i]).status = "failed" /\ Failed(scans[i]).owner = scans[i].owner
        /\ Failed(scans[i]).docs = {} /\ Failed(scans[i]).results = {}
  BY DEF Failed, StoreTypeOK, Row
<1>2. CASE lease.owner = None
  BY <1>2 DEF AcquireLease
<1>3. CASE lease.owner # None
  BY <1>1, <1>3 DEF AcquireLease, Abandoned, IsRunning
<1> QED  BY <1>2, <1>3

LEMMA StartEffect ==
  ASSUME StoreTypeOK, NEW a \in Attempt, InsertScan(a)
  PROVE  /\ seq + 1 \notin DOMAIN scans /\ DOMAIN scans' = DOMAIN scans \cup {seq + 1}
         /\ scans'[seq + 1].owner = Token(a) /\ scans'[seq + 1].status = "running"
         /\ \A i \in DOMAIN scans : scans'[i] = scans[i]
         /\ seq' = seq + 1
         /\ UNCHANGED <<lease, lastScan>>
BY DEF InsertScan, StoreTypeOK

LEMMA NextFailedScansAreEmpty ==
  TypeOK /\ FailedScansAreEmpty /\ [Next]_vars => FailedScansAreEmpty'
<1> SUFFICES ASSUME TypeOK, FailedScansAreEmpty, [Next]_vars PROVE FailedScansAreEmpty'
  OBVIOUS
<1> USE DEF FailedScansAreEmpty
<1>1. ASSUME NEW a \in Attempt, Works(a) PROVE FailedScansAreEmpty'
  BY <1>1, WorksEffect
<1>2. ASSUME NEW a \in Attempt, NEW d \in Ages(a), Writes(a, d) PROVE FailedScansAreEmpty'
  <2>1. CASE TryStartScan(a, d)
    BY <2>1, AcquireEffect DEF TypeOK, TryStartScan
  <2>2. CASE StartScan(a, d)
    BY <2>2, StartEffect DEF TypeOK, StartScan
  <2>3. ASSUME RewritesOwn(a, d) PROVE FailedScansAreEmpty'
    BY <2>3 DEF RewritesOwn
  <2>4. ASSUME Refused(a, d) PROVE FailedScansAreEmpty'
    BY <2>4, RefusedEffect
  <2>5. CASE Prune(a, d)
    BY <2>5 DEF Prune, PruneScans
  <2>6. CASE EndScan(a, d)
    BY <2>6 DEF EndScan, ReleaseLease
  <2> QED  BY <1>2, <2>1, <2>2, <2>3, <2>4, <2>5, <2>6, WriteEffect DEF Writes, Refused
<1>3. ASSUME NEW a \in Attempt, Dies(a) PROVE FailedScansAreEmpty'
  BY <1>3 DEF Dies, Crash, storeVars
<1>4. ASSUME NEW a \in Attempt, Renewal(a) PROVE FailedScansAreEmpty'
  BY <1>4 DEF Renewal, RenewalWakes, RenewRaises, Renew, RenewRefused, storeVars
<1>5. CASE Tick
  BY <1>5 DEF Tick
<1>6. ASSUME NEW d \in 0..MaxDelay, ClearScans(d) PROVE FailedScansAreEmpty'
  BY <1>6 DEF ClearScans, ClearAllIfIdle
<1>7. CASE UNCHANGED vars
  BY <1>7 DEF vars, storeVars
<1> QED  BY <1>1, <1>2, <1>3, <1>4, <1>5, <1>6, <1>7 DEF Next, Step

(* A scan that failed or was abandoned stays empty, however late the       *)
(* writes of the worker that lost it arrive, and with any clock delay.     *)
THEOREM FailedScansStayEmpty == Spec => []FailedScansAreEmpty
<1>1. Init => FailedScansAreEmpty
  BY DEF Init, StoreInit, FailedScansAreEmpty
<1>2. TypeOK /\ FailedScansAreEmpty /\ [Next]_vars => FailedScansAreEmpty'
  BY NextFailedScansAreEmpty
<1> QED  BY <1>1, <1>2, TypeCorrect, PTL DEF Spec

(* A leased row belongs to the one attempt that inserted it.               *)
THEOREM RowsHaveOneOwner == Spec => []Ownership
<1>1. Init => Ownership  BY InitOwnership
<1>2. TypeOK /\ Ownership /\ [Next]_vars => Ownership'  BY NextOwnership
<1> QED  BY <1>1, <1>2, TypeCorrect, PTL DEF Spec

-------------------------------------------------------------------------------
(* Completed scans, where every run holds a lease.                         *)

Claims(a) == lease.owner = a /\ IsRunning(sid[a]) /\ scans[sid[a]].owner = a

(* What the scan of a holds when a is in a phase, as long as nobody has    *)
(* taken the lease.  Nobody else can complete or prune a scan until then,  *)
(* so the latest completed scan is the one whose hashes a has read.        *)
Progress(a) ==
  LET row == scans[sid[a]]
      fetched == changed[a] \cup skipped[a]
  IN /\ phase[a] = "hashes" => row.docs = {} /\ row.results = {}
     /\ phase[a] = "fetch" =>
          /\ row.docs = fetched \ todo[a] /\ todo[a] \subseteq fetched
          /\ row.results = {} /\ skipped[a] \subseteq LatestDocs
     /\ phase[a] = "carry" =>
          row.docs = fetched /\ row.results = {} /\ skipped[a] \subseteq LatestDocs
     /\ phase[a] = "analyze" => row.docs = fetched /\ row.results = skipped[a]
     /\ phase[a] = "store" =>
          row.docs = fetched /\ row.results = fetched \ todo[a] /\ todo[a] \subseteq changed[a]
     /\ phase[a] = "complete" => row.results = row.docs
     /\ phase[a] \in {"fetch", "carry", "analyze", "store"} => changed[a] \cap skipped[a] = {}

ProgressInv == CompletedScansAreWhole /\ \A a \in Attempt : Claims(a) => Progress(a)

LEMMA WorksProgress ==
  ASSUME TypeOK, ProgressInv, NEW a \in Attempt, Works(a)
  PROVE  ProgressInv'
<1> USE DEF TypeOK, RunsTypeOK, ProgressInv
<1>1. UNCHANGED <<lease, scans, sid>> /\ \A b \in Attempt \ {a} : phase'[b] = phase[b]
  BY WorksEffect
<1>2. \A b \in Attempt \ {a} :
        changed'[b] = changed[b] /\ skipped'[b] = skipped[b] /\ todo'[b] = todo[b]
  BY DEF Works, EnterContext, SetupFails, ReadHashes, Analyze, Report, NoReporter, ReadHistory,
         RunFails, FailsOutside, FailScanRaises, Interrupted, EndScanRaises, Moves, Leaves,
         DropLists, UnchangedRun
<1>3. CompletedScansAreWhole' /\ LatestDocs' = LatestDocs
  BY <1>1 DEF CompletedScansAreWhole, LatestDocs, Latest
<1>4. \A b \in Attempt \ {a} : Claims(b)' => Progress(b)'
  BY <1>1, <1>2, <1>3 DEF Claims, Progress, IsRunning
<1>5. Claims(a)' => Claims(a)
  BY <1>1 DEF Claims, IsRunning
<1>6. ASSUME Claims(a)  PROVE Progress(a)'
  <2>1. ASSUME NEW fetched \in SUBSET Doc, NEW same \in SUBSET Doc, ReadHashes(a, fetched, same)
        PROVE  Progress(a)'
    <3>1. /\ changed'[a] = fetched \ same /\ skipped'[a] = same /\ todo'[a] = fetched
          /\ same \subseteq fetched /\ same \subseteq LatestDocs
          /\ phase[a] = "hashes" /\ phase'[a] = IF fetched = {} THEN "complete" ELSE "fetch"
      BY <2>1 DEF ReadHashes, Goto
    <3> QED  BY <1>1, <1>3, <1>6, <3>1 DEF Progress
  <2>2. CASE Analyze(a)
    <3>1. /\ changed'[a] = changed[a] /\ skipped'[a] = skipped[a] /\ todo'[a] = changed[a]
          /\ phase[a] = "analyze" /\ phase'[a] = "store"
      BY <2>2 DEF Analyze, Goto
    <3> QED  BY <1>1, <1>3, <1>6, <3>1 DEF Progress
  <2>3. CASE ~Analyze(a) /\ ~(\E fetched, same \in SUBSET Doc : ReadHashes(a, fetched, same))
    <3>1. phase'[a] \notin {"hashes", "fetch", "carry", "analyze", "store", "complete"}
      BY <2>3 DEF Works, EnterContext, SetupFails, Report, NoReporter, ReadHistory, RunFails,
            FailsOutside, FailScanRaises, Interrupted, EndScanRaises, Moves, Leaves, Left, Goto
    <3> QED  BY <3>1 DEF Progress
  <2> QED  BY <2>1, <2>2, <2>3
<1> QED  BY <1>3, <1>4, <1>5, <1>6

LEMMA RunningWriteKeepsLatest ==
  ASSUME StoreTypeOK, NEW i \in DOMAIN scans, NEW row, WriteScan(i, row),
         scans[i].status = "running", row.status = "running"
  PROVE  scans'[i] = row /\ LatestDocs' = LatestDocs
<1>1. scans' = [scans EXCEPT ![i] = row]
  BY DEF WriteScan
<1>2. \A j \in DOMAIN scans : j # i => scans'[j] = scans[j]
  BY <1>1
<1>3. DOMAIN scans' = DOMAIN scans /\ scans'[i] = row
  BY <1>1
<1>4. Latest' = Latest /\ i \notin Latest
  BY <1>2, <1>3 DEF Latest
<1>5. \A j \in Latest : scans'[j].docs = scans[j].docs
  BY <1>2, <1>4 DEF Latest
<1> QED  BY <1>3, <1>4, <1>5 DEF LatestDocs

(* A write of a that keeps other scans as they are, and completes its own  *)
(* only if that is whole, is seen by nobody else: a holds the lease.       *)
LEMMA OwnWriteProgress ==
  ASSUME TypeOK, ProgressInv, NEW a \in Attempt, NEW row \in Row,
         lease.owner = a, IsRunning(sid[a]), scans[sid[a]].owner = a,
         WriteScan(sid[a], row), row.owner = a,
         row.status = "completed" => row.results = row.docs,
         sid' = sid,
         row.status = "running" => Progress(a)'
  PROVE  ProgressInv'
<1> USE DEF TypeOK, ProgressInv
<1>1. /\ DOMAIN scans' = DOMAIN scans /\ scans'[sid[a]] = row /\ lease' = lease
      /\ \A i \in DOMAIN scans : i # sid[a] => scans'[i] = scans[i]
  BY RowRewrite DEF IsRunning
<1>2. CompletedScansAreWhole'
  BY <1>1 DEF CompletedScansAreWhole
<1>3. \A b \in Attempt : Claims(b)' => b = a /\ row.status = "running"
  BY <1>1 DEF Claims, IsRunning
<1> QED  BY <1>2, <1>3

LEMMA WritesProgress ==
  ASSUME Unleased = {}, TypeOK, ProgressInv, NEW a \in Attempt, NEW d, Writes(a, d)
  PROVE  ProgressInv'
<1> USE DEF TypeOK, RunsTypeOK, ProgressInv
<1> DEFINE row == scans[sid[a]]
           fetched == changed[a] \cup skipped[a]
<1>1. ASSUME MayWrite(a, sid[a], d)
      PROVE  /\ lease.owner = a /\ IsRunning(sid[a]) /\ row.owner = a /\ row \in Row
             /\ row.status = "running" /\ Progress(a)
  BY <1>1 DEF MayWrite, HoldsAt, Token, Claims, IsRunning, StoreTypeOK
<1>2. ASSUME NEW doc \in Doc, StoreDocument(a, d, doc)  PROVE ProgressInv'
  <2>1. /\ MayWrite(a, sid[a], d) /\ doc \in todo[a] /\ phase[a] = "fetch"
        /\ todo'[a] = todo[a] \ {doc} /\ sid' = sid
        /\ changed' = changed /\ skipped' = skipped
        /\ phase'[a] = IF todo[a] = {doc} THEN AfterFetch(changed[a], skipped[a]) ELSE "fetch"
        /\ WriteScan(sid[a], WithDoc(row, doc))
    BY <1>2 DEF StoreDocument, Goto
  <2>2. /\ WithDoc(row, doc) \in Row /\ WithDoc(row, doc).docs = row.docs \cup {doc}
        /\ WithDoc(row, doc).results = row.results /\ WithDoc(row, doc).owner = a
        /\ WithDoc(row, doc).status = "running"
    BY <1>1, <2>1 DEF WithDoc, Row
  <2>3. scans'[sid[a]] = WithDoc(row, doc) /\ LatestDocs' = LatestDocs
    BY <1>1, <2>1, <2>2, RunningWriteKeepsLatest DEF IsRunning
  <2>4. WithDoc(row, doc).docs = fetched \ todo'[a] /\ WithDoc(row, doc).results = {}
    BY <1>1, <2>1, <2>2 DEF Progress
  <2>5. Progress(a)'
    <3>1. CASE todo[a] # {doc}
      BY <1>1, <2>1, <2>3, <2>4, <3>1 DEF Progress
    <3>2. CASE todo[a] = {doc}
      <4>1. WithDoc(row, doc).docs = fetched
        BY <2>1, <2>4, <3>2
      <4>2. \/ phase'[a] = "carry"
            \/ phase'[a] = "complete" /\ fetched = {}
            \/ phase'[a] = "analyze" /\ skipped[a] = {}
        BY <2>1, <3>2 DEF AfterFetch
      <4> QED  BY <1>1, <2>1, <2>3, <2>4, <4>1, <4>2 DEF Progress
    <3> QED  BY <3>1, <3>2
  <2> QED  BY <1>1, <2>1, <2>2, <2>5, OwnWriteProgress
<1>3. CASE CarryForward(a, d)
  <2>1. /\ MayWrite(a, sid[a], d) /\ phase[a] = "carry" /\ sid' = sid
        /\ changed' = changed /\ skipped' = skipped /\ todo' = todo
        /\ phase'[a] = IF changed[a] = {} THEN "complete" ELSE "analyze"
        /\ WriteScan(sid[a], WithCarried(row, skipped[a]))
    BY <1>3 DEF CarryForward, Goto, UnchangedRun
  <2>2. LatestResults = LatestDocs
    BY DEF CompletedScansAreWhole, LatestResults, LatestDocs, Latest
  <2>3. /\ WithCarried(row, skipped[a]) \in Row /\ WithCarried(row, skipped[a]).docs = fetched
        /\ WithCarried(row, skipped[a]).results = skipped[a]
        /\ WithCarried(row, skipped[a]).owner = a
        /\ WithCarried(row, skipped[a]).status = "running"
    BY <1>1, <2>1, <2>2 DEF WithCarried, Row, Progress
  <2>4. scans'[sid[a]] = WithCarried(row, skipped[a])
    BY <1>1, <2>1, <2>3, RunningWriteKeepsLatest DEF IsRunning
  <2>5. changed[a] \cap skipped[a] = {}
    BY <1>1, <2>1 DEF Progress
  <2>6. Progress(a)'
    <3>1. CASE changed[a] = {}
      <4>1. phase'[a] = "complete" /\ skipped[a] = fetched
        BY <2>1, <3>1
      <4> QED  BY <2>1, <2>3, <2>4, <4>1 DEF Progress
    <3>2. CASE changed[a] # {}
      <4>1. phase'[a] = "analyze"
        BY <2>1, <3>2
      <4> QED  BY <2>1, <2>3, <2>4, <2>5, <4>1 DEF Progress
    <3> QED  BY <3>1, <3>2
  <2> QED  BY <1>1, <2>1, <2>3, <2>6, OwnWriteProgress
<1>4. ASSUME NEW doc \in Doc, StoreResult(a, d, doc)  PROVE ProgressInv'
  <2>1. /\ MayWrite(a, sid[a], d) /\ doc \in todo[a] /\ phase[a] = "store"
        /\ todo'[a] = todo[a] \ {doc} /\ sid' = sid
        /\ changed' = changed /\ skipped' = skipped
        /\ phase'[a] = IF todo[a] = {doc} THEN "complete" ELSE "store"
        /\ WriteScan(sid[a], WithResult(row, doc))
    BY <1>4 DEF StoreResult, Goto
  <2>2. /\ WithResult(row, doc) \in Row /\ WithResult(row, doc).docs = row.docs
        /\ WithResult(row, doc).results = row.results \cup {doc}
        /\ WithResult(row, doc).owner = a /\ WithResult(row, doc).status = "running"
    BY <1>1, <2>1 DEF WithResult, Row
  <2>3. scans'[sid[a]] = WithResult(row, doc)
    BY <1>1, <2>1, <2>2, RunningWriteKeepsLatest DEF IsRunning
  <2>4. WithResult(row, doc).docs = fetched /\ WithResult(row, doc).results = fetched \ todo'[a]
    BY <1>1, <2>1, <2>2 DEF Progress
  <2>5. Progress(a)'
    <3>1. changed[a] \cap skipped[a] = {} /\ todo'[a] \subseteq changed[a]
      BY <1>1, <2>1 DEF Progress
    <3>2. CASE todo[a] # {doc}
      BY <2>1, <2>3, <2>4, <3>1, <3>2 DEF Progress
    <3>3. CASE todo[a] = {doc}
      <4>1. WithResult(row, doc).results = fetched
        BY <2>1, <2>4, <3>3
      <4> QED  BY <2>1, <2>3, <2>4, <3>1, <3>3, <4>1 DEF Progress
    <3> QED  BY <3>2, <3>3
  <2> QED  BY <1>1, <2>1, <2>2, <2>5, OwnWriteProgress
<1>5. CASE CompleteScan(a, d)
  <2>1. /\ MayWrite(a, sid[a], d) /\ phase[a] = "complete" /\ sid' = sid
        /\ WriteScan(sid[a], Completed(row))
    BY <1>5 DEF CompleteScan, DropLists
  <2>2. /\ Completed(row) \in Row /\ Completed(row).owner = a
        /\ Completed(row).status = "completed" /\ Completed(row).docs = Completed(row).results
    BY <1>1, <2>1 DEF Completed, Row, Progress
  <2> QED  BY <1>1, <2>1, <2>2, OwnWriteProgress
<1>6. CASE FailScan(a, d) /\ MayWrite(a, sid[a], d)
  <2>1. sid' = sid /\ WriteScan(sid[a], Failed(row))
    BY <1>6 DEF FailScan, DropLists
  <2>2. Failed(row) \in Row /\ Failed(row).owner = a /\ Failed(row).status = "failed"
    BY <1>1, <1>6 DEF Failed, Row
  <2> QED  BY <1>1, <1>6, <2>1, <2>2, OwnWriteProgress
<1>7. CASE TryStartScan(a, d)
  <2>1. CompletedScansAreWhole'
    BY <1>7, AcquireEffect DEF TryStartScan, CompletedScansAreWhole
  <2>2. lease'.owner = a /\ phase'[a] = "held"
    BY <1>7 DEF TryStartScan, AcquireLease, Goto
  <2> QED  BY <2>1, <2>2 DEF Claims, Progress
<1>8. CASE StartScan(a, d)
  <2>1. /\ lease.owner = a /\ lease' = lease /\ InsertScan(a) /\ sid'[a] = seq + 1
        /\ phase'[a] = "hashes"
    BY <1>8 DEF StartScan, MayStart, HoldsAt, InsertScan, Goto
  <2>2. scans'[seq + 1].docs = {} /\ scans'[seq + 1].results = {}
    BY <2>1 DEF InsertScan
  <2>3. CompletedScansAreWhole'
    BY <2>1, StartEffect DEF CompletedScansAreWhole
  <2> QED  BY <2>1, <2>2, <2>3 DEF Claims, Progress
<1>9. CASE Prune(a, d)
  <2>1. lease.owner = a /\ lease' = lease /\ phase'[a] = "report"
    BY <1>9 DEF Prune, PruneScans, HoldsAt, Goto
  <2>2. CompletedScansAreWhole'
    BY <1>9 DEF Prune, PruneScans, CompletedScansAreWhole
  <2> QED  BY <2>1, <2>2 DEF Claims, Progress
<1>10. CASE EndScan(a, d)
  <2>1. scans' = scans /\ lease'.owner = None
    BY <1>10 DEF EndScan, ReleaseLease, NoLease
  <2> QED  BY <2>1, StoreAssumption DEF Claims, CompletedScansAreWhole
<1>11. ASSUME Refused(a, d)  PROVE ProgressInv'
  <2>1. /\ UNCHANGED <<lease, scans, sid>> /\ \A b \in Attempt \ {a} : phase'[b] = phase[b]
    BY <1>11, RefusedEffect
  <2>2. /\ \A b \in Attempt \ {a} :
             changed'[b] = changed[b] /\ skipped'[b] = skipped[b] /\ todo'[b] = todo[b]
        /\ \/ /\ phase'[a] = phase[a] /\ changed'[a] = changed[a] /\ skipped'[a] = skipped[a]
              /\ todo'[a] = todo[a]
           \/ phase'[a] \notin {"hashes", "fetch", "carry", "analyze", "store", "complete"}
    BY <1>11 DEF Refused, TryStartRefused, CheckPasses, CheckFails, WriteRefused, PruneFails,
         EndScanRefused, FailScan, Moves, Leaves, Left, Goto, DropLists, UnchangedRun
  <2>3. CompletedScansAreWhole' /\ LatestDocs' = LatestDocs
    BY <2>1 DEF CompletedScansAreWhole, LatestDocs, Latest
  <2>4. \A b \in Attempt : Claims(b)' => Claims(b)
    BY <2>1 DEF Claims, IsRunning
  <2> QED  BY <2>1, <2>2, <2>3, <2>4 DEF Progress
<1> QED
  BY <1>2, <1>3, <1>4, <1>5, <1>6, <1>7, <1>8, <1>9, <1>10, <1>11 DEF Writes, Refused

(* A completed scan has a result for each of its documents, whatever the   *)
(* clock delays and the failures, where every run holds a lease.           *)
THEOREM CompletedScansStayWhole ==
  ASSUME Unleased = {}
  PROVE  Spec => []CompletedScansAreWhole
<1>1. Init => ProgressInv
  BY StoreAssumption DEF Init, StoreInit, NoLease, ProgressInv, CompletedScansAreWhole, Claims
<1>2. TypeOK /\ ProgressInv /\ [Next]_vars => ProgressInv'
  <2> SUFFICES ASSUME TypeOK, ProgressInv, [Next]_vars  PROVE ProgressInv'
    OBVIOUS
  <2> DEFINE kept == UNCHANGED <<scans, runVars>> /\ (lease'.owner = lease.owner)
  <2>1. ASSUME kept  PROVE ProgressInv'
    BY <2>1 DEF ProgressInv, CompletedScansAreWhole, Claims, Progress, LatestDocs, Latest,
               IsRunning, runVars
  <2>2. ASSUME NEW a \in Attempt, Step(a)  PROVE ProgressInv'
    BY <2>2, WorksProgress, WritesProgress DEF Step
  <2>3. ASSUME NEW a \in Attempt, Dies(a)  PROVE ProgressInv'
    <3>1. /\ UNCHANGED <<lease, scans, sid>> /\ phase'[a] = "dead"
          /\ \A b \in Attempt \ {a} :
               /\ phase'[b] = phase[b] /\ changed'[b] = changed[b]
               /\ skipped'[b] = skipped[b] /\ todo'[b] = todo[b]
      BY <2>3 DEF Dies, Crash, Goto, DropLists, storeVars, TypeOK, RunsTypeOK
    <3>2. CompletedScansAreWhole' /\ LatestDocs' = LatestDocs
      BY <3>1 DEF ProgressInv, CompletedScansAreWhole, LatestDocs, Latest
    <3>3. \A b \in Attempt : Claims(b)' => Claims(b)
      BY <3>1 DEF Claims, IsRunning
    <3> QED  BY <3>1, <3>2, <3>3 DEF ProgressInv, Progress
  <2>4. ASSUME NEW a \in Attempt, Renewal(a)  PROVE ProgressInv'
    BY <2>1, <2>4 DEF Renewal, RenewalWakes, RenewRaises, Renew, RenewRefused, RenewedLease,
                     HoldsAt, storeVars
  <2>5. CASE Tick
    BY <2>1, <2>5 DEF Tick, TypeOK, StoreTypeOK
  <2>6. ASSUME NEW d \in 0..MaxDelay, ClearScans(d)  PROVE ProgressInv'
    BY <2>6, StoreAssumption
    DEF ClearScans, ClearAllIfIdle, NoLease, ProgressInv, CompletedScansAreWhole, Claims
  <2>7. CASE UNCHANGED vars
    BY <2>1, <2>7 DEF vars, storeVars
  <2> QED  BY <2>2, <2>3, <2>4, <2>5, <2>6, <2>7 DEF Next
<1>3. ProgressInv => CompletedScansAreWhole
  BY DEF ProgressInv
<1> QED  BY <1>1, <1>2, <1>3, TypeCorrect, PTL DEF Spec

-------------------------------------------------------------------------------
(* One writer.  From here on clock reads are not delayed: scan_stale_clock *)
(* shows what a delay does.                                                *)

LEMMA NextExclusionInv ==
  ASSUME MaxDelay = 0
  PROVE  TypeOK /\ Ownership /\ ExclusionInv /\ [Next]_vars => ExclusionInv'
<1> SUFFICES ASSUME TypeOK, Ownership, ExclusionInv, [Next]_vars PROVE ExclusionInv'
  OBVIOUS
<1>z. \A a \in Attempt : /\ \A d \in Ages(a) : d = 0
                         /\ \A d \in 0..wakeAge[a] : d = 0
  BY DEF TypeOK, RunsTypeOK, Ages
<1>t. lease.ttl \in Int /\ lease.owner \in Attempt \cup {None}
  BY DEF TypeOK, StoreTypeOK
<1> USE DEF ExclusionInv, Live, LiveAt, UnleasedRunning, IsRunning
<1>1. ASSUME NEW a \in Attempt, Works(a) PROVE ExclusionInv'
  BY <1>1, WorksEffect
<1>2. ASSUME NEW a \in Attempt, NEW d \in Ages(a), Writes(a, d) PROVE ExclusionInv'
  <2>z. d = 0  BY <1>z
  <2>1. CASE TryStartScan(a, d)
    <3>1. ~UnleasedRunning  BY <2>1 DEF TryStartScan, AcquireLease, MayAcquire
    <3> QED  BY <2>1, <3>1, AcquireEffect DEF TypeOK, TryStartScan
  <2>2. CASE StartScan(a, d)
    <3>1. CASE a \in Unleased
      BY <1>t, <2>z, <2>2, <3>1, StartEffect DEF TypeOK, StartScan, MayStart
    <3>2. CASE a \notin Unleased
      BY <2>2, <3>2, StartEffect, StoreAssumption DEF TypeOK, StartScan, Token
    <3> QED  BY <3>1, <3>2
  <2>3. ASSUME RewritesOwn(a, d) PROVE ExclusionInv'
    BY <2>3 DEF RewritesOwn, MayWrite
  <2>4. ASSUME Refused(a, d) PROVE ExclusionInv'
    BY <2>4, RefusedEffect
  <2>5. CASE Prune(a, d)
    BY <2>5 DEF Prune, PruneScans
  <2>6. CASE EndScan(a, d)
    BY <2>6 DEF EndScan, ReleaseLease, NoLease
  <2> QED  BY <1>2, <2>1, <2>2, <2>3, <2>4, <2>5, <2>6, WriteEffect DEF Writes, Refused
<1>3. ASSUME NEW a \in Attempt, Dies(a) PROVE ExclusionInv'
  BY <1>3 DEF Dies, Crash, storeVars
<1>4. ASSUME NEW a \in Attempt, Renewal(a) PROVE ExclusionInv'
  BY <1>t, <1>z, <1>4, StoreAssumption
  DEF Renewal, RenewalWakes, RenewRaises, Renew, RenewRefused, HoldsAt, storeVars
<1>5. CASE Tick
  BY <1>t, <1>5 DEF Tick, TypeOK, StoreTypeOK
<1>6. ASSUME NEW d \in 0..MaxDelay, ClearScans(d) PROVE ExclusionInv'
  BY <1>6 DEF ClearScans, ClearAllIfIdle
<1>7. CASE UNCHANGED vars
  BY <1>7 DEF vars, storeVars
<1> QED  BY <1>1, <1>2, <1>3, <1>4, <1>5, <1>6, <1>7 DEF Next, Step

(* Of two scans that can both still be written, both are unleased.         *)
THEOREM OneWriter ==
  ASSUME MaxDelay = 0
  PROVE  Spec => []WriterExclusion
<1>1. Init => ExclusionInv
  BY DEF Init, StoreInit, ExclusionInv, UnleasedRunning
<1>2. TypeOK /\ Ownership /\ ExclusionInv /\ [Next]_vars => ExclusionInv'
  BY NextExclusionInv
<1>3. Ownership /\ ExclusionInv => WriterExclusion
  BY DEF Ownership, ExclusionInv, WriterExclusion, Writable, UnleasedRunning
<1> QED  BY <1>1, <1>2, <1>3, TypeCorrect, RowsHaveOneOwner, PTL DEF Spec

-------------------------------------------------------------------------------
(* An expired lease is never resurrected.                                  *)

LEMMA StepKeepsExpired ==
  ASSUME MaxDelay = 0, TypeOK, Ownership, [Next]_vars, lease.owner # None, ~Live
  PROVE  lease'.owner # lease.owner \/ ~Live'
<1> DEFINE Good == lease'.owner # lease.owner \/ ~Live'
<1>z. \A a \in Attempt : /\ \A d \in Ages(a) : d = 0
                         /\ \A d \in 0..wakeAge[a] : d = 0
  BY DEF TypeOK, RunsTypeOK, Ages
<1>t. lease.ttl \in Int /\ lease.ttl <= 0
  BY DEF TypeOK, StoreTypeOK, Live, LiveAt
<1> USE DEF Live, LiveAt
<1>1. ASSUME NEW a \in Attempt, Works(a) PROVE Good
  BY <1>1, WorksEffect
<1>2. ASSUME NEW a \in Attempt, NEW d \in Ages(a), Writes(a, d) PROVE Good
  <2>1. CASE TryStartScan(a, d)
    BY <2>1 DEF TryStartScan, AcquireLease, Ownership
  <2>2. CASE StartScan(a, d)
    BY <2>2, StartEffect DEF TypeOK, StartScan
  <2>3. ASSUME RewritesOwn(a, d) PROVE Good
    BY <2>3 DEF RewritesOwn
  <2>4. ASSUME Refused(a, d) PROVE Good
    BY <2>4, RefusedEffect
  <2>5. CASE Prune(a, d)
    BY <2>5 DEF Prune, PruneScans
  <2>6. CASE EndScan(a, d)
    BY <2>6 DEF EndScan, ReleaseLease, NoLease
  <2> QED  BY <1>2, <2>1, <2>2, <2>3, <2>4, <2>5, <2>6, WriteEffect DEF Writes, Refused
<1>3. ASSUME NEW a \in Attempt, Dies(a) PROVE Good
  BY <1>3 DEF Dies, Crash, storeVars
<1>4. ASSUME NEW a \in Attempt, Renewal(a) PROVE Good
  BY <1>t, <1>z, <1>4
  DEF Renewal, RenewalWakes, RenewRaises, Renew, RenewRefused, HoldsAt, storeVars
<1>5. CASE Tick
  BY <1>t, <1>5 DEF Tick, TypeOK, StoreTypeOK
<1>6. ASSUME NEW d \in 0..MaxDelay, ClearScans(d) PROVE Good
  BY <1>6 DEF ClearScans, ClearAllIfIdle, NoLease
<1>7. CASE UNCHANGED vars
  BY <1>7 DEF vars, storeVars
<1> QED  BY <1>1, <1>2, <1>3, <1>4, <1>5, <1>6, <1>7 DEF Next, Step

(* With clock reads that are not delayed, no step revives an expired lease. *)
THEOREM NoResurrection ==
  ASSUME MaxDelay = 0
  PROVE  Spec => ExpiredLeaseStaysDead
<1>1. TypeOK /\ Ownership /\ [Next]_vars
      => [lease.owner # None /\ ~Live => lease'.owner # lease.owner \/ ~Live']_vars
  BY StepKeepsExpired
<1> QED  BY <1>1, TypeCorrect, RowsHaveOneOwner, PTL DEF Spec, ExpiredLeaseStaysDead

-------------------------------------------------------------------------------
(* Fenced writes.                                                          *)

LEMMA WritesMoveOneAttempt ==
  ASSUME TypeOK, NEW a \in Attempt, NEW d, Writes(a, d)
  PROVE  \A b \in Attempt \ {a} : phase'[b] = phase[b] /\ todo'[b] = todo[b]
BY DEF Writes, TryStartScan, TryStartRefused, CheckPasses, CheckFails, StartScan, CarryForward,
       CompleteScan, StoreDocument, StoreResult, WriteRefused, FailScan, Prune, PruneFails,
       EndScan, EndScanRefused, Moves, Leaves, Goto, DropLists, UnchangedRun, TypeOK, RunsTypeOK

LEMMA RowsChangeUnderFence ==
  ASSUME MaxDelay = 0, TypeOK, Ownership, [Next]_vars,
         NEW i \in DOMAIN scans \cap DOMAIN scans',
         scans'[i] # scans[i], scans[i].owner # None
  PROVE  \/ /\ lease.owner = scans[i].owner /\ Live
            /\ \A b \in Attempt \ {scans[i].owner} : phase'[b] = phase[b] /\ todo'[b] = todo[b]
         \/ /\ ~Live /\ lease'.owner # scans[i].owner
            /\ scans'[i] = Failed(scans[i])
<1> DEFINE Fenced ==
      \/ /\ lease.owner = scans[i].owner /\ Live
         /\ \A b \in Attempt \ {scans[i].owner} : phase'[b] = phase[b] /\ todo'[b] = todo[b]
      \/ /\ ~Live /\ lease'.owner # scans[i].owner
         /\ scans'[i] = Failed(scans[i])
<1>1. ASSUME NEW a \in Attempt, Works(a) PROVE Fenced
  BY <1>1, WorksEffect
<1>2. ASSUME NEW a \in Attempt, NEW d \in Ages(a), Writes(a, d) PROVE Fenced
  <2>z. d = 0  BY DEF TypeOK, RunsTypeOK, Ages
  <2>1. CASE TryStartScan(a, d)
    <3>1. lease.owner # None /\ IsRunning(i) /\ scans[i].owner = lease.owner
      BY <2>1, AcquireEffect DEF TryStartScan, TypeOK
    <3>2. scans'[i] = Failed(scans[i])
      BY <2>1, <3>1 DEF TryStartScan, AcquireLease, Abandoned
    <3>3. ~Live  BY <2>1, <2>z DEF TryStartScan, AcquireLease, MayAcquire, Live
    <3>4. lease'.owner = a /\ lease.owner # a
      BY <2>1 DEF TryStartScan, AcquireLease, Ownership
    <3> QED  BY <3>1, <3>2, <3>3, <3>4
  <2>2. CASE StartScan(a, d)
    BY <2>2, StartEffect DEF TypeOK, StartScan
  <2>3. ASSUME RewritesOwn(a, d) PROVE Fenced
    <3>1. i = sid[a] /\ scans[i].owner = Token(a) /\ (a \in Unleased \/ HoldsAt(a, d))
      BY <2>3 DEF RewritesOwn, MayWrite
    <3>2. scans[i].owner = a /\ HoldsAt(a, 0)
      BY <3>1, <2>z DEF Token
    <3>3. lease.owner = a /\ Live
      BY <3>2, StoreAssumption DEF HoldsAt, Live, LiveAt
    <3> QED  BY <1>2, <3>2, <3>3, WritesMoveOneAttempt
  <2>4. ASSUME Refused(a, d) PROVE Fenced
    BY <2>4, RefusedEffect
  <2>5. CASE Prune(a, d)
    BY <2>5 DEF Prune, PruneScans
  <2>6. CASE EndScan(a, d)
    BY <2>6 DEF EndScan, ReleaseLease
  <2> QED  BY <1>2, <2>1, <2>2, <2>3, <2>4, <2>5, <2>6, WriteEffect DEF Writes, Refused
<1>3. ASSUME NEW a \in Attempt, Dies(a) PROVE Fenced
  BY <1>3 DEF Dies, Crash, storeVars
<1>4. ASSUME NEW a \in Attempt, Renewal(a) PROVE Fenced
  BY <1>4 DEF Renewal, RenewalWakes, RenewRaises, Renew, RenewRefused, storeVars
<1>5. CASE Tick
  BY <1>5 DEF Tick
<1>6. ASSUME NEW d \in 0..MaxDelay, ClearScans(d) PROVE Fenced
  BY <1>6 DEF ClearScans, ClearAllIfIdle
<1>7. CASE UNCHANGED vars
  BY <1>7 DEF vars, storeVars
<1> QED  BY <1>1, <1>2, <1>3, <1>4, <1>5, <1>6, <1>7 DEF Next, Step

(* With clock reads that are not delayed, the rows of a leased scan change *)
(* only under its own live lease, or when an expired lease is taken over   *)
(* and they are failed (the fencing of every protected write).             *)
THEOREM FencedWrites ==
  ASSUME MaxDelay = 0
  PROVE  Spec => WritesAreFenced
<1> DEFINE Fence ==
      \A i \in DOMAIN scans \cap DOMAIN scans' :
        scans'[i] # scans[i] /\ scans[i].owner # None =>
          LET a == scans[i].owner IN
          \/ /\ lease.owner = a /\ Live
             /\ \A b \in Attempt \ {a} : phase'[b] = phase[b] /\ todo'[b] = todo[b]
          \/ /\ ~Live /\ lease'.owner # a
             /\ scans'[i] = Failed(scans[i])
<1>1. TypeOK /\ Ownership /\ [Next]_vars => Fence
  BY RowsChangeUnderFence
<1>2. TypeOK /\ Ownership /\ [Next]_vars => [Fence]_vars
  BY <1>1
<1> QED  BY <1>2, TypeCorrect, RowsHaveOneOwner, PTL DEF Spec, WritesAreFenced

-------------------------------------------------------------------------------
(* Recoverability.                                                         *)

LEMMA WritesKeepRenewer ==
  ASSUME NEW a \in Attempt, NEW d, Writes(a, d)
  PROVE  renewer' = renewer
BY DEF Writes, TryStartScan, TryStartRefused, CheckPasses, CheckFails, StartScan, CarryForward,
       CompleteScan, StoreDocument, StoreResult, WriteRefused, FailScan, Prune, PruneFails,
       EndScan, EndScanRefused, Moves, Leaves

LEMMA NextLeavesOnlyWhenLost ==
  ASSUME MaxDelay = 0, ~CleanupMayFail
  PROVE  TypeOK /\ Ownership /\ LeavesOnlyWhenLost /\ [Next]_vars => LeavesOnlyWhenLost'
<1> SUFFICES ASSUME TypeOK, Ownership, LeavesOnlyWhenLost, [Next]_vars
             PROVE  LeavesOnlyWhenLost'
  OBVIOUS
<1>z. \A a \in Attempt : /\ \A d \in Ages(a) : d = 0
                         /\ \A d \in 0..wakeAge[a] : d = 0
  BY DEF TypeOK, RunsTypeOK, Ages
<1>t. lease.ttl \in Int /\ lease.owner \in Attempt \cup {None}
  BY DEF TypeOK, StoreTypeOK
<1>n. \A b \in Attempt : sid[b] = None => ~RunsOwn(b)
  BY StoreAssumption DEF TypeOK, StoreTypeOK, RunsOwn
<1> USE DEF LeavesOnlyWhenLost
<1>1. ASSUME NEW a \in Attempt, Works(a) PROVE LeavesOnlyWhenLost'
  <2>1. \A b \in Attempt : /\ RunsOwn(b)' <=> RunsOwn(b)
                           /\ HoldsAt(b, 0)' <=> HoldsAt(b, 0)
    BY <1>1, WorksEffect DEF RunsOwn, HoldsAt
  <2>2. \A b \in Attempt : renewer'[b] = renewer[b] \/ phase[b] = "held"
    BY <1>1 DEF Works, EnterContext, SetupFails, ReadHashes, Analyze, Report, NoReporter,
         ReadHistory, RunFails, FailsOutside, FailScanRaises, Interrupted, EndScanRaises,
         Moves, Leaves, TypeOK, RunsTypeOK
  <2>3. phase'[a] = "exit" => ~RunsOwn(a)
    BY <1>1, <1>n, WorksEffect DEF Ownership, Tail
  <2> QED  BY <1>1, <2>1, <2>2, <2>3, WorksEffect DEF Tail
<1>2. ASSUME NEW a \in Attempt, NEW d \in Ages(a), Writes(a, d) PROVE LeavesOnlyWhenLost'
  <2>z. d = 0  BY <1>z
  <2>r. renewer' = renewer  BY <1>2, WritesKeepRenewer
  <2>1. CASE TryStartScan(a, d)
    <3>1. /\ phase[a] = "new" /\ phase'[a] = "held" /\ UNCHANGED <<sid, lost>>
          /\ \A b \in Attempt \ {a} : phase'[b] = phase[b]
      BY <2>1 DEF TryStartScan, Goto, UnchangedRun, ctxVars, TypeOK, RunsTypeOK
    <3>2. \A b \in Attempt : RunsOwn(b)' => RunsOwn(b)
      BY <2>1, <3>1, AcquireEffect DEF TryStartScan, TypeOK, RunsOwn
    <3>3. \A b \in Attempt \ {a} : ~HoldsAt(b, 0)'
      BY <2>1, AcquireEffect DEF TryStartScan, TypeOK, HoldsAt
    <3> QED  BY <3>1, <3>2, <3>3, <2>r
  <2>2. CASE StartScan(a, d)
    <3>1. /\ phase'[a] = "hashes" /\ UNCHANGED <<lease, lost>>
          /\ \A b \in Attempt \ {a} : phase'[b] = phase[b] /\ sid'[b] = sid[b]
      BY <2>2, StartEffect DEF StartScan, Goto, ctxVars, TypeOK, RunsTypeOK
    <3>2. \A b \in Attempt \ {a} : b \notin Unleased /\ RunsOwn(b)' => RunsOwn(b)
      BY <2>2, <3>1, StartEffect, StoreAssumption DEF StartScan, TypeOK, RunsOwn, Token
    <3> QED  BY <3>1, <3>2, <2>r DEF HoldsAt
  <2>3. ASSUME RewritesOwn(a, d) PROVE LeavesOnlyWhenLost'
    <3>1. \A b \in Attempt \ {a} : b \notin Unleased /\ RunsOwn(b)' => RunsOwn(b)
      BY <2>3, StoreAssumption DEF RewritesOwn, RunsOwn, MayWrite, Token
    <3>2. /\ phase'[a] = "exit" => ~RunsOwn(a)'
          /\ phase'[a] \in Tail => ~RunsOwn(a)'
      BY <2>3 DEF RewritesOwn, RunsOwn
    <3> QED  BY <2>3, <3>1, <3>2, <2>r DEF RewritesOwn, HoldsAt, Tail
  <2>4. ASSUME Refused(a, d) PROVE LeavesOnlyWhenLost'
    <3>1. \A b \in Attempt : /\ RunsOwn(b)' <=> RunsOwn(b)
                             /\ HoldsAt(b, 0)' <=> HoldsAt(b, 0)
      BY <2>4, RefusedEffect DEF RunsOwn, HoldsAt
    <3>2. phase[a] = "start" => ~RunsOwn(a)
      BY <1>n DEF Ownership
    <3> QED  BY <2>4, <2>z, <2>r, <3>1, <3>2, RefusedEffect DEF Tail
  <2>5. CASE Prune(a, d)
    <3>1. \A b \in Attempt : RunsOwn(b)' => RunsOwn(b)
      BY <2>5 DEF Prune, PruneScans, RunsOwn, UnchangedRun
    <3> QED  BY <2>5, <3>1, <2>r
             DEF Prune, PruneScans, Goto, UnchangedRun, ctxVars, HoldsAt, TypeOK, RunsTypeOK
  <2>6. CASE EndScan(a, d)
    <3>1. /\ phase'[a] = "done" /\ lost'[a] = FALSE /\ UNCHANGED <<sid, scans>>
          /\ \A b \in Attempt \ {a} : phase'[b] = phase[b] /\ lost'[b] = lost[b]
          /\ \A b \in Attempt : ~HoldsAt(b, 0)'
      BY <2>6, StoreAssumption
      DEF EndScan, ReleaseLease, NoLease, Goto, UnchangedRun, DropContext, HoldsAt, TypeOK, RunsTypeOK
    <3> QED  BY <3>1, <2>r DEF RunsOwn
  <2> QED  BY <1>2, <2>1, <2>2, <2>3, <2>4, <2>5, <2>6, WriteEffect DEF Writes, Refused
<1>3. ASSUME NEW a \in Attempt, Dies(a) PROVE LeavesOnlyWhenLost'
  BY <1>3 DEF Dies, Crash, Goto, DropLists, DropContext, storeVars, RunsOwn, HoldsAt,
              TypeOK, RunsTypeOK
<1>4. ASSUME NEW a \in Attempt, Renewal(a) PROVE LeavesOnlyWhenLost'
  BY <1>t, <1>z, <1>4
  DEF Renewal, RenewalWakes, RenewRaises, Renew, RenewRefused, RenewedLease, HoldsAt, RunsOwn,
      storeVars, runVars, ctxVars, TypeOK, RunsTypeOK
<1>5. CASE Tick
  BY <1>t, <1>5 DEF Tick, HoldsAt, RunsOwn, runVars, ctxVars, TypeOK, StoreTypeOK
<1>6. ASSUME NEW d \in 0..MaxDelay, ClearScans(d) PROVE LeavesOnlyWhenLost'
  BY <1>6, StoreAssumption
  DEF ClearScans, ClearAllIfIdle, NoLease, HoldsAt, RunsOwn, runVars, ctxVars
<1>7. CASE UNCHANGED vars
  BY <1>7 DEF vars, storeVars, runVars, ctxVars, HoldsAt, RunsOwn
<1> QED  BY <1>1, <1>2, <1>3, <1>4, <1>5, <1>6, <1>7 DEF Next, Step

LEMMA NextRunningScanIsRecoverable ==
  ASSUME MaxDelay = 0
  PROVE  /\ TypeOK /\ Ownership /\ LeavesOnlyWhenLost /\ RunningScanIsRecoverable
         /\ [Next]_vars
         => RunningScanIsRecoverable'
<1> SUFFICES ASSUME TypeOK, Ownership, LeavesOnlyWhenLost, RunningScanIsRecoverable, [Next]_vars
             PROVE  RunningScanIsRecoverable'
  OBVIOUS
<1>z. \A a \in Attempt : \A d \in Ages(a) : d = 0
  BY DEF TypeOK, RunsTypeOK, Ages
<1> USE DEF RunningScanIsRecoverable, IsRunning
<1>1. ASSUME NEW a \in Attempt, Works(a) PROVE RunningScanIsRecoverable'
  BY <1>1, WorksEffect
<1>2. ASSUME NEW a \in Attempt, NEW d \in Ages(a), Writes(a, d)
      PROVE  RunningScanIsRecoverable'
  <2>z. d = 0  BY <1>z
  <2>1. CASE TryStartScan(a, d)
    <3>1. \A i \in DOMAIN scans : scans'[i].status = "running" => scans'[i].owner = None
      BY <2>1, AcquireEffect DEF TryStartScan, TypeOK
    <3> QED  BY <2>1, <3>1, AcquireEffect DEF TryStartScan, TypeOK
  <2>2. CASE StartScan(a, d)
    BY <2>2, StartEffect DEF StartScan, MayStart, HoldsAt, Token, TypeOK
  <2>3. ASSUME RewritesOwn(a, d) PROVE RunningScanIsRecoverable'
    BY <2>3 DEF RewritesOwn, MayWrite
  <2>4. ASSUME Refused(a, d) PROVE RunningScanIsRecoverable'
    BY <2>4, RefusedEffect
  <2>5. CASE Prune(a, d)
    BY <2>5 DEF Prune, PruneScans
  <2>6. CASE EndScan(a, d)
    <3>1. lease.owner = a /\ HoldsAt(a, 0) /\ phase[a] = "exit" /\ UNCHANGED scans
      BY <2>6, <2>z DEF EndScan, ReleaseLease, HoldsAt
    <3>2. a \notin Unleased /\ ~RunsOwn(a)
      BY <3>1 DEF Ownership, LeavesOnlyWhenLost
    <3>3. \A i \in DOMAIN scans : IsRunning(i) => scans[i].owner = None
      BY <3>1, <3>2 DEF Ownership, RunsOwn
    <3> QED  BY <3>1, <3>3
  <2> QED  BY <1>2, <2>1, <2>2, <2>3, <2>4, <2>5, <2>6, WriteEffect DEF Writes, Refused
<1>3. ASSUME NEW a \in Attempt, Dies(a) PROVE RunningScanIsRecoverable'
  BY <1>3 DEF Dies, Crash, storeVars
<1>4. ASSUME NEW a \in Attempt, Renewal(a) PROVE RunningScanIsRecoverable'
  BY <1>4 DEF Renewal, RenewalWakes, RenewRaises, Renew, RenewRefused, RenewedLease, HoldsAt,
              storeVars
<1>5. CASE Tick
  BY <1>5 DEF Tick, TypeOK, StoreTypeOK
<1>6. ASSUME NEW d \in 0..MaxDelay, ClearScans(d) PROVE RunningScanIsRecoverable'
  BY <1>6 DEF ClearScans, ClearAllIfIdle
<1>7. CASE UNCHANGED vars
  BY <1>7 DEF vars, storeVars
<1> QED  BY <1>1, <1>2, <1>3, <1>4, <1>5, <1>6, <1>7 DEF Next, Step

(* The four parts of RunsInv together are inductive.                       *)
THEOREM RunsInvariant ==
  ASSUME MaxDelay = 0, ~CleanupMayFail
  PROVE  Spec => []RunsInv
<1>1. Init => RunsInv
  BY StoreAssumption, InitOwnership
  DEF Init, StoreInit, NoLease, RunsInv, LeavesOnlyWhenLost, RunsOwn, ExclusionInv,
      UnleasedRunning, RunningScanIsRecoverable
<1>2. TypeOK /\ RunsInv /\ [Next]_vars => RunsInv'
  BY NextOwnership, NextLeavesOnlyWhenLost, NextExclusionInv, NextRunningScanIsRecoverable
  DEF RunsInv
<1> QED  BY <1>1, <1>2, TypeCorrect, PTL DEF Spec

(* Every running leased scan is one the next try_start_scan will find.     *)
THEOREM Recoverable ==
  ASSUME MaxDelay = 0, ~CleanupMayFail
  PROVE  Spec => []RunningScanIsRecoverable
<1>1. RunsInv => RunningScanIsRecoverable  BY DEF RunsInv
<1> QED  BY <1>1, RunsInvariant, PTL

-------------------------------------------------------------------------------
(* What a release records, where every run holds a lease.                  *)

OwnCompleted(a) ==
  sid[a] \in DOMAIN scans /\ scans[sid[a]].owner = a /\ scans[sid[a]].status = "completed"

(* While a has the lease nobody else starts, prunes or completes a scan:   *)
(* the one it started is the newest there is, and once completed it stays. *)
ReleaseInv ==
  \A a \in Attempt :
    /\ ctxLast[a] # None => phase[a] = "exit"
    /\ lease.owner = a =>
         /\ sid[a] # None => sid[a] = seq
         /\ phase[a] \in Tail => OwnCompleted(a)
         /\ ctxLast[a] # None => ctxLast[a] = sid[a] /\ OwnCompleted(a)

(* The context object is written by ReadHistory and dropped at the end.    *)
LEMMA ContextEffect ==
  ASSUME TypeOK, NEW a \in Attempt,
         (Works(a) /\ ~ReadHistory(a)) \/ \E d \in Ages(a) : Writes(a, d)
  PROVE  /\ \A b \in Attempt \ {a} : ctxLast'[b] = ctxLast[b]
         /\ ctxLast'[a] = IF phase[a] = "exit" THEN None ELSE ctxLast[a]
BY DEF Works, EnterContext, SetupFails, ReadHashes, Analyze, Report, NoReporter, RunFails,
       FailsOutside, FailScanRaises, Interrupted, EndScanRaises, Guarded, Boundary,
       Writes, TryStartScan, TryStartRefused, CheckPasses, CheckFails, StartScan, CarryForward,
       CompleteScan, StoreDocument, StoreResult, WriteRefused, FailScan, Prune, PruneFails,
       EndScan, EndScanRefused, Moves, DropContext, ctxVars, TypeOK, RunsTypeOK

LEMMA ReadHistoryReleaseInv ==
  ASSUME Unleased = {}, TypeOK, ReleaseInv, NEW a \in Attempt, ReadHistory(a)
  PROVE  ReleaseInv'
<1>1. /\ UNCHANGED <<lease, scans, seq, sid>> /\ phase[a] = "finish" /\ phase'[a] = "exit"
      /\ \A b \in Attempt \ {a} : phase'[b] = phase[b] /\ ctxLast'[b] = ctxLast[b]
  BY DEF ReadHistory, Leaves, Left, Goto, DropLists, storeVars, TypeOK, RunsTypeOK
<1>2. ASSUME lease.owner = a, ctxLast'[a] # None
      PROVE  ctxLast'[a] = sid[a] /\ OwnCompleted(a)
  <2>1. OwnCompleted(a) /\ sid[a] = seq /\ ctxLast[a] = None
    BY <1>1, <1>2, StoreAssumption DEF ReleaseInv, Tail, OwnCompleted, TypeOK, StoreTypeOK
  <2>2. PICK i \in Latest : ctxLast'[a] = i
    BY <1>2, <2>1 DEF ReadHistory, TypeOK, RunsTypeOK
  <2>3. i = seq
    BY <2>1, <2>2 DEF Latest, OwnCompleted, TypeOK, StoreTypeOK
  <2> QED  BY <2>1, <2>2, <2>3
<1> QED  BY <1>1, <1>2 DEF ReleaseInv, OwnCompleted, Tail

LEMMA WritesReleaseInv ==
  ASSUME Unleased = {}, TypeOK, Ownership, ReleaseInv, NEW a \in Attempt, NEW d \in Ages(a),
         Writes(a, d)
  PROVE  ReleaseInv'
<1>c. /\ \A b \in Attempt \ {a} : ctxLast'[b] = ctxLast[b]
      /\ ctxLast'[a] = IF phase[a] = "exit" THEN None ELSE ctxLast[a]
  BY ContextEffect
<1>e. ctxLast'[a] # None => FALSE
  BY <1>c DEF ReleaseInv
<1>p. \A b \in Attempt \ {a} : phase'[b] = phase[b]
  BY WritesMoveOneAttempt
<1>1. CASE TryStartScan(a, d)
  <2>1. lease'.owner = a /\ phase'[a] = "held" /\ sid' = sid /\ sid[a] = None
    BY <1>1 DEF TryStartScan, AcquireLease, Goto, UnchangedRun, Ownership, TypeOK, RunsTypeOK
  <2> QED  BY <1>c, <1>e, <1>p, <2>1 DEF ReleaseInv, Tail
<1>2. CASE StartScan(a, d)
  <2>1. lease'.owner = a /\ phase'[a] = "hashes" /\ sid'[a] = seq'
    BY <1>2, StartEffect DEF StartScan, MayStart, HoldsAt, Goto, TypeOK, RunsTypeOK
  <2> QED  BY <1>c, <1>e, <1>p, <2>1 DEF ReleaseInv, Tail
<1>3. ASSUME RewritesOwn(a, d) PROVE ReleaseInv'
  <2>1. lease'.owner = a /\ UNCHANGED <<sid, seq>> /\ sid[a] \in DOMAIN scans'
        /\ scans'[sid[a]].owner = a
    BY <1>3, StoreAssumption DEF RewritesOwn, MayWrite, HoldsAt, IsRunning, Token
  <2>2. lease.owner = a  BY <1>3 DEF RewritesOwn, MayWrite, HoldsAt
  <2>3. phase'[a] \in Tail => scans'[sid[a]].status = "completed"
    BY <1>3 DEF RewritesOwn
  <2> QED  BY <1>c, <1>e, <1>p, <2>1, <2>2, <2>3 DEF ReleaseInv, OwnCompleted
<1>4. ASSUME Refused(a, d) PROVE ReleaseInv'
  BY <1>4, <1>c, <1>e, RefusedEffect DEF ReleaseInv, OwnCompleted
<1>5. CASE Prune(a, d)
  <2>1. /\ lease.owner = a /\ UNCHANGED <<lease, sid, seq>>
        /\ phase[a] = "prune" /\ phase'[a] = "report"
    BY <1>5 DEF Prune, PruneScans, HoldsAt, Goto, UnchangedRun, TypeOK, RunsTypeOK
  <2>2. OwnCompleted(a) /\ sid[a] = seq
    BY <2>1, StoreAssumption DEF ReleaseInv, Tail, OwnCompleted, TypeOK, StoreTypeOK
  <2>3. {j \in DOMAIN scans : IsTerminal(j) /\ j > seq} = {}
    BY DEF TypeOK, StoreTypeOK
  <2>4. Retained(seq)
    BY <2>3, FS_EmptySet, StoreAssumption DEF Retained
  <2>5. OwnCompleted(a)'
    BY <1>5, <2>1, <2>2, <2>4 DEF Prune, PruneScans, OwnCompleted
  <2> QED  BY <1>c, <1>e, <1>p, <2>1, <2>2, <2>5 DEF ReleaseInv
<1>6. CASE EndScan(a, d)
  BY <1>6, <1>c, <1>e, <1>p, StoreAssumption DEF EndScan, ReleaseLease, NoLease, ReleaseInv
<1> QED  BY <1>1, <1>2, <1>3, <1>4, <1>5, <1>6, WriteEffect DEF Writes, Refused

LEMMA NextReleaseInv ==
  ASSUME Unleased = {}
  PROVE  TypeOK /\ Ownership /\ ReleaseInv /\ [Next]_vars => ReleaseInv'
<1> SUFFICES ASSUME TypeOK, Ownership, ReleaseInv, [Next]_vars  PROVE ReleaseInv'
  OBVIOUS
<1>1. ASSUME NEW a \in Attempt, Works(a)  PROVE ReleaseInv'
  <2>1. CASE ReadHistory(a)
    BY <2>1, ReadHistoryReleaseInv
  <2>2. CASE ~ReadHistory(a)
    BY <1>1, <2>2, WorksEffect, ContextEffect DEF ReleaseInv, OwnCompleted
  <2> QED  BY <2>1, <2>2
<1>2. ASSUME NEW a \in Attempt, NEW d \in Ages(a), Writes(a, d)  PROVE ReleaseInv'
  BY <1>2, WritesReleaseInv
<1>3. ASSUME NEW a \in Attempt, Dies(a)  PROVE ReleaseInv'
  BY <1>3 DEF Dies, Crash, Goto, DropLists, DropContext, storeVars, ReleaseInv, OwnCompleted,
              Tail, TypeOK, RunsTypeOK
<1>4. ASSUME NEW a \in Attempt, Renewal(a)  PROVE ReleaseInv'
  BY <1>4 DEF Renewal, RenewalWakes, RenewRaises, Renew, RenewRefused, RenewedLease, HoldsAt,
              storeVars, runVars, ctxVars, ReleaseInv, OwnCompleted
<1>5. CASE Tick
  BY <1>5 DEF Tick, runVars, ctxVars, ReleaseInv, OwnCompleted, TypeOK, StoreTypeOK
<1>6. ASSUME NEW d \in 0..MaxDelay, ClearScans(d)  PROVE ReleaseInv'
  BY <1>6, StoreAssumption DEF ClearScans, ClearAllIfIdle, NoLease, runVars, ctxVars, ReleaseInv
<1>7. CASE UNCHANGED vars
  BY <1>7 DEF vars, storeVars, runVars, ctxVars, ReleaseInv, OwnCompleted
<1> QED  BY <1>1, <1>2, <1>3, <1>4, <1>5, <1>6, <1>7 DEF Next, Step

(* The last scan a release records is the completed scan of the run that   *)
(* releases, though it is read from the history after other steps could    *)
(* have come between, whatever the clock delays and the failures.          *)
THEOREM ReleasesRecordOwnScan ==
  ASSUME Unleased = {}
  PROVE  Spec => ReleaseRecordsOwnScan
<1> DEFINE Recorded ==
      \A a \in Attempt :
        lease.owner = a /\ lease'.owner = None /\ lastScan' # None
        => /\ lastScan' = sid[a] /\ lastScan' \in DOMAIN scans
           /\ scans[lastScan'].owner = a /\ scans[lastScan'].status = "completed"
<1>1. Init => ReleaseInv
  BY StoreAssumption DEF Init, StoreInit, NoLease, ReleaseInv
<1>2. TypeOK /\ Ownership /\ ReleaseInv /\ [Next]_vars => ReleaseInv'
  BY NextReleaseInv
<1>3. TypeOK /\ ReleaseInv /\ [Next]_vars => Recorded
  <2> SUFFICES ASSUME TypeOK, ReleaseInv, [Next]_vars, NEW a \in Attempt,
                      lease.owner = a, lease'.owner = None, lastScan' # None
               PROVE  lastScan' = sid[a] /\ OwnCompleted(a)
    BY DEF OwnCompleted
  <2>0. a # None  BY StoreAssumption
  <2>1. ASSUME NEW b \in Attempt, Works(b)  PROVE FALSE
    BY <2>0, <2>1, WorksEffect
  <2>2. ASSUME NEW b \in Attempt, NEW d \in Ages(b), Writes(b, d)
        PROVE  lastScan' = sid[a] /\ OwnCompleted(a)
    <3>1. CASE EndScan(b, d)
      BY <3>1 DEF EndScan, ReleaseLease, HoldsAt, ReleaseInv
    <3>2. CASE TryStartScan(b, d)
      BY <3>2, StoreAssumption DEF TryStartScan, AcquireLease
    <3>3. CASE ~EndScan(b, d) /\ ~TryStartScan(b, d)
      <4>1. lease' = lease
        BY <2>2, <3>3, RefusedEffect, WriteEffect
        DEF Writes, Refused, RewritesOwn, StartScan, InsertScan, Prune, PruneScans
      <4> QED  BY <2>0, <4>1
    <3> QED  BY <3>1, <3>2, <3>3
  <2>3. ASSUME NEW b \in Attempt, Dies(b)  PROVE FALSE
    BY <2>0, <2>3 DEF Dies, Crash, storeVars
  <2>4. ASSUME NEW b \in Attempt, Renewal(b)  PROVE FALSE
    BY <2>0, <2>4 DEF Renewal, RenewalWakes, RenewRaises, Renew, RenewRefused, RenewedLease,
                     HoldsAt, storeVars
  <2>5. ~Tick
    BY <2>0 DEF Tick, TypeOK, StoreTypeOK
  <2>6. ASSUME NEW d \in 0..MaxDelay, ClearScans(d)  PROVE FALSE
    BY <2>6 DEF ClearScans, ClearAllIfIdle
  <2>7. ~UNCHANGED vars
    BY <2>0 DEF vars, storeVars
  <2> QED  BY <2>1, <2>2, <2>3, <2>4, <2>5, <2>6, <2>7 DEF Next, Step
<1>4. TypeOK /\ ReleaseInv /\ [Next]_vars => [Recorded]_vars
  BY <1>3
<1> QED  BY <1>1, <1>2, <1>4, TypeCorrect, RowsHaveOneOwner, PTL DEF Spec, ReleaseRecordsOwnScan

-------------------------------------------------------------------------------
(* The attempts and their store implement the ledger.                      *)

(* The abstract state: the ledger entry of each leased attempt.            *)
Outcome == [a \in Attempt \ Unleased |-> Entry(a)]

(* A step that touches no row and no scan_id is a stutter of the ledger.   *)
LEMMA QuietStep ==
  ASSUME UNCHANGED <<scans, sid>>
  PROVE  UNCHANGED Outcome
BY DEF Outcome, Entry

LEMMA EntryRunning ==
  ASSUME TypeOK, NEW a \in Attempt
  PROVE  Entry(a) = "running" <=> RunsOwn(a)
BY StoreAssumption DEF Entry, RunsOwn, TypeOK, StoreTypeOK, RunsTypeOK

LEMMA LedgerAcquire ==
  ASSUME TypeOK, RunsInv, NEW a \in Attempt, NEW d, TryStartScan(a, d)
  PROVE  Ledger!Next \/ UNCHANGED Outcome
<1>1. sid' = sid  BY DEF TryStartScan, UnchangedRun
<1>2. CASE \E b \in Attempt \ Unleased : lease.owner = b /\ RunsOwn(b)
  <2>1. PICK b \in Attempt \ Unleased : lease.owner = b /\ RunsOwn(b)  BY <1>2
  <2>2. Entry(b) = "running" /\ Entry(b)' = "failed"
    BY <1>1, <2>1, EntryRunning, AcquireEffect, StoreAssumption
    DEF TryStartScan, TypeOK, RunsOwn, Entry, IsRunning
  <2>3. \A c \in Attempt \ Unleased : c # b => Entry(c)' = Entry(c)
    BY <1>1, <2>1, AcquireEffect DEF TryStartScan, TypeOK, Entry
  <2>4. Ledger!Finish(b, "failed")
    BY <2>2, <2>3 DEF Ledger!Finish
  <2> QED  BY <2>4 DEF Ledger!Next
<1>3. CASE ~\E b \in Attempt \ Unleased : lease.owner = b /\ RunsOwn(b)
  <2>1. \A i \in DOMAIN scans : ~(IsRunning(i) /\ lease.owner # None /\ scans[i].owner = lease.owner)
    BY <1>3, StoreAssumption DEF RunsInv, Ownership, RunsOwn, IsRunning, TypeOK, StoreTypeOK
  <2>2. DOMAIN scans' = DOMAIN scans /\ \A i \in DOMAIN scans : scans'[i] = scans[i]
    BY <2>1, AcquireEffect DEF TryStartScan, TypeOK
  <2>3. \A c \in Attempt \ Unleased : Entry(c)' = Entry(c)
    BY <1>1, <2>2 DEF Entry
  <2> QED  BY <2>3 DEF Outcome
<1> QED  BY <1>2, <1>3

LEMMA LedgerStart ==
  ASSUME TypeOK, RunsInv, NEW a \in Attempt, StartScan(a, 0)
  PROVE  Ledger!Next \/ UNCHANGED Outcome
<1>1. /\ sid[a] = None /\ sid'[a] = seq + 1
      /\ \A b \in Attempt \ {a} : sid'[b] = sid[b]
  BY StartEffect DEF StartScan, RunsInv, Ownership, TypeOK, RunsTypeOK
<1>2. \A b \in Attempt \ (Unleased \cup {a}) : Entry(b)' = Entry(b)
  BY <1>1, StartEffect, StoreAssumption DEF StartScan, TypeOK, Entry, Token
<1>3. CASE a \in Unleased
  BY <1>2, <1>3 DEF Outcome
<1>4. CASE a \notin Unleased
  <2>1. Entry(a) = "none" /\ Entry(a)' = "running"
    BY <1>1, <1>4, StartEffect, StoreAssumption DEF StartScan, TypeOK, StoreTypeOK, Entry, Token
  <2>2. lease.owner = a
    BY <1>4 DEF StartScan, MayStart, HoldsAt
  <2>3. \A b \in Attempt \ Unleased : Entry(b) # "running"
    BY <2>1, <2>2, EntryRunning, StoreAssumption
    DEF RunsInv, RunningScanIsRecoverable, IsRunning, RunsOwn
  <2>4. Ledger!Begin(a)
    BY <1>2, <1>4, <2>1, <2>3 DEF Ledger!Begin
  <2> QED  BY <1>4, <2>4 DEF Ledger!Next
<1> QED  BY <1>3, <1>4

LEMMA LedgerWrite ==
  ASSUME TypeOK, TypeOK', NEW a \in Attempt, NEW d, RewritesOwn(a, d)
  PROVE  Ledger!Next \/ UNCHANGED Outcome
<1>1. sid' = sid /\ sid[a] \in DOMAIN scans /\ scans[sid[a]].status = "running"
      /\ scans[sid[a]].owner = Token(a)
  BY DEF RewritesOwn, MayWrite, IsRunning
<1>2. \A b \in Attempt \ (Unleased \cup {a}) : Entry(b)' = Entry(b)
  BY <1>1, StoreAssumption DEF RewritesOwn, Entry, Token
<1>3. CASE a \in Unleased
  BY <1>2, <1>3 DEF Outcome
<1>4. CASE a \notin Unleased
  <2>1. Entry(a) = "running" /\ Entry(a)' = scans'[sid[a]].status
    BY <1>1, <1>4, StoreAssumption DEF RewritesOwn, Entry, Token, TypeOK, StoreTypeOK
  <2>2. scans'[sid[a]].status \in {"running", "completed", "failed"}
    BY <1>1 DEF RewritesOwn, TypeOK, StoreTypeOK, Row
  <2>3. CASE scans'[sid[a]].status = "running"
    BY <1>2, <2>1, <2>3 DEF Outcome
  <2>4. CASE scans'[sid[a]].status \in {"completed", "failed"}
    <3>1. Ledger!Finish(a, scans'[sid[a]].status)
      BY <1>2, <1>4, <2>1 DEF Ledger!Finish
    <3> QED  BY <1>4, <2>4, <3>1 DEF Ledger!Next
  <2> QED  BY <2>2, <2>3, <2>4
<1> QED  BY <1>3, <1>4

LEMMA LedgerPrune ==
  ASSUME TypeOK, NEW a \in Attempt, NEW d, Prune(a, d)
  PROVE  Ledger!Next
<1> DEFINE Old == {b \in Attempt \ Unleased : Entry(b) \in {"completed", "failed"}
                                               /\ sid[b] \notin DOMAIN scans'}
<1>1. sid' = sid /\ DOMAIN scans' = {i \in DOMAIN scans : Retained(i)}
      /\ \A i \in DOMAIN scans' : scans'[i] = scans[i]
  BY DEF Prune, PruneScans, UnchangedRun
<1>2. \A i \in DOMAIN scans : scans[i].status \notin {"completed", "failed"} => i \in DOMAIN scans'
  BY <1>1 DEF Retained, IsTerminal
<1>3. \A b \in Attempt \ Unleased : Entry(b)' = IF b \in Old THEN "gone" ELSE Entry(b)
  <2> TAKE b \in Attempt \ Unleased
  <2>1. CASE sid[b] = None
    BY <1>1, <2>1 DEF Entry
  <2>2. CASE sid[b] # None /\ sid[b] \in DOMAIN scans'
    BY <1>1, <2>2 DEF Entry
  <2>3. CASE sid[b] # None /\ sid[b] \notin DOMAIN scans'
    BY <1>1, <1>2, <2>3 DEF Entry
  <2> QED  BY <2>1, <2>2, <2>3
<1>4. Ledger!Prune(Old)
  BY <1>3 DEF Ledger!Prune
<1> QED  BY <1>4 DEF Ledger!Next

LEMMA LedgerClear ==
  ASSUME TypeOK, NEW d, ClearScans(d)
  PROVE  Ledger!Next
<1>1. sid' = sid /\ DOMAIN scans' = {}
  BY DEF ClearScans, ClearAllIfIdle, runVars
<1>2. \A b \in Attempt \ Unleased : Entry(b)' = IF Entry(b) = "none" THEN "none" ELSE "gone"
  BY <1>1 DEF Entry, TypeOK, StoreTypeOK, Row
<1> QED  BY <1>2 DEF Ledger!Clear, Ledger!Next

LEMMA LedgerStep ==
  ASSUME MaxDelay = 0, TypeOK, RunsInv, [Next]_vars
  PROVE  Ledger!Next \/ UNCHANGED Outcome
<1> DEFINE Good == Ledger!Next \/ UNCHANGED Outcome
<1>z. \A a \in Attempt : \A d \in Ages(a) : d = 0
  BY DEF TypeOK, RunsTypeOK, Ages
<1>p. TypeOK'  BY NextTypeOK
<1> HIDE DEF Good
<1>g. Good <=> Ledger!Next \/ UNCHANGED Outcome  BY DEF Good
<1>1. ASSUME NEW a \in Attempt, Works(a) PROVE Good
  BY <1>1, <1>g, WorksEffect, QuietStep
<1>2. ASSUME NEW a \in Attempt, NEW d \in Ages(a), Writes(a, d) PROVE Good
  <2>1. CASE TryStartScan(a, d)
    BY <2>1, <1>g, LedgerAcquire
  <2>2. CASE StartScan(a, d)
    BY <2>2, <1>g, <1>z, LedgerStart
  <2>3. ASSUME RewritesOwn(a, d) PROVE Good
    BY <2>3, <1>g, <1>p, LedgerWrite
  <2>4. ASSUME Refused(a, d) PROVE Good
    BY <2>4, <1>g, RefusedEffect, QuietStep
  <2>5. CASE Prune(a, d)
    BY <2>5, <1>g, LedgerPrune
  <2>6. CASE EndScan(a, d)
    BY <2>6, <1>g, QuietStep DEF EndScan, ReleaseLease, UnchangedRun
  <2> QED  BY <1>2, <2>1, <2>2, <2>3, <2>4, <2>5, <2>6, WriteEffect DEF Writes, Refused
<1>3. ASSUME NEW a \in Attempt, Dies(a) PROVE Good
  BY <1>3, <1>g, QuietStep DEF Dies, Crash, DropLists, storeVars
<1>4. ASSUME NEW a \in Attempt, Renewal(a) PROVE Good
  BY <1>4, <1>g, QuietStep
  DEF Renewal, RenewalWakes, RenewRaises, Renew, RenewRefused, storeVars, runVars
<1>5. CASE Tick
  BY <1>5, <1>g, QuietStep DEF Tick, runVars
<1>6. ASSUME NEW d \in 0..MaxDelay, ClearScans(d) PROVE Good
  BY <1>6, <1>g, LedgerClear
<1>7. CASE UNCHANGED vars
  BY <1>7, <1>g, QuietStep DEF vars, storeVars, runVars
<1> QED  BY <1>1, <1>2, <1>3, <1>4, <1>5, <1>6, <1>7, <1>g DEF Next, Step

(* Leases, crashes, takeovers and retention together implement the ledger: *)
(* one running scan at a time, and one lasting outcome for each.           *)
THEOREM RefinesLedger ==
  ASSUME MaxDelay = 0, ~CleanupMayFail
  PROVE  Spec => LedgerSpec
<1>1. Init => Ledger!Init
  BY DEF Init, Ledger!Init, Entry
<1>2. TypeOK /\ RunsInv /\ [Next]_vars => [Ledger!Next]_Outcome
  BY LedgerStep
<1> QED
  BY <1>1, <1>2, TypeCorrect, RunsInvariant, PTL DEF Spec, LedgerSpec, Ledger!Spec, Outcome
===============================================================================
