------------------------------- MODULE ScanRuns --------------------------------
(***************************************************************************)
(* Scan attempts running against one database.  An attempt is the program  *)
(* of one process or background task: try_start_scan, the ScanLeaseContext *)
(* around Auditor.run with its renewal thread, and end_scan.  Attempts run *)
(* concurrently, may fail at any step, crash at any step, and find their   *)
(* lease expired at any step; other requests clear the database.           *)
(*                                                                         *)
(* phase[a] is where attempt a is in that program:                         *)
(*   new       has not called try_start_scan                               *)
(*   held      holds a token, ScanLeaseContext not yet entered             *)
(*   start     about to call start_scan                                    *)
(*   hashes    about to call get_previous_hashes                           *)
(*   fetch     fetching and storing documents                              *)
(*   carry     about to call carry_forward_results                         *)
(*   analyze   running analyzers and the classifier, in memory             *)
(*   store     storing audit results                                       *)
(*   complete  about to call complete_scan_with_findings                   *)
(*   prune, report, finish   the tail of a completed run                   *)
(*   failing   about to call fail_scan                                     *)
(*   exit      in ScanLeaseContext.__exit__, about to call end_scan        *)
(*   done      returned; dead: its process died                            *)
(***************************************************************************)
EXTENDS ScanStore

CONSTANT CleanupMayFail  \* whether a failed run's cleanup can itself fail
ASSUME CleanupAssumption == CleanupMayFail \in BOOLEAN

VARIABLES
  phase,
  ready,     \* the lease_check() of the coming write has passed
  sid,       \* Auditor.run's scan_id
  changed,   \* Auditor.run's documents: fetched, new or changed
  skipped,   \* Auditor.run's skipped_ids: fetched, unchanged
  todo,      \* documents still to store, then results still to store
  ctxLast,   \* ScanLeaseContext.last_scan_id
  lost,      \* ScanLeaseContext._ownership_lost
  renewer,   \* the renewal thread: off, waiting, or renewing (connected)
  mainAge,   \* ticks since the main thread last took a step
  wakeAge    \* ticks since the renewal thread woke up

runVars == <<phase, ready, sid, changed, skipped, todo>>
ctxVars == <<ctxLast, lost>>
ages == <<mainAge, wakeAge>>
vars == <<storeVars, runVars, ctxVars, renewer, ages>>

Phase == {"new", "held", "start", "hashes", "fetch", "carry", "analyze", "store", "complete",
          "prune", "report", "finish", "failing", "exit", "done", "dead"}

(* The boundaries at which run() calls lease_check().                      *)
Boundary == {"start", "fetch", "carry", "analyze", "store", "complete", "prune", "report"}

(* The body of run()'s try statement.                                      *)
Guarded == {"hashes", "fetch", "carry", "analyze", "store", "complete"}

Stopped == {"exit", "done", "dead"}

RunsTypeOK ==
  /\ phase \in [Attempt -> Phase]
  /\ ready \in [Attempt -> BOOLEAN]
  /\ sid \in [Attempt -> Nat \cup {None}]
  /\ changed \in [Attempt -> SUBSET Doc]
  /\ skipped \in [Attempt -> SUBSET Doc]
  /\ todo \in [Attempt -> SUBSET Doc]
  /\ ctxLast \in [Attempt -> Nat \cup {None}]
  /\ lost \in [Attempt -> BOOLEAN]
  /\ renewer \in [Attempt -> {"off", "waiting", "renewing"}]
  /\ mainAge \in [Attempt -> 0..MaxDelay]
  /\ wakeAge \in [Attempt -> 0..MaxDelay]

(* Every variable keeps its type; scan ids stay within those handed out.   *)
TypeOK == StoreTypeOK /\ RunsTypeOK

Init ==
  /\ StoreInit
  /\ phase = [a \in Attempt |-> IF a \in Unleased THEN "start" ELSE "new"]
  /\ ready = [a \in Attempt |-> FALSE]
  /\ sid = [a \in Attempt |-> None]
  /\ changed = [a \in Attempt |-> {}]
  /\ skipped = [a \in Attempt |-> {}]
  /\ todo = [a \in Attempt |-> {}]
  /\ ctxLast = [a \in Attempt |-> None]
  /\ lost = [a \in Attempt |-> FALSE]
  /\ renewer = [a \in Attempt |-> "off"]
  /\ mainAge = [a \in Attempt |-> 0]
  /\ wakeAge = [a \in Attempt |-> 0]

-------------------------------------------------------------------------------
(* Control flow.                                                           *)

Goto(a, p) ==
  /\ phase' = [phase EXCEPT ![a] = p]
  /\ ready' = [ready EXCEPT ![a] = FALSE]

Left(a) == IF a \in Unleased THEN "done" ELSE "exit"

(* lease_check() is None for an unleased run.                              *)
MayProceed(a) == ready[a] \/ a \in Unleased

(* The possible ages of the clock value the main thread of a uses now.     *)
Ages(a) == 0..mainAge[a]

UnchangedRun == UNCHANGED <<sid, changed, skipped, todo>>

(* The step of a goes to p and changes nothing else of its run.            *)
Moves(a, p) == Goto(a, p) /\ UnchangedRun /\ UNCHANGED <<storeVars, renewer>>

(* run() no longer reads its lists of documents.                           *)
DropLists(a) ==
  /\ changed' = [changed EXCEPT ![a] = {}]
  /\ skipped' = [skipped EXCEPT ![a] = {}]
  /\ todo' = [todo EXCEPT ![a] = {}]
  /\ UNCHANGED sid

(* The step of a leaves run()'s try statement for p.                       *)
Leaves(a, p) == Goto(a, p) /\ DropLists(a) /\ UNCHANGED <<storeVars, renewer>>

(* The context object of a is gone.                                        *)
DropContext(a) ==
  /\ ctxLast' = [ctxLast EXCEPT ![a] = None]
  /\ lost' = [lost EXCEPT ![a] = FALSE]

-------------------------------------------------------------------------------
(* Acquiring the lease and entering the context.                           *)

TryStartScan(a, d) ==
  /\ phase[a] = "new"
  /\ AcquireLease(a, d)
  /\ Goto(a, "held")
  /\ UnchangedRun /\ UNCHANGED <<ctxVars, renewer>>

TryStartRefused(a, d) ==
  /\ phase[a] = "new"
  /\ ~MayAcquire(d)
  /\ Moves(a, "done") /\ UNCHANGED ctxVars

EnterContext(a) ==
  /\ phase[a] = "held"
  /\ renewer' = [renewer EXCEPT ![a] = "waiting"]
  /\ Goto(a, "start")
  /\ UnchangedRun /\ UNCHANGED <<storeVars, ctxVars>>

(* _run_scan fails before it has a context: it calls end_scan with an error. *)
SetupFails(a) ==
  /\ phase[a] = "held"
  /\ Moves(a, "exit") /\ UNCHANGED <<ctxLast, lost>>

-------------------------------------------------------------------------------
(* lease_check(): a separate read before the write it protects.            *)

CheckPasses(a, d) ==
  /\ phase[a] \in Boundary /\ ~MayProceed(a)
  /\ ~lost[a] /\ HoldsAt(a, d)
  /\ ready' = [ready EXCEPT ![a] = TRUE]
  /\ UnchangedRun /\ UNCHANGED <<phase, storeVars, ctxVars, renewer>>

CheckFails(a, d) ==
  /\ phase[a] \in Boundary /\ ~MayProceed(a)
  /\ lost[a] \/ ~HoldsAt(a, d)
  /\ lost' = [lost EXCEPT ![a] = TRUE]
  /\ Leaves(a, "exit") /\ UNCHANGED ctxLast

-------------------------------------------------------------------------------
(* Auditor.run.                                                            *)

StartScan(a, d) ==
  /\ phase[a] = "start" /\ MayProceed(a) /\ MayStart(a, d)
  /\ InsertScan(a)
  /\ sid' = [sid EXCEPT ![a] = seq']
  /\ Goto(a, "hashes")
  /\ UNCHANGED <<changed, skipped, todo, ctxVars, renewer>>

(* Mutation: carry forward only when nothing changed.                      *)
AfterFetch_DropsCarry(new, same) ==
  IF new = {} THEN (IF same = {} THEN "complete" ELSE "carry") ELSE "analyze"

AfterFetch(new, same) ==
  CASE same # {} -> "carry"
    [] same = {} /\ new = {} -> "complete"
    [] OTHER -> "analyze"

(* The source will yield the documents of fetched; those of same have the  *)
(* hash that the latest completed scan recorded.                           *)
ReadHashes(a, fetched, same) ==
  /\ phase[a] = "hashes"
  /\ same \subseteq fetched \cap LatestDocs
  /\ changed' = [changed EXCEPT ![a] = fetched \ same]
  /\ skipped' = [skipped EXCEPT ![a] = same]
  /\ todo' = [todo EXCEPT ![a] = fetched]
  /\ Goto(a, IF fetched = {} THEN "complete" ELSE "fetch")
  /\ UNCHANGED <<sid, storeVars, ctxVars, renewer>>

StoreDocument(a, d, doc) ==
  /\ phase[a] = "fetch" /\ MayProceed(a) /\ MayWrite(a, sid[a], d)
  /\ doc \in todo[a]
  /\ WriteScan(sid[a], WithDoc(scans[sid[a]], doc))
  /\ todo' = [todo EXCEPT ![a] = @ \ {doc}]
  /\ Goto(a, IF todo[a] = {doc} THEN AfterFetch(changed[a], skipped[a]) ELSE "fetch")
  /\ UNCHANGED <<sid, changed, skipped, ctxVars, renewer>>

CarryForward(a, d) ==
  /\ phase[a] = "carry" /\ MayProceed(a) /\ MayWrite(a, sid[a], d)
  /\ WriteScan(sid[a], WithCarried(scans[sid[a]], skipped[a]))
  /\ Goto(a, IF changed[a] = {} THEN "complete" ELSE "analyze")
  /\ UnchangedRun /\ UNCHANGED <<ctxVars, renewer>>

Analyze(a) ==
  /\ phase[a] = "analyze" /\ MayProceed(a)
  /\ todo' = [todo EXCEPT ![a] = changed[a]]
  /\ Goto(a, "store")
  /\ UNCHANGED <<sid, changed, skipped, storeVars, ctxVars, renewer>>

StoreResult(a, d, doc) ==
  /\ phase[a] = "store" /\ MayProceed(a) /\ MayWrite(a, sid[a], d)
  /\ doc \in todo[a]
  /\ WriteScan(sid[a], WithResult(scans[sid[a]], doc))
  /\ todo' = [todo EXCEPT ![a] = @ \ {doc}]
  /\ Goto(a, IF todo[a] = {doc} THEN "complete" ELSE "store")
  /\ UNCHANGED <<sid, changed, skipped, ctxVars, renewer>>

(* The all-unchanged path returns at once: no retention, no reporters.     *)
CompleteScan(a, d) ==
  /\ phase[a] = "complete" /\ MayProceed(a) /\ MayWrite(a, sid[a], d)
  /\ WriteScan(sid[a], Completed(scans[sid[a]]))
  /\ Goto(a, IF changed[a] = {} THEN "finish" ELSE "prune")
  /\ DropLists(a) /\ UNCHANGED <<ctxVars, renewer>>

(* A protected write finds the lease or the scan gone: LeaseLostError,     *)
(* which run() passes on without calling fail_scan.                        *)
WriteRefused(a, d) ==
  /\ MayProceed(a)
  /\ \/ phase[a] = "start" /\ ~MayStart(a, d)
     \/ phase[a] \in {"fetch", "carry", "store", "complete"} /\ ~MayWrite(a, sid[a], d)
  /\ Leaves(a, Left(a)) /\ UNCHANGED ctxVars

Prune(a, d) ==
  /\ phase[a] = "prune" /\ MayProceed(a)
  /\ a \in Unleased \/ HoldsAt(a, d)
  /\ PruneScans
  /\ Goto(a, "report")
  /\ UnchangedRun /\ UNCHANGED <<ctxVars, renewer>>

(* run() swallows whatever prune_scans raises, LeaseLostError included.    *)
PruneFails(a, d) ==
  /\ phase[a] = "prune" /\ MayProceed(a)
  /\ CleanupMayFail \/ (a \notin Unleased /\ ~HoldsAt(a, d))
  /\ Moves(a, "report") /\ UNCHANGED ctxVars

(* The CLI has one reporter, called after a lease_check; the web has none. *)
Report(a) ==
  /\ phase[a] = "report" /\ MayProceed(a)
  /\ Moves(a, "finish") /\ UNCHANGED ctxVars

NoReporter(a) ==
  /\ phase[a] = "report" /\ ~ready[a]
  /\ Moves(a, "finish") /\ UNCHANGED ctxVars

(* ctx.last_scan_id = get_scan_history(limit=1)[0]: whichever scan is the  *)
(* latest completed one by now.                                            *)
ReadHistory(a) ==
  /\ phase[a] = "finish"
  /\ IF a \in Unleased \/ Latest = {}
     THEN UNCHANGED ctxLast
     ELSE \E i \in Latest : ctxLast' = [ctxLast EXCEPT ![a] = i]
  /\ Leaves(a, Left(a)) /\ UNCHANGED lost

-------------------------------------------------------------------------------
(* Failures.                                                               *)

(* A source, an analyzer or the database raises inside run()'s try.        *)
RunFails(a) ==
  /\ phase[a] \in Guarded
  /\ Leaves(a, "failing") /\ UNCHANGED ctxVars

(* Something raises before the scan exists or after it is completed.       *)
FailsOutside(a) ==
  /\ phase[a] \in {"start", "prune", "report", "finish"}
  /\ Leaves(a, Left(a)) /\ UNCHANGED <<ctxLast, lost>>

FailScan(a, d) ==
  /\ phase[a] = "failing"
  /\ IF MayWrite(a, sid[a], d)
     THEN WriteScan(sid[a], Failed(scans[sid[a]]))
     ELSE UNCHANGED storeVars
  /\ Goto(a, Left(a))
  /\ DropLists(a) /\ UNCHANGED <<ctxLast, lost, renewer>>

(* fail_scan raises anything but LeaseLostError: run() only logs it.       *)
FailScanRaises(a) ==
  /\ CleanupMayFail
  /\ phase[a] = "failing"
  /\ Leaves(a, Left(a)) /\ UNCHANGED <<ctxLast, lost>>

(* Ctrl-C in the CLI: "except Exception" does not see a KeyboardInterrupt, *)
(* but the with statement does leave the context.                          *)
Interrupted(a) ==
  /\ CleanupMayFail
  /\ phase[a] \in Boundary \cup Guarded
  /\ Leaves(a, Left(a)) /\ UNCHANGED ctxVars

Crash(a) ==
  /\ phase[a] \notin {"new", "done", "dead"}
  /\ renewer' = [renewer EXCEPT ![a] = "off"]
  /\ Goto(a, "dead")
  /\ DropLists(a) /\ DropContext(a) /\ UNCHANGED storeVars

-------------------------------------------------------------------------------
(* Leaving the context.  The renewal thread is told to stop, but a renewal *)
(* already under way may outlive join(timeout=5).                          *)

EndScan(a, d) ==
  /\ phase[a] = "exit"
  /\ ReleaseLease(a, ctxLast[a], d)
  /\ Goto(a, "done")
  /\ DropContext(a) /\ UnchangedRun /\ UNCHANGED renewer

EndScanRefused(a, d) ==
  /\ phase[a] = "exit"
  /\ ~HoldsAt(a, d)
  /\ Moves(a, "done") /\ DropContext(a)

(* end_scan raises, or no connection could be made: logged, lease kept.    *)
EndScanRaises(a) ==
  /\ phase[a] = "exit"
  /\ Moves(a, "done") /\ DropContext(a)

-------------------------------------------------------------------------------
(* The renewal thread.                                                     *)

(* Mutation: the loop does not look at the stop event.                     *)
RenewalWakes_IgnoresStop(a) ==
  /\ renewer[a] = "waiting"
  /\ renewer' = [renewer EXCEPT ![a] = "renewing"]
  /\ wakeAge' = [wakeAge EXCEPT ![a] = 0]
  /\ UNCHANGED <<storeVars, runVars, ctxVars, mainAge>>

RenewalWakes(a) ==
  /\ renewer[a] = "waiting" /\ phase[a] \notin Stopped
  /\ renewer' = [renewer EXCEPT ![a] = "renewing"]
  /\ wakeAge' = [wakeAge EXCEPT ![a] = 0]
  /\ UNCHANGED <<storeVars, runVars, ctxVars, mainAge>>

Renew(a, d) ==
  /\ renewer[a] = "renewing"
  /\ HoldsAt(a, d)
  /\ lease' = RenewedLease(a, d)
  /\ renewer' = [renewer EXCEPT ![a] = "waiting"]
  /\ UNCHANGED <<lastScan, scans, seq, runVars, ctxVars, ages>>

RenewRefused(a, d) ==
  /\ renewer[a] = "renewing"
  /\ ~HoldsAt(a, d)
  /\ lost' = [lost EXCEPT ![a] = TRUE]
  /\ renewer' = [renewer EXCEPT ![a] = "off"]
  /\ UNCHANGED <<storeVars, runVars, ctxLast, ages>>

RenewRaises(a) ==
  /\ renewer[a] = "renewing"
  /\ renewer' = [renewer EXCEPT ![a] = "waiting"]
  /\ UNCHANGED <<storeVars, runVars, ctxVars, ages>>

-------------------------------------------------------------------------------
(* Time passes; an administrator clears the database.                      *)

Older(n) == IF n < MaxDelay THEN n + 1 ELSE n

Tick ==
  /\ lease' = IF lease.owner # None /\ lease.ttl > -MaxDelay
              THEN [lease EXCEPT !.ttl = @ - 1] ELSE lease
  /\ mainAge' = [a \in Attempt |-> Older(mainAge[a])]
  /\ wakeAge' = [a \in Attempt |-> Older(wakeAge[a])]
  /\ UNCHANGED <<lastScan, scans, seq, runVars, ctxVars, renewer>>

ClearScans(d) == ClearAllIfIdle(d) /\ UNCHANGED <<runVars, ctxVars, renewer, ages>>

-------------------------------------------------------------------------------
Works(a) ==
  \/ EnterContext(a) \/ SetupFails(a)
  \/ \E fetched, same \in SUBSET Doc : ReadHashes(a, fetched, same)
  \/ Analyze(a) \/ Report(a) \/ NoReporter(a) \/ ReadHistory(a)
  \/ RunFails(a) \/ FailsOutside(a) \/ FailScanRaises(a) \/ Interrupted(a)
  \/ EndScanRaises(a)

Writes(a, d) ==
  \/ TryStartScan(a, d) \/ TryStartRefused(a, d)
  \/ CheckPasses(a, d) \/ CheckFails(a, d)
  \/ StartScan(a, d) \/ CarryForward(a, d) \/ CompleteScan(a, d)
  \/ \E doc \in Doc : StoreDocument(a, d, doc) \/ StoreResult(a, d, doc)
  \/ WriteRefused(a, d) \/ FailScan(a, d)
  \/ Prune(a, d) \/ PruneFails(a, d)
  \/ EndScan(a, d) \/ EndScanRefused(a, d)

(* A step of the main thread of attempt a.                                 *)
Step(a) ==
  /\ Works(a) \/ \E d \in Ages(a) : Writes(a, d)
  /\ mainAge' = [mainAge EXCEPT ![a] = 0]
  /\ UNCHANGED wakeAge

Dies(a) == Crash(a) /\ UNCHANGED ages

(* A step of the renewal thread of attempt a.                              *)
Renewal(a) ==
  \/ RenewalWakes(a) \/ RenewRaises(a)
  \/ \E d \in 0..wakeAge[a] : Renew(a, d) \/ RenewRefused(a, d)

Next ==
  \/ \E a \in Attempt : Step(a) \/ Dies(a) \/ Renewal(a)
  \/ Tick
  \/ \E d \in 0..MaxDelay : ClearScans(d)

Spec == Init /\ [][Next]_vars

(* What the scheduler owes: each live attempt's threads go on and time     *)
(* passes.  Nothing obliges an attempt to crash or the database to be      *)
(* cleared.                                                                *)
FairSpec == Spec /\ WF_vars(Tick) /\ \A a \in Attempt : WF_vars(Step(a))

-------------------------------------------------------------------------------
(* Safety.                                                                 *)

Live == LiveAt(0)

(* A scan its worker can still write: an unleased running scan, or one     *)
(* whose owner holds an unexpired lease.                                   *)
Writable(i) ==
  /\ IsRunning(i)
  /\ scans[i].owner = None \/ (lease.owner = scans[i].owner /\ Live)

(* One active scan per database: of two scans that can both be written     *)
(* both are unleased (start_scan, try_start_scan, renew_lease).            *)
WriterExclusion ==
  \A i, j \in DOMAIN scans :
    Writable(i) /\ Writable(j) /\ i # j => scans[i].owner = None /\ scans[j].owner = None

(* A running leased scan carries the token that scan_state still records,  *)
(* which is how the next try_start_scan finds it and abandons it.  A scan  *)
(* outside this invariant stays running for ever.                          *)
RunningScanIsRecoverable ==
  \A i \in DOMAIN scans :
    IsRunning(i) /\ scans[i].owner # None => scans[i].owner = lease.owner

(* No late write of a worker that lost its scan puts documents or results  *)
(* back into a scan that was failed or abandoned.                          *)
FailedScansAreEmpty ==
  \A i \in DOMAIN scans :
    scans[i].status = "failed" => scans[i].docs = {} /\ scans[i].results = {}

(* A completed scan has one result for each document it stored, whether    *)
(* the document was analyzed or its result carried forward.                *)
CompletedScansAreWhole ==
  \A i \in DOMAIN scans :
    scans[i].status = "completed" => scans[i].results = scans[i].docs

(* Every started scan reaches a terminal state: an attempt that returned   *)
(* and has no claim on the lease any more left its scan finished, or the   *)
(* scan is gone (Auditor.run, "Scan lifecycle guarantees").                *)
StartedScansEnd ==
  \A a \in Attempt \ Unleased :
    phase[a] = "done" /\ sid[a] # None /\ lease.owner # a
    => ~(IsRunning(sid[a]) /\ scans[sid[a]].owner = a)

(* Once the lease of a token has expired, no renewal in flight brings it   *)
(* back to life (renew_lease: "an expired lease is never resurrected").    *)
ExpiredLeaseStaysDead ==
  [][lease.owner # None /\ ~Live => lease'.owner # lease.owner \/ ~Live']_vars

(* The rows of a leased scan change only in a step of its own worker under *)
(* a live lease, in its abandonment after that lease expired, or when      *)
(* retention or a clear deletes it whole.                                  *)
WritesAreFenced ==
  [][\A i \in DOMAIN scans \cap DOMAIN scans' :
       scans'[i] # scans[i] /\ scans[i].owner # None =>
         LET a == scans[i].owner IN
         \/ /\ lease.owner = a /\ Live
            /\ \A b \in Attempt \ {a} : phase'[b] = phase[b] /\ todo'[b] = todo[b]
         \/ /\ ~Live /\ lease'.owner # a
            /\ scans'[i] = Failed(scans[i])]_vars

(* A release that names a last scan names the completed scan of the        *)
(* attempt that releases, though it was read from the history after the    *)
(* scan was completed.                                                     *)
ReleaseRecordsOwnScan ==
  [][\A a \in Attempt :
       lease.owner = a /\ lease'.owner = None /\ lastScan' # None
       => /\ lastScan' = sid[a] /\ lastScan' \in DOMAIN scans
          /\ scans[lastScan'].owner = a /\ scans[lastScan'].status = "completed"]_vars

(* The ledger entry of an attempt, from its scan_id and the scans table.   *)
Entry(a) ==
  IF sid[a] = None THEN "none"
  ELSE IF sid[a] \in DOMAIN scans /\ scans[sid[a]].owner = a
       THEN scans[sid[a]].status
       ELSE "gone"

Ledger == INSTANCE ScanLedger WITH
  Attempt <- Attempt \ Unleased, outcome <- [a \in Attempt \ Unleased |-> Entry(a)]

(* The store and its attempts implement the ledger: one scan at a time,    *)
(* one lasting outcome each.                                               *)
LedgerSpec == Ledger!Spec

-------------------------------------------------------------------------------
(* The inductive invariants behind WriterExclusion, RunningScanIsRecoverable *)
(* and LedgerSpec.                                                         *)

(* The scan of leased attempt a is in the table and running.               *)
RunsOwn(a) ==
  sid[a] \in DOMAIN scans /\ scans[sid[a]].owner = a /\ scans[sid[a]].status = "running"

(* A leased row belongs to the one attempt whose scan_id it is; an attempt *)
(* has no lease before try_start_scan and no scan before start_scan.       *)
Ownership ==
  /\ lease.owner \notin Unleased
  /\ \A i \in DOMAIN scans :
       scans[i].owner # None => scans[i].owner \notin Unleased /\ sid[scans[i].owner] = i
  /\ \A a \in Attempt : phase[a] = "new" => lease.owner # a
  /\ \A a \in Attempt : phase[a] \in {"new", "held", "start"} => sid[a] = None
  /\ \A a \in Attempt : phase[a] \in {"new", "held", "exit"} => a \notin Unleased

(* An attempt that leaves its scan running no longer holds a live lease,   *)
(* and a completed run has no running scan.                                *)
LeavesOnlyWhenLost ==
  /\ \A a \in Attempt : phase[a] = "new" => ~lost[a] /\ renewer[a] = "off"
  /\ \A a \in Attempt \ Unleased : lost[a] => ~HoldsAt(a, 0)
  /\ \A a \in Attempt \ Unleased : phase[a] = "exit" /\ RunsOwn(a) => ~HoldsAt(a, 0)
  /\ \A a \in Attempt \ Unleased : phase[a] \in {"prune", "report", "finish"} => ~RunsOwn(a)

ExclusionInv == Live => ~UnleasedRunning

(* All of it, for a store whose clock reads are not delayed and whose      *)
(* cleanup does not fail.                                                  *)
RunsInv == Ownership /\ LeavesOnlyWhenLost /\ ExclusionInv /\ RunningScanIsRecoverable

-------------------------------------------------------------------------------
(* Liveness.                                                               *)

(* The lease cannot be held for ever: it is released, or it expires.       *)
LeaseBecomesFree == []<>~Live
===============================================================================
