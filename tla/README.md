# A formal model of kb-audit

`kb-audit` scans a knowledge base (Notion, Confluence or a demo set), decides for
every page whether it can be trusted, stores the results, and keeps a queue of
findings for a reviewer. This directory holds TLA+ modules that model its core, TLC
configurations that check them on small instances, and TLAPS proofs about them.
Paths below are relative to the root of the repository; `sqlite.py` is
`src/kb_audit/storage/sqlite.py`, `auditor.py` is `src/kb_audit/auditor.py`.

## 1. Inventory

### Components, their state and operations

| component | state | operations that change it |
|---|---|---|
| scan store, SQLite (`storage/sqlite.py`, `schema.py`, `contracts.py`) | `scan_state` (one row: in_progress, owner_token, lease_expires_at, last_scan_id, scan_error), `scans`, `documents`, `audit_results` | `try_start_scan`, `renew_lease`, `end_scan`, `start_scan`, `store_document`, `store_result`, `carry_forward_results`, `complete_scan_with_findings`, `fail_scan`, `prune_scans`, `clear_all_if_idle` |
| finding workflow (same files, `models.py`) | `finding_workflow` | `_do_sync_findings` (inside completion), `update_workflow`, clearing |
| orchestration (`auditor.py`, `ScanLeaseContext`) | local variables of `run`, the stop and lost events, the renewal thread | `Auditor.run`, `check`, `_renewal_loop`, `__enter__`, `__exit__` |
| web API (`web/app.py`) | none of its own | `POST /api/scans` (lease, then a background task), `DELETE /api/scans`, `PATCH /api/findings` |
| command line (`cli.py`) | none of its own | `scan`, `demo`, `triage` |
| Postgres store (`storage/postgres.py`, `schema_postgres.py`, `pg_readiness.py`, migrations) | the same tables | the same operations, as several statements under READ COMMITTED |
| classifier (`trust.py`) and post-processing (`auditor.py` 4b-4d) | none | pure: document, signals, references to a verdict |
| analyzers (`analyzers/`, `titles.py`) | none | pure, except for HTTP probes of `broken_links` |
| sources (`sources/`) | an HTTP client | `fetch_documents`: tree walks, pagination, retries on 429 |
| reporters, config, factory, frontend | none | formatting, environment, a browser page |

### Interaction

A scan attempt is a process (CLI) or a background task (web). It takes the lease with
`try_start_scan`, enters `ScanLeaseContext`, which starts a thread that renews the lease
every 60 s (it lasts 300 s), and calls `Auditor.run`, which fetches, analyzes, writes
and completes one scan. Every write is a transaction of its own that checks the lease
and the scan's row again. On leaving the context the thread is told to stop and
`end_scan` releases the lease. Attempts share nothing but the database. An `Auditor`
may also run against a database without a lease (`owner_token=None`): the commands of this
version always take one, but the storage contract and its tests support it, and
`try_start_scan`, `start_scan` and `prune_scans` each handle it. Completing a scan and updating
`finding_workflow` is one transaction; reviewers update findings at any time.

### What is hard

* **Leases and clocks.** A worker may be stalled or die at any step, and its lease
  expire; a takeover happens while it still runs, its late writes must do nothing.
  "now" is read before a write waits for the database lock.
* **Check, then write.** `lease_check()` and the write it protects are two transactions.
* **Failure of the cleanup itself.** `fail_scan` and `end_scan` may raise.
* **State read early, used late.** Hashes of the previous scan are read at the start,
  its results copied after the fetch, the history read after completion.
* **Retention and clearing** under running scans; ids are reused after a clear.
* **Dispositions against evidence.** A reviewer's decision holds for the evidence it was
  made on; scans that carry results forward must not confuse the two.
* **Statements of one transaction apart.** On Postgres other sessions run between the
  statements of a method: rows are selected and locked at different times, and locks taken
  in different orders deadlock.
* **Rules that disagree.** A page may be declared current, be titled "(old)" and be
  referred to by stale pages at once; three passes correct each other's verdicts, and a
  scan carries verdicts of pages it did not look at again.
* **Trees that change under the walk.** A traversal takes minutes, lists by offset,
  remembers no page it has seen, and some failures are skipped while others end it.

The properties that make each component correct are those of section 3. `PROJECT.json`
lists the hazards with their lines and the properties that cover them.

## 2. Modules

### ScanLedger: what the store promises
One `outcome` per attempt: none, running, completed, failed, gone. One attempt runs
at a time; a running attempt gets one outcome and keeps it until retention (never of a
running scan) or a clear discards its rows. No lease, clock, row or worker.

### ScanStore: the transactions
The store as scan attempts see it; every operator is one SQL transaction.

| TLA+ | code |
|---|---|
| `lease.owner`, `lease.ttl` | `scan_state.owner_token`, `lease_expires_at` minus the present time |
| `lastScan` | `scan_state.last_scan_id` |
| `scans[i]` | the `scans` row (status, owner_token), with the ids of its `documents` and `audit_results` rows |
| `seq` | `sqlite_sequence` for `scans` |
| an attempt `a` used as an owner | its uuid, drawn once in `try_start_scan` |
| `d`, an argument of each operation | how many ticks old the caller's `now` is when the transaction runs |

`lease_expires_at > now` is `ttl + d > 0`. Contents, hashes, titles and errors are left
out: whether a page is unchanged is a choice, limited to pages the latest completed
scan has (`LatestDocs`).

### ScanRuns: the attempts
`phase[a]` is the place of attempt `a` in its program (`auditor.py` 53-384 inside
`cli.py` 165-205 or `web/app.py` 272-386). `ready` says that the `lease_check()`
before the coming write passed, so that check and write are two steps. Each write of
`run` is one action that advances the phase as the code does, including its early
return when nothing changed (`CompleteScan`). Beside them: `WriteRefused`
(LeaseLostError), `RunFails`/`FailScan`/`FailScanRaises`, `FailsOutside`,
`Interrupted` (KeyboardInterrupt), `Crash`, `SetupFails`, `EndScan`,
`EndScanRefused`, `EndScanRaises`; the renewal thread (`RenewalWakes`, `Renew`,
`RenewRefused`, `RenewRaises`) with its own clock read; `Tick`; `ClearScans`.
`mainAge` and `wakeAge` bound how old a thread's clock value may be.

All attempts may exist at once and in any number; leased and unleased ones may be mixed.

### FindingWorkflow: findings
`finding` maps a key (page, status) to its row: state, evidence hash, snoozed_until,
last_seen_scan_id, last_checked_scan_id. `scans` keeps the results of completed scans.
`CompleteScan(res)` is `complete_scan_with_findings`: `Redetected` is the loop over
actionable results, `NotDetected` the auto-fix of scanned pages, `NewRow` the insert.
Pages with unchanged content carry their result forward. `UpdateWorkflow` distinguishes
a field left out (`Unset`) from NULL, as `update_workflow` does. Scans are whole here:
that leased scans do not overlap is what ScanRuns shows. Text columns (title, note,
owner, due date, dismissal reason) are left out because no branch reads them. One
result per page and one evidence hash per result; the hash is taken to survive storage.

### PgTransactions: the Postgres store, by statement
A session is a connection: that of one leased scan (`Worker`) or any other (`Client`: the
renewal thread's, a web request's). `call[s]` is the method of `postgres.py` it is in and
`at[s]` its next statement. `Statements(s)` gives the locks of that method in the order of
its statements; a session holds those before `at[s]`, waits while another holds a
conflicting one (`Blockers`), and a cycle is broken at one of its sessions
(`DeadlockDetected`). What a transaction writes becomes visible in `Commit`.

| TLA+ | code |
|---|---|
| `LeaseRow` first in `Statements(s)` | `SELECT ... FROM scan_state ... FOR UPDATE`, or the `UPDATE` of it |
| `"select"` statements, `read[w]` | the SELECTs of `_do_sync_findings_pg`, which lock nothing |
| `Touch(f)` | INSERT or UPDATE of a `finding_workflow` row |
| `SchemaDDL` | `connect()`: CREATE INDEX IF NOT EXISTS, a SHARE lock even when the index exists |
| `Refused(s)` | `_check_lease`, `WHERE owner_token = ...`, the status checks |
| `early[s]` | the method read its `now` before the lease expired |
| `Raise`, `ReadFails` | rollback in the method's `except`; a read that has none |

Lease time is left out: a lease may expire at any moment, so that what holds here holds
for every length of lease. Workers are leased scans of which each fetches every page;
carry-forward is in ScanRuns and FindingWorkflow.

### PageSignals, TrustVerdict: analyzers and classifier
Operators only. PageSignals defines what a page is (title, body, dates, links, reduced to
what is read in them) and the signals of the six analyzers on a sequence of documents; it
keeps their tie rules (stable sorts, first of the highest version) because a verdict may
hang on them. TrustVerdict is `classify`: the evidence sets, the lifecycle's order of
clues, the lifecycle policy, the ladder of statuses, and `compute_importance` with the
audit rule. Confidence numbers and wording are left out, but for two searches of the code in
the text of whole reasons, which quote the titles of other pages: the lifecycle takes
"deprecated" and "archived" from the title of what a page is a duplicate or an older version
of, or links to as its replacement (`QuotedTitles`), and the policy takes "(draft)" from the
title of the first sibling fetched (`SuffixSaysDraft`). The suffixes told apart are
(deprecated), (archived), (draft), (old) or (legacy), and one that no search looks for,
(copy). That the base of a title repeats a word or a phrase of the program's is left out.

### ScanAnalysis: what scans conclude
Composes the two with `Auditor.run`: fetch with the skip of unchanged hashes (`Yielded`),
`Analyze`, then the passes 4b (`Downgrade`), 5 (`Promote`) and 5b (`Assess`), then
`Complete`, which stores the verdicts of this scan and carries those of skipped pages.
`site` is the outside world, which may change between any two fetches; `latest` is what
the last completed scan holds, with the page each verdict judged as a history component.
The hash covers the body only, as `content_hash` does, so title, links and dates may
change under an unchanged hash. Leases and crashes are ScanRuns' subject; here a run
completes or fails.

### SourceWalk: Notion and Confluence
A walk is a stack of frames, one per suspended call of the recursive generators:
`page` (get the page), `blocks` (list its blocks, `start_cursor`), `query` (entries of a
database), `children` (list child pages by `start`), `child`. Each action is one request
and what follows from its answer. Three kinds of walk: Notion's page tree, Confluence's
page tree, and a flat Confluence listing (space or query). `Refused` is 429 with its
retry count, `Error` any other failure, `Gone` a request for a page that no longer exists;
`Move` is an author. `moved`, `grown`, `shrunk`, `lost` record causes, for the properties.

### MC modules
Model values, symmetry sets, the corpus of page contents (MCScanAnalysis) and of trees
(MCSourceWalk). Attempts of the same kind, documents, contents, issues, evidence, workers
and pages of ScanAnalysis are interchangeable; the runs with liveness use no symmetry.

### ScanRuns_proofs, FindingWorkflow_proofs, PgTransactions_proofs, ScanAnalysis_proofs, ScanOrder_proofs, SourceWalk_proofs, WalkTrees_proofs, WalkCoverage_proofs
Theorems and lemmas (section 4). ScanOrder_proofs goes on from ScanAnalysis_proofs,
WalkCoverage_proofs from SourceWalk_proofs by way of WalkTrees_proofs, which is about trees alone.

Definitions marked "Mutation" are plausible bugs (a dropped guard, a missing reset) of
the operator that follows them. No specification uses them; they record that each
property can fail: with the operator replaced by its mutation the property is violated.

## 3. Model checking

| run | instance | checks |
|---|---|---|
| `scan_leased` | 2 leased attempts, 2 documents, lease of 1 tick, prompt clocks | `TypeOK`, `RunningScanIsRecoverable`, `CompletedScansAreWhole`, `ExpiredLeaseStaysDead`, `WritesAreFenced`, `ReleaseRecordsOwnScan`, `LedgerSpec` |
| `scan_unleased` | 1 leased and 1 unleased attempt, 2 documents | `WriterExclusion`, `FailedScansAreEmpty`, `WritesAreFenced` |
| `scan_faults` | 2 leased attempts, 1 document, lease of 2 ticks, clocks up to 1 tick late, cleanup that fails | `FailedScansAreEmpty`, `CompletedScansAreWhole`, `ReleaseRecordsOwnScan` |
| `scan_live` | 2 leased attempts, 1 document, `FairSpec` | `LeaseBecomesFree` |
| `workflow` | 1 page, 2 contents, 2 issues, 2 evidence hashes, 3 scans, 2 instants, retention of 2 | `TypeOK`, `DetectedIssuesAreTracked`, `ContextShowsTheFinding`, `DispositionsCoverTheirEvidence`, `ScansClearTheQueue`, `ScansActOnEvidence` |
| `pg` | 2 workers, 1 other connection making 2 reviews or 1 other request, 1 finding, faults on | `TypeOK`, `RowsMatchStatus`, `FindingsOfCompletedScans`, `DeadlocksNeedAConnect`, `SyncIsSerialButForRaces`, `LedgerSpec` |
| `verdict` | 3 pages, 18 contents, 1 upset (a change or a repeated page) after the first completed scan | `TypeOK`, `CurrentIsEarned`, `SilentReviewsAreOnlyOld`, `DisownedPagesAreAudited`, `CurrentRestsOnLiveReferrers`, `SomePageSurvives`, `OrderOnlyBreaksTies`, `VerdictsJudgeTheStoredText`, `OnlyTheUnknownIsPromoted` |
| `walk` | 3 kinds of walk, 3 trees of 5 pages, answers of 2 items, 2 moves, 1 error, 2 tries | `TypeOK`, `MissedPagesHaveAReason`, `RepeatedPagesHaveAReason`, `FailuresAreContained`, `WalkEnds` |
| `scan_orphan`, `scan_stale_clock`, `pg_orphan`, `verdict_suffix` | as above; one fault, late clock or failed read, none in `verdict_suffix` | expected violations (below) |

What they show:

* **A crash never loses a scan** (`RunningScanIsRecoverable`): the token of a running
  leased scan is the one `scan_state` records, which is how the next acquirer finds it.
  It needs cleanup that does not fail, and prompt clocks.
* **Late workers do no harm** (`WritesAreFenced`, `FailedScansAreEmpty`): leased rows
  change in a step of their worker under a live lease, or when they are abandoned.
* **One writer** (`WriterExclusion`): a leased scan that can still be written excludes
  all others. Two unleased ones do not exclude each other, in the code as in the model.
* **Completed scans are whole** (`CompletedScansAreWhole`): one result per stored
  document, analyzed or carried, though hashes and results are read at different times.
* **`last_scan_id` is right** (`ReleaseRecordsOwnScan`): although it is read from the
  history, it names the scan of the attempt that releases.
* **The database unlocks** (`LeaseBecomesFree`): no crash, failed release or
  renewal in flight keeps the lease alive for ever.
* **Findings follow scans**: see the comments of the properties in FindingWorkflow.
* **Row locks suffice** (`LedgerSpec` in `pg`): the lease row, locked first by every
  leased method, gives what SQLite's write lock gives. PgTransactions and ScanStore
  implement the same abstract specification.
* **Deadlocks are named** (`DeadlocksNeedAConnect`): storage methods never wait for each
  other in a circle; a connection that is being opened may be in one, because its index
  DDL locks whole tables in another order.
* **Reviews race with scans in named ways only** (`SyncIsSerialButForRaces`): a review
  between a sync's SELECT and its UPDATE is lost only if the sync reopens or resolves the
  finding, and a finding that was selected as fixed stays as the review left it.
* **Current is earned** (`CurrentIsEarned`, `CurrentRestsOnLiveReferrers`): after all
  passes a current page has positive evidence and nothing hard, soft or explicit against it,
  and does not rest on stale referrers that name it in their text.
* **Nothing bad is silent** (`SilentReviewsAreOnlyOld`, `DisownedPagesAreAudited`): what is
  not audited is old at most, with the exception the second property spells out.
* **Comparison leaves a survivor** (`SomePageSurvives`): all pages of a scan are stale by
  comparison only if one was yielded twice or two are at odds (`AtOdds`: titles that
  order them one way, and text versions or equal bodies the other).
* **Order of documents matters only for ties and for a quoted sibling**
  (`OrderOnlyBreaksTies`): equal dates, equal versions, a stale page that resembles two
  newer ones, or a tentative page with a suffix whose siblings are titled "(draft)" in part
  (`SuffixInDoubt`). Without this last exception the property fails in the run.
* **Verdicts fit the text** (`VerdictsJudgeTheStoredText`): a carried verdict judged the
  body that is stored, through edits between fetch and fetch, failures and repeats.
* **Walks** end (`WalkEnds`), miss or repeat pages for the reasons named only
  (`MissedPagesHaveAReason`, `RepeatedPagesHaveAReason`), and a Confluence walk that
  returns has read what it asked for, or nothing (`FailuresAreContained`).

### Bounds, and why they are enough
Interaction in ScanRuns is between pairs: the holder of the lease and the next
acquirer, or a leased and an unleased attempt; a third one meets the same row in the same
states. Two documents allow a mix of a changed and an unchanged one, a carry-forward
followed by analysis, and a failure between two writes. A lease of one or two ticks
expires between any two steps. `Keep = 1` makes every prune delete. The ids grow by
the number of attempts at most, so state spaces are finite without a constraint; `Tick`
stops counting at `-MaxDelay`, below which no comparison changes, and
`MaxDelay < LeaseDuration` says a write waits less long (busy timeout, seconds) than
a lease lasts (300 s). Three attempts exceed some minutes of checking; most of the
safety properties are proved for every number (section 4).

In FindingWorkflow findings of different pages do not interact: sync and updates work
page by page and key by key. `MaxScans = 3` allows detect, dispose, detect again, with
a prune (`Keep = 2`) or a failed scan in between; `MaxTime = 1` gives a snooze that has
run out and one that has not.

In `pg` every conflict is between two transactions, and a deadlock with a third party is
one with the schema DDL: two workers and one other connection give two scans with a
takeover, and each kind of request against each. One finding has one row, so that row
locks of different findings, taken in the order of the results, are not seen to cross:
with the lease row locked first only one sync runs at a time, and a review locks one row.
`Keep = 1` makes the second scan's prune delete; `MaxRequests = 2` allows
two reviews, so that a finding that one snoozed can be reviewed again while a sync reopens
it, or one request of another kind, which counts twice. The reviews asked for are those that
change whether a sync reopens or resolves: into a state it keeps, a snooze, and fixed.

In `verdict` the contents are chosen so that each rule fires and each pair of rules that
can conflict does (versions by number and by year, copies, drafts, declared status against
title, stale and live referrers, review dates, dead links, a lifecycle in a quoted title,
a suffix in doubt); a version group, a duplicate group, two referrers and their target, or a
page and two siblings need at most three pages. One upset
after a completed scan gives an edit under a carried verdict, an edit between
fetches, a page lost or returned, a page yielded twice. In `walk` a listing of three items
with answers of two is paginated, one of two fills its answer exactly; two moves can shift an
offset forth and back; two tries give one retry that succeeds and one that does not.

A deadlock check stays on except in `pg`, `pg_orphan` and `walk`, where all may be
done: every scan over and every request made, or the walk at its end.

### Fairness
`FairSpec` adds weak fairness of `Tick` (time passes) and of `Step(a)`, the main thread
of each attempt: the scheduler runs it, and each of its calls returns (database calls have
a busy timeout, HTTP calls a timeout). Nothing is assumed of the renewal thread,
which may renew as long as it is not told to stop, of crashes, or of clears.
SourceWalk's `Spec` has weak fairness of `Step`: each request is answered in some
way (the HTTP clients set a timeout), and generators are driven to their end by `run`.
Nothing is assumed of authors or of failures. PgTransactions and ScanAnalysis are
checked for safety only.

### Disagreements between code and text
* `scan_orphan`: *"Every started scan reaches exactly one terminal state"*
  (`auditor.py:47`, also TDD section on acceptance). After Ctrl-C, or when `fail_scan`
  raises, `end_scan` forgets the token of a scan that is still running; no later
  takeover looks for it.
* `scan_stale_clock`: *"an expired lease is never resurrected"* (`sqlite.py:345`).
  `now` is read before the statement waits for the write lock.
* `pg_orphan`: the same sentence as `scan_orphan`, on Postgres and without an interrupt. A
  statement of `get_previous_hashes` fails and, outside any `try`, leaves the connection in
  an aborted transaction: `fail_scan` fails on it, rolls back and raises, `end_scan` then
  succeeds, and the scan stays `running` without a token.
* `verdict_suffix`: *"Hard-negative suffixes like (old), (deprecated) stay."*
  (`trust.py:1295`). Whether a suffix is "(draft)" is searched in a reason that also quotes
  the first sibling (`trust.py:1051`, `1134`): "Guide v2 (copy)", a draft by its text, loses
  its suffix beside a page "Guide v1 (draft)" and is `needs_review` instead of `stale`.

### Observed
What the models show beside their properties; most of it is written into a property as its
exception, or listed under the hazards.

*Scans and findings, SQLite.* An issue that disappears and comes back with
identical evidence stays `fixed`; `PATCH snoozed_until: null` leaves a snoozed finding
that no sync reopens; the web task's setup failure after the storage object exists leaves the
lease to expire; an unleased prune checks no lease, so with a very small retention window
it may delete the scan another run is about to carry results from (at 20 this needs 20
later terminal scans during one scan). `CompletedScansAreWhole` is therefore checked for
leased attempts. *"After a successful scan, old scan data is
pruned"* (`docs/TDD.md:962`) does not hold of a scan that finds every page unchanged: it returns
before it prunes (`auditor.py:124`), so such scans pile up until one that finds a change.

*Postgres.* A review into open or acknowledged that gives no reason sets `dismissal_reason = NULL`
(`postgres.py:842`) in a column that is NOT NULL, and is rolled back, where
`test_storage_postgres_live.py:400` asserts that acknowledging a finding succeeds. The unleased
`start_scan` reads `scan_state` with a SELECT that locks nothing when no lease is live, so it and an
acquisition may both succeed (not modelled). The renewal thread opens a new connection for each
renewal, so it runs the schema DDL each time, and may be the victim or the cause of a deadlock with
the scan it serves. `LedgerSpec` counts the scan of `pg_orphan` as failed, since nobody can write
it; that its row says `running` is what `StartedScansEnd` objects to. Clearing does not restart the
id sequence, where SQLite's does. A sync resolves the findings it selected as not fixed
(`postgres.py:1036`): one that a review reopens between that SELECT and the commit stays open,
though the scan did not find it; the next scan resolves it.

*Verdicts.* Pass 4b counts references in the text only, where `classify` counts internal
links too. A page titled "(deprecated)" without a sibling and with "Status: Current" has
lifecycle deprecated, is current and is not audited, though the policy's comment
(`trust.py`, near 1283) has the contradiction reviewed: it is consulted only where stale
reasons exist. `trust.py:22` says soft risks "do not override Status: Current"; the ladder
makes such a page needs_review. Of two pages, duplicates decided by date and versions
decided by title may each condemn the other. So may titles and texts: "Guide v1" with a body
that speaks of version 3 and "Guide v2 (copy)", a copy by its title and behind by its text, leave
no current guide at all. Two newer look-alikes of one stale page make its verdict depend on
the order of the fetch, since only the first is asked about (`auditor.py:237`). A page with an
exact duplicate titled "(archived)", or that links to such a page as its replacement, is
itself archived, because the lifecycle looks for the word in the whole reason. A page
that a source yields twice is an exact duplicate of itself. The similarity analyzer's version signal ignores scopes, which the
classifier's own comparison respects. Unchanged pages are not judged again: they do not
age, and references to them are unresolved in a scan that skips them. The branch of pass 5
for a current page with review risks is never taken: the classifier leaves none.

*Walks.* Offsets into a listing that changes skip or repeat pages; a page moved during the
walk may be yielded twice or not at all. Pages below the entries of a Notion database are never
walked. When the listing of a page's blocks fails, the page is taken with the text read so
far; when a page cannot be read, it and all below it are dropped. An unreachable
Confluence root gives an empty scan that completes. A database query has no retry on 429,
and no walk catches a transport error: each fails the whole scan.

## 4. Proofs

Assumptions on the constants (all evaluated by TLC in the runs): `LeaseAssumption`,
`StoreAssumption`, `CleanupAssumption`, `WorkflowAssumption`, `PgAssumption`,
`AnalysisAssumption`, `WalkAssumption`. `Attempt`, `Doc`, `Worker`, `Client`,
pages, contents, issues and evidence are arbitrary sets, of any size. `PgAssumption` says that
owner tokens and other connections differ, that finding keys are no table names and finitely many
(a scan fetches finitely many pages), that `None` is nothing else, and that reviewers ask for
states there are. `WalkAssumption` says what a tree is: finitely many pages, none of which lies under two pages, is
listed twice under one, or lies below itself, as a page of the two services has one parent. A
database has entries and no text of its own (`query` reads nothing else from it), and `"none"`,
which marks a frame that has not listed anything yet, is no page. All this is said of the
tree the walk begins with: that moves keep it so is proved. Where two theorems have one name, the table adds the module.

| theorem | states | under |
|---|---|---|
| `TypeCorrect` | `[]TypeOK` (ScanRuns) | - |
| `FailedScansStayEmpty` | `[]FailedScansAreEmpty` | - |
| `RowsHaveOneOwner` | `[]Ownership` | - |
| `OneWriter` | `[]WriterExclusion` | `MaxDelay = 0` |
| `NoResurrection` | `ExpiredLeaseStaysDead` | `MaxDelay = 0` |
| `RunsInvariant` | `[]RunsInv` | `MaxDelay = 0`, `~CleanupMayFail` |
| `Recoverable` | `[]RunningScanIsRecoverable` | the same |
| `RefinesLedger` | `LedgerSpec` (ScanRuns) | the same |
| `CompletedScansStayWhole` | `[]CompletedScansAreWhole` | `Unleased = {}` |
| `FencedWrites` | `WritesAreFenced` | `MaxDelay = 0` |
| `ReleasesRecordOwnScan` | `ReleaseRecordsOwnScan` | `Unleased = {}` |
| `FindingsTypeCorrect` | `[]TypeOK` (FindingWorkflow) | - |
| `FindingsFollowScans` | `[]DetectedIssuesAreTracked` | - |
| `ContextFollowsFinding` | `[]ContextShowsTheFinding` | - |
| `DispositionsHold` | `DispositionsCoverTheirEvidence` | - |
| `QueueFollowsScans` | `ScansClearTheQueue` | - |
| `ScansNeedEvidence` | `ScansActOnEvidence` | - |
| `TypeCorrect` | `[]TypeOK` (PgTransactions) | - |
| `ScansHaveTheirRows` | `[]RowsMatchStatus` | - |
| `FindingsComeFromCompletedScans` | `[]FindingsOfCompletedScans` | - |
| `MethodsNeverDeadlock` | `[]DeadlocksNeedAConnect` | - |
| `SyncIsSerial` | `SyncIsSerialButForRaces` | - |
| `RefinesLedger` | `LedgerSpec` (PgTransactions) | - |
| `TypeCorrect` | `[]TypeOK` (ScanAnalysis) | - |
| `CurrentIsEarnedAlways` | `[]CurrentIsEarned` | - |
| `CurrentRestsOnLiveReferrersAlways` | `[]CurrentRestsOnLiveReferrers` | - |
| `SilentReviewsAreOnlyOldAlways` | `[]SilentReviewsAreOnlyOld` | - |
| `DisownedPagesAreAuditedAlways` | `[]DisownedPagesAreAudited` | - |
| `SomePageSurvivesAlways` | `[]SomePageSurvives` | - |
| `OrderOnlyBreaksTiesAlways` | `[]OrderOnlyBreaksTies` | - |
| `OnlyTheUnknownIsPromotedEver` | `OnlyTheUnknownIsPromoted` | - |
| `VerdictsJudgeTheStoredTextAlways` | `[]VerdictsJudgeTheStoredText` | - |
| `TypeCorrect` | `[]TypeOK` (SourceWalk) | - |
| `FailuresStayContained` | `[]FailuresAreContained` | - |
| `RepeatsHaveAReason` | `[]RepeatedPagesHaveAReason` | - |
| `MissesHaveAReason` | `[]MissedPagesHaveAReason` | - |

The hypotheses are necessary: `scan_stale_clock` and `scan_orphan` are the
counterexamples without them, and an unleased prune is the one without `Unleased = {}`. The
theorems about PgTransactions have none: they hold under every fault of that model, whose
leases expire at any moment and whose clocks may be read before they do.

**The argument for ScanRuns.** Every main-thread step is of few kinds: it rewrites the row
of its own running scan (`WriteScan`), acquires, releases, inserts, prunes, clears or
leaves the store alone. Lemmas `WorksEffect`, `WriteEffect`, `AcquireEffect`,
`StartEffect`, `RefusedEffect` say so once, and each invariant is proved from these kinds.
`RunningScanIsRecoverable` is not inductive: a release must not happen while the
releaser's scan runs, and an acquisition must find the scans it abandons. `RunsInv` adds

* `Ownership`: a leased row belongs to the one attempt whose `scan_id` it is, and an
  attempt that has not acquired anything is not the owner of the lease;
* `LeavesOnlyWhenLost`: an attempt about to call `end_scan` with its scan still running no
  longer holds a live lease, so that `end_scan` refuses (this is where `fail_scan` and the
  refusals come in);
* `ExclusionInv`: under a live lease no unleased scan is running.

**The refinement** maps each leased attempt to the status of the row its `scan_id`
names, or `gone`. An acquisition that abandons a scan maps to `Finish(_, "failed")`;
by `RunsInv` there is at most one. `StartScan` maps to `Begin`, for which
`RunsInv` gives that no other leased scan runs.

**Completed scans are whole** needs what each attempt knows at each phase (`ProgressInv`):
what it has stored is what it fetched, results exist for what it analyzed, and what it
skipped is in the scan whose hashes it read, which is still the latest. That last part is
the interaction: while an attempt can still write, nobody else completes or prunes
(`RunningWriteKeepsLatest`), and once it cannot, its promises no longer matter
(`Claims`). It needs neither prompt clocks nor cleanup that works.

**Fencing and releases.** `WritesAreFenced` follows from `Ownership` and from
`RowsChangeUnderFence`, which goes through the steps once: whoever changes a leased row
is its attempt, holding the lease, or takes over an expired one. `ReleaseRecordsOwnScan` is
not inductive, because the id is read one step before it is used. `ReleaseInv` says that the scan of
the attempt the lease names is the newest row, that it is completed from the prune on, and that the
id the attempt has read is this one: while it has the lease nobody else starts, prunes or completes.

**FindingWorkflow.** `CompleteScanRows` gives the four cases of a row after a sync
(new, detected again, scanned and not detected, not scanned). That a carried result
keeps the hash of its finding (`DetectedIssuesAreTracked`) is inductive only with the
typing of ids: a new scan is the latest one. `RowAfterScan` turns the four cases into what the step
did to one finding, from which the three action properties follow: only a completion adds a scan
(`OnlyCompleteScanStoresAScan`), a detected row is `Redetected`, a scanned one that is not
detected is `NotDetected`, any other is untouched.

**PgTransactions.** The inductive invariant `IInv` joins what the properties say to what a
transaction knows between its statements:

* `OneHolder`: one session at a time is past the lease row, the first statement of every leased
  method (`StatementsOfSessions`);
* `HolderMayWrite`: what that session found there, its token and its scan still running, is so
  until it commits, though the lease may have expired since;
* `ScanProgress`: the status and the rows of a scan fit the call its worker makes next;
* `ReadsStand`, `ReadsCover`: a sync has selected the findings its statements so far name, and
  no finding was added or deleted, or got another scan or evidence, since.

Steps are then of two kinds (`QuietSteps`, `CommitsAreSound`). A quiet step
leaves scans, rows and owner alone: reviews, ends of snoozes, expiry, statements that only take locks.
Any other is the commit of a leased method by the holder, and each method has a lemma that it
does what the ledger allows (`AcquireSound` to `ClearSound`). The refinement maps a running scan whose
token was lost to `failed`, so an acquisition or a release is a `Finish` or a stutter.
`MethodsNeverDeadlock`: a session in a circle of storage methods waits for
the holder of the lease row (`WaitersWaitForTheHolder`), the holder waits for another, and there is
one holder. `SyncIsSerial`: by `ReadsStand` a row that differs from the one selected was reviewed.
The lock lists are sequences made of index functions, so that the lemmas `Listing` and
`Concatenation` reach them without induction.

**ScanAnalysis.** `PassesInv` says that the verdicts at each phase are the passes so far applied
to the documents and signals, which are fixed from `Analyze` on. `LadderOf`, `DowngradePass`,
`PromotionPass` and `AssessmentPass` say what one pass can do to one page, and the theorems
on `current` follow by composing them. For carried verdicts `StoreInv` says that a skipped
page was stored with the hash the last completed scan holds; `FirstFetch` and
`SecondFetch` keep it while the site changes, since the text is compared and stored in one step,
and `CompletedScan` turns it into the property.

*Types and single pages.* `TypesInv` says that documents are finitely many, that signals are
those of the documents, and that skipped pages are in the latest scan; `PassesKeepTypes`
carries types through the passes. `ClassifiedLifecycle` goes through the lifecycle's clues in
order (`LifecycleClues`), `ReviewedInOutcome` through the policy and the ladder, and the
theorems on audits follow by composing them with what the passes can do. A lifecycle that comes
from a quoted title needs stale evidence beside it: whatever is quoted is also a signal of the
page (`QuotedHaveSignals`).

*Survivors.* Suppose all pages are stale by comparison, each document is its own page and no two
are at odds. `CondemnedByComparison` says by what a page was beaten: an original, a successor
or a superseding sibling. Rank the documents: unmarked titles before marked ones, then by the
highest version of title or text, by the version of the title, by date and by position
(`SurvivorRanks`). The first of them, which exists because there are finitely many
(`HighestOf`, by least counterexample), is beaten by none (`SurvivorIsSpared`). The attempt to prove an
earlier form of this property, with three exceptions, failed on "Guide v1" and "Guide v2
(copy)"; TLC then confirmed the counterexample, and the corpus has it now.

*Order.* `Reordered` is about any order of the same documents, not the reverse alone: where no two
are of one page, as new, or of one version (`Untied`), each set of positions that an analyzer
computes is that of the other order, moved (`OriginalsMoved`, `SuccessorsMoved`,
`LookalikesMoved`, `TitledMoved`, `CandidatesMoved`), since no minimum it takes is taken twice. So
signals agree (`SignalsMoved`), and the titles they quote (`QuotedMoved`). The classifier
(`ClassifyMoved`) sees the order through the sibling that a suffix reason quotes, and only for a
tentative page whose suffix counts (`PolicyMoved`); siblings that agree on "(draft)" say the same
whichever comes first (`SuffixOfAgreeing`), others are `SuffixInDoubt`. The passes agree as long as
a stale page names one page by each kind of signal (`SupersedesMoved`, `OutcomeMoved`): duplicates
and successors always do (`TargetsAreSingle`), similar pages are the exception the property names.
The lifecycle by which the property excludes a page in doubt is the one the classifier saw,
since no pass changes it (`LifecycleKept`).

**SourceWalk.** A step that is answered takes the top frame off the stack and puts others in
its place (`Goes`), and which those are depends on the source (`Frames`): only Notion has frames
that read child pages one by one (`Read`). So in a Confluence walk the one frame that may be
skipped is the first, before anything was yielded (`RootFirst`), and every later failure raises:
that is `FailuresAreContained`. The types need
what a sequence without one item holds (`ButProperties`: the rank of an item among those kept is
a bijection) and that a move keeps every page under one page (`MoveTypes`).

*Which pages are read.* The two properties look at a walk's end; the invariant `CoverInv`
says at every moment who is to yield a page. The line of a page (`Chain`) is the page and all above it.
A frame covers a page (`Covers`) if what it has yet to request, list or descend into is on the page's
line: a reference it holds, an entry behind its cursor, a child at or behind its `start`. Then

* `Tree`: the items form a tree still; an author's move keeps it one (`TreeMoved`), for a page
  is never put under itself;
* `SoundInv`: what a frame holds besides the tree (the references and the rest of a listing, which
  were answered earlier) agrees with the tree but for pages moved since;
* `OnceInv`: for a page that was not moved, nor any page of its line (nor, in Confluence, where
  offsets count, a listing of the line grown), at most one frame covers it, and none once it
  was yielded;
* `ReachedInv`: unless the walk raised, a page that is to be read and of whose line nothing was moved,
  lost or (in Confluence) taken from a listing is yielded, or a frame covers it.

Neither of the last two is inductive alone: what a frame hands on is no more than it covered
only if its references are distinct and off its remaining listing, which is `SoundInv`. Each request
has a lemma (`GetPageCovers`, `GetBlocksCovers`, `QueryCovers`, `ListChildrenCovers`, `ChildCovers`, and
`FailedCovers` for the failures that are skipped) that the frames it puts in place of the top one share
out what that one covered: no page twice (`Splits`), and no page lost (`Hands`). `SharedOut` and
`HandedOn` carry this from the top frame to the stack. For a move, `CoversKept` says that a frame that
covers an untouched page covers it afterwards, if in no listing above it an item came to an earlier place
(`Lifts`); a removal does that, so `shrunk` is needed for `ReachedInv`, and an insertion undoes it,
so the same lemma, read from the new tree to the old one, gives `OnceInv` with `grown`.
At the end the stack is empty, so every page left to read was yielded, and none twice. `Under`, in which
the properties are stated, is a recursive function; `UnderIsClosed` and `UnderIsLeast` show, by least
counterexample, that it is the closure of `Below`, and `LineIsChain` that it and `Chain` agree. That a
page has one line and does not lie below itself (`OneOfLine`, `NotAboveItself`) comes from the tree.

**Not proved, model-checked only.** `LeaseBecomesFree` and `WalkEnds`, because liveness under
fairness is beyond the prover, and the four expected violations, which are not theorems. Every
invariant and action property of the runs, and both refinements, are proved. Also out of reach of
the prover: ENABLED, induction over data and RECURSIVE operators (none is used).

## 5. Not modelled, and why

* **Postgres**: the unleased scan and carry-forward (modelled for SQLite; here they would
  double the statements for no lock of a new kind), report queries, readiness checks.
* **Sources**: Notion's search by title, URL or parent (one page of results, then the same
  walk), a database as root, nested blocks (they end up in the text), conversion
  to text, the demo source (a constant list).
* **Analyzers**: links matched by URL (an id or a title stands for them); similarity that is
  not transitive (pages are similar when their `words` are equal).
* **Classifier**: confidence, summaries, missing and supporting evidence: no branch on a
  status reads them.
* **Schema migrations**: the models start from a migrated, empty database.
* `reset_scan_state`, `clear_all`, `finish_scan`, `sync_findings`: never called by the program.
* **Reporters, configuration, factory, frontend**: I/O and layout.
* **Web and CLI** request validation, option parsing and read-only endpoints: no state.

## 6. Plan

Done: ScanLedger, ScanStore, ScanRuns, FindingWorkflow, PgTransactions, PageSignals,
TrustVerdict, ScanAnalysis, SourceWalk, with runs and proofs. What could be added:

1. **PgTransactions**: the unleased start and its race with an acquisition; two findings in
   one instance; liveness of a scan that meets deadlocks.
2. **SourceWalk**: Notion's search modes; a composition with ScanAnalysis, so that a
   page missed by a walk is a page lost to the verdicts.
3. **Title resolution** (`references.py`, `titles.py`) on the level of text, against a
   reference definition.

## 7. Running it

    tlc -config scan_leased.cfg MCScanRuns.tla
    tlc -config workflow.cfg MCFindingWorkflow.tla
    tlc -config pg.cfg MCPgTransactions.tla
    tlc -config verdict.cfg MCScanAnalysis.tla
    tlc -config walk.cfg MCSourceWalk.tla
    tlapm ScanRuns_proofs.tla
    tlapm FindingWorkflow_proofs.tla
    tlapm PgTransactions_proofs.tla
    tlapm ScanAnalysis_proofs.tla
    tlapm ScanOrder_proofs.tla
    tlapm SourceWalk_proofs.tla
    tlapm WalkTrees_proofs.tla
    tlapm WalkCoverage_proofs.tla
