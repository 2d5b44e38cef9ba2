----------------------------- MODULE ScanAnalysis -----------------------------
(***************************************************************************)
(* What a sequence of scans concludes about the pages of a site: fetching  *)
(* with the skip of unchanged bodies, the analyzers and the classifier on  *)
(* the rest, the two passes that correct verdicts across documents, and    *)
(* the verdicts carried from scan to scan.  Authors, and the clock, change *)
(* the pages at any time, also between two fetches of one scan.  The store *)
(* is what the last completed scan left in it; leases and writers are the  *)
(* subject of ScanRuns.                                                    *)
(***************************************************************************)
EXTENDS TrustVerdict

CONSTANTS
  Contents,    \* what a page may be: its title, body, dates and links
  MaxUpsets    \* bound: changes to pages, and times a source yields a page again

ASSUME AnalysisAssumption ==
  None \notin Page /\ Contents \subseteq Content /\ MaxUpsets \in Nat

VARIABLES
  site,       \* page -> its content now, None if the source cannot reach it
  latest,     \* page -> what the last completed scan holds of it: the page as stored,
              \* the page its verdict judged, and the verdict; None if it holds nothing
  phase,      \* where Auditor.run is
  stored,     \* page -> its content as last stored by this scan
  documents,  \* the new and changed documents, in the order fetched
  skipped,    \* the ids of the unchanged ones
  signals,    \* document id -> its signals
  verdicts,   \* raw_results: document id -> its verdict
  changes, repeats

vars == <<site, latest, phase, stored, documents, skipped, signals, verdicts, changes, repeats>>

Nothing == [p \in {} |-> None]
Ids(docs) == {docs[i].id : i \in DOMAIN docs}
Doc(docs, p) == docs[CHOOSE i \in ById(docs, p) : \A j \in ById(docs, p) : j <= i]

VerdictRecord ==
  [status : Status, lifecycle : Lifecycle,
   risks : SUBSET (StaleSignal \cup HardSignal \cup
     {"status", "phrase", "replaced_by", "deprecated_as_of", "archived", "suffix", "inferred",
      "lifecycle", "last_reviewed", "cadence", "stale_referrers"}),
   audit : BOOLEAN]

(* Every variable keeps its type; each document fetched by the scan is      *)
(* stored, and those that were not skipped are what the verdicts are of.    *)
TypeOK ==
  /\ site \in [Page -> Contents \cup {None}]
  /\ \A p \in Page : latest[p] # None =>
       /\ latest[p].page \in Contents /\ latest[p].judged \in Contents
       /\ latest[p].verdict \in VerdictRecord
  /\ phase \in {"idle", "fetch", "classified", "downgraded", "promoted", "assessed"}
  /\ stored \in [Page -> Contents \cup {None}]
  /\ Ids(documents) \cup skipped = {p \in Page : stored[p] # None}
  /\ phase \in {"idle", "fetch"} => verdicts = Nothing
  /\ phase \notin {"idle", "fetch"} =>
       DOMAIN verdicts = Ids(documents) /\ verdicts \in [Ids(documents) -> VerdictRecord]
  /\ changes \in Nat /\ repeats \in Nat /\ changes + repeats <= MaxUpsets

Init ==
  /\ site \in [Page -> Contents \cup {None}]
  /\ latest = [p \in Page |-> None]
  /\ phase = "idle"
  /\ stored = [p \in Page |-> None]
  /\ documents = <<>> /\ skipped = {} /\ signals = Nothing /\ verdicts = Nothing
  /\ changes = 0 /\ repeats = 0

-------------------------------------------------------------------------------
(* The passes of Auditor.run, as functions of the documents and signals.    *)

Signals(docs, dead) == [p \in Ids(docs) |-> SignalsOf(docs, p, dead)]

Classified(docs, sigs) ==
  [p \in Ids(docs) |-> Classify(docs, Doc(docs, p), sigs[p], Incoming(sigs, p))]

WithStatus(v, status, risks) == Verdict(status, v.lifecycle, risks)
StaleIn(vs) == {p \in DOMAIN vs : vs[p].status = "stale"}

(* Mutation: the downgrade asks for more than two referrers.                *)
LosesReferrers_OffByOne(docs, sigs, vs, p) ==
  LET refs == ReferredBy(sigs, p, {"resolved_reference"})
  IN /\ vs[p].status = "current"
     /\ Cardinality(refs) > 2 /\ refs \subseteq StaleIn(vs)
     /\ Doc(docs, p).page.body.status # "current" /\ ~Doc(docs, p).page.body.canonical

(* 4b: a current page that at least two documents refer to, all of them     *)
(* stale, and that nothing in its text vouches for.                         *)
LosesReferrers(docs, sigs, vs, p) ==
  LET refs == ReferredBy(sigs, p, {"resolved_reference"})
  IN /\ vs[p].status = "current"
     /\ Cardinality(refs) >= 2 /\ refs \subseteq StaleIn(vs)
     /\ Doc(docs, p).page.body.status # "current" /\ ~Doc(docs, p).page.body.canonical

Downgraded(docs, sigs, vs) ==
  [p \in DOMAIN vs |->
     IF LosesReferrers(docs, sigs, vs, p)
     THEN WithStatus(vs[p], "needs_review", vs[p].risks \cup {"stale_referrers"})
     ELSE vs[p]]

(* The document a stale page names as what supersedes it: the target of its *)
(* first duplicate, version or similarity signal.                           *)
Supersedes(docs, sigs, p, q) ==
  LET named(t) == {x \in Ids(docs) : Signal(t, x) \in sigs[q]}
      kind == SelectInSeq(<<"duplicate", "version_marker", "near_duplicate">>,
                          LAMBDA t : named(t) # {})
      targets == named(<<"duplicate", "version_marker", "near_duplicate">>[kind])
  IN kind > 0 /\ p = docs[CHOOSE i \in DOMAIN docs : docs[i].id \in targets /\
                            \A j \in 1..(i - 1) : docs[j].id \notin targets].id

Superseded(docs, sigs, vs, p) == {q \in StaleIn(vs) : Supersedes(docs, sigs, p, q)}

PromotionRisk ==
  (HardSignal \cup {"duplicate"}) \ {"broken_internal_link", "ambiguous_internal_link"}

(* Mutation: anything but a stale page is promoted when stale pages name it. *)
Promoted_FromReview(docs, sigs, vs) ==
  [p \in DOMAIN vs |->
     IF Superseded(docs, sigs, vs, p) # {} /\ vs[p].status # "stale"
     THEN WithStatus(vs[p], "current", {}) ELSE vs[p]]

(* 5: a page that stale pages name becomes current if all that is known     *)
(* against it is that nothing was known.                                    *)
Promoted(docs, sigs, vs) ==
  LET succeeds(p, status) == Superseded(docs, sigs, vs, p) # {} /\ vs[p].status = status
  IN [p \in DOMAIN vs |->
        CASE succeeds(p, "current") /\ vs[p].risks # {} ->
               WithStatus(vs[p], "needs_review", vs[p].risks)
          [] /\ succeeds(p, "unknown") /\ vs[p].risks = {}
             /\ Types(sigs[p]) \cap PromotionRisk = {} ->
               WithStatus(vs[p], "current", {})
          [] OTHER -> vs[p]]

(* 5b: whether a human must look at it.                                     *)
Assessed(docs, sigs, vs) ==
  [p \in DOMAIN vs |-> [vs[p] EXCEPT !.audit =
     RequiresAudit(docs, Doc(docs, p), vs[p], sigs[p], Incoming(sigs, p),
                   Cardinality(Superseded(docs, sigs, vs, p)))]]

Outcome(docs, sigs) ==
  Assessed(docs, sigs, Promoted(docs, sigs, Downgraded(docs, sigs, Classified(docs, sigs))))

-------------------------------------------------------------------------------
(* The world                                                                *)

(* An edit of the text, of the title, links or archived flag alone, the     *)
(* passing of time, which makes the same text no younger, or the loss or    *)
(* return of a page.  The bound is spent after the first completed scan:    *)
(* before it, every site is a possible start.                               *)
Change(p) ==
  /\ phase \in {"idle", "fetch"} /\ changes + repeats < MaxUpsets
  /\ \E q \in Page : latest[q] # None
  /\ \E c \in (Contents \cup {None}) \ {site[p]} :
       /\ None \notin {c, site[p]} /\ c.body = site[p].body =>
            /\ site[p].reviewed = "old" => c.reviewed = "old"
            /\ site[p].overdue => c.overdue
       /\ site' = [site EXCEPT ![p] = c]
  /\ changes' = changes + 1
  /\ UNCHANGED <<latest, phase, stored, documents, skipped, signals, verdicts, repeats>>

-------------------------------------------------------------------------------
(* A scan                                                                   *)

Start ==
  /\ phase = "idle" /\ phase' = "fetch"
  /\ UNCHANGED <<site, latest, stored, documents, skipped, signals, verdicts, changes, repeats>>

Unchanged(p) == latest[p] # None /\ latest[p].page.body = site[p].body

(* Mutation: a skipped page is not stored.                                  *)
Yielded_NotStored(p) ==
  IF Unchanged(p)
  THEN skipped' = skipped \cup {p} /\ UNCHANGED <<documents, stored>>
  ELSE /\ documents' = Append(documents, [id |-> p, page |-> site[p]])
       /\ stored' = [stored EXCEPT ![p] = site[p]] /\ UNCHANGED skipped

(* A page the last completed scan stored with the same hash is skipped;     *)
(* either way its row is written.                                           *)
Yielded(p) ==
  /\ stored' = [stored EXCEPT ![p] = site[p]]
  /\ IF Unchanged(p)
     THEN skipped' = skipped \cup {p} /\ UNCHANGED documents
     ELSE documents' = Append(documents, [id |-> p, page |-> site[p]]) /\ UNCHANGED skipped

Fetch(p) ==
  /\ phase = "fetch" /\ site[p] # None /\ stored[p] = None
  /\ Yielded(p)
  /\ UNCHANGED <<site, latest, phase, signals, verdicts, changes, repeats>>

(* A walk that reaches the page by a second path yields it again.           *)
FetchAgain(p) ==
  /\ phase = "fetch" /\ site[p] # None /\ stored[p] # None /\ changes + repeats < MaxUpsets
  /\ repeats' = repeats + 1
  /\ Yielded(p)
  /\ UNCHANGED <<site, latest, phase, signals, verdicts, changes>>

(* The sources have yielded every page they can reach.                      *)
Exhausted == phase = "fetch" /\ \A p \in Page : site[p] # None => stored[p] # None

Analyze ==
  /\ Exhausted /\ documents # <<>>
  /\ phase' = "classified"
  /\ \E dead \in SUBSET {p \in Ids(documents) : Doc(documents, p).page.body.url} :
       /\ signals' = Signals(documents, dead)
       /\ verdicts' = Classified(documents, signals')
  /\ UNCHANGED <<site, latest, stored, documents, skipped, changes, repeats>>

Correct(from, to, corrected) ==
  /\ phase = from /\ phase' = to
  /\ verdicts' = corrected
  /\ UNCHANGED <<site, latest, stored, documents, skipped, signals, changes, repeats>>

Downgrade == Correct("classified", "downgraded", Downgraded(documents, signals, verdicts))
Promote == Correct("downgraded", "promoted", Promoted(documents, signals, verdicts))
Assess == Correct("promoted", "assessed", Assessed(documents, signals, verdicts))

(* The scan of this run is over: its working state is gone.                 *)
Over ==
  /\ phase' = "idle" /\ stored' = [p \in Page |-> None]
  /\ documents' = <<>> /\ skipped' = {} /\ signals' = Nothing /\ verdicts' = Nothing
  /\ UNCHANGED <<site, changes, repeats>>

(* Verdicts of this scan, and those of the last one for the pages skipped.  *)
Complete ==
  /\ phase = "assessed" \/ (Exhausted /\ documents = <<>>)
  /\ latest' = [p \in Page |->
       CASE p \in DOMAIN verdicts ->
              [page |-> stored[p], judged |-> Doc(documents, p).page, verdict |-> verdicts[p]]
         [] p \in skipped \ DOMAIN verdicts ->
              [page |-> stored[p], judged |-> latest[p].judged, verdict |-> latest[p].verdict]
         [] OTHER -> None]
  /\ Over

(* Mutation: the rows of a scan that failed count as the last scan's.       *)
Fail_LeavesDocuments ==
  /\ phase # "idle"
  /\ latest' = [p \in Page |->
       IF stored[p] # None /\ latest[p] # None THEN [latest[p] EXCEPT !.page = stored[p]]
       ELSE latest[p]]
  /\ Over

(* fail_scan, or the abandonment of a crashed run.                          *)
Fail ==
  /\ phase # "idle"
  /\ UNCHANGED latest
  /\ Over

Next ==
  \/ \E p \in Page : Change(p) \/ Fetch(p) \/ FetchAgain(p)
  \/ Start \/ Analyze \/ Downgrade \/ Promote \/ Assess \/ Complete \/ Fail

Spec == Init /\ [][Next]_vars

-------------------------------------------------------------------------------
(* Properties                                                               *)

Judged == IF phase = "assessed" THEN DOMAIN verdicts ELSE {}
With(status) == {p \in Judged : verdicts[p].status = status}
TrustIn(p) == TrustEvidence(Doc(documents, p), Incoming(signals, p))
IsSuccessor(p) == Superseded(documents, signals, verdicts, p) # {}

(* trust.py's first sentence: a page is current only on positive evidence.  *)
(* Whatever the passes did, a current page is trusted for its text or its   *)
(* referrers or succeeds a stale one, has no hard or soft risk, no explicit *)
(* evidence against it, and an older version is current only as supported.  *)
CurrentIsEarned ==
  \A p \in With("current") :
    LET d == Doc(documents, p)
    IN /\ TrustIn(p) # {} \/ IsSuccessor(p)
       /\ Types(signals[p]) \cap HardSignal = {} /\ SoftRisk(d) = {}
       /\ StaleEvidence(d, signals[p]) = {}
       /\ ScanSupersession(documents, d) \subseteq {"inferred"}
       /\ ScanSupersession(documents, d) # {} => verdicts[p].lifecycle = "supported"

(* A page under review that no human is asked to look at has nothing        *)
(* against it but an old review date: contradictions, lifecycles, stale     *)
(* referrers and overdue cadences always score enough to be audited.        *)
SilentReviewsAreOnlyOld ==
  \A p \in With("needs_review") :
    ~verdicts[p].audit => verdicts[p].risks = {"last_reviewed"} /\ TrustIn(p) = {}

(* A page whose lifecycle disowns it is audited, with one exception: a page *)
(* whose title alone disowns it, with no sibling in the scan, and which     *)
(* strong evidence vouches for is current, against the comment of the       *)
(* lifecycle policy: the contradiction is noted and never consulted.        *)
DisownedPagesAreAudited ==
  \A p \in Judged :
    verdicts[p].lifecycle \in Negative \cup Tentative =>
      \/ verdicts[p].audit
      \/ /\ verdicts[p].status = "current" /\ verdicts[p].lifecycle = "deprecated"
         /\ Doc(documents, p).page.title.mark \in {"old", "deprecated"}
         /\ Siblings(documents, Doc(documents, p)) = {}

(* A page is not kept current by stale pages alone, where they refer to it  *)
(* in their text; referrers by internal link escape the pass.               *)
CurrentRestsOnLiveReferrers ==
  \A p \in With("current") :
    LET by(types) == ReferredBy(signals, p, types)
    IN TrustIn(p) = {"referenced"} /\ Cardinality(by({"resolved_reference"})) >= 2 =>
         ~(by({"resolved_reference", "resolved_internal_link"}) \subseteq With("stale"))

(* Two documents of which the rules that compare pages may each condemn     *)
(* one: two marked titles of one base, or a marked one of a later version;  *)
(* a later title over a text of an older version; duplicates whose titles   *)
(* differ in version or mark.                                               *)
AtOdds(a, b) ==
  LET s == a.page.title t == b.page.title
      marked(title) == title.mark \in StaleSuffix
      later == t.version \in 1..(s.version - 1) /\ (IsYear(s.version) <=> IsYear(t.version))
  IN \/ /\ s.base = t.base
        /\ \/ marked(s) /\ (marked(t) \/ later \/ VersionOf(b) \in 1..(VersionOf(a) - 1))
           \/ later /\ VersionOf(a) < VersionOf(b)
     \/ a.page.body = b.page.body /\ (s.version # t.version \/ (marked(s) /\ ~marked(t)))

(* Comparing pages with each other condemns all of them only where the      *)
(* comparisons are at odds: a scan all of whose pages are stale by          *)
(* comparison alone holds two documents that are, or a page that a source   *)
(* yielded twice.                                                           *)
SomePageSurvives ==
  LET condemned(p) ==
        /\ verdicts[p].status = "stale"
        /\ verdicts[p].risks \subseteq {"duplicate", "version_marker", "suffix", "inferred"}
  IN Judged # {} /\ (\A p \in Judged : condemned(p)) =>
       \/ Cardinality(Judged) < Len(documents)
       \/ \E i, j \in DOMAIN documents : i # j /\ AtOdds(documents[i], documents[j])

(* A title suffix other than (draft) is hard evidence against a page that   *)
(* has siblings, and stays among its risks whatever the lifecycle of the    *)
(* page: trust.py, in the lifecycle policy, says that hard-negative         *)
(* suffixes stay.  The code drops the suffix of a tentative page when the   *)
(* title of another page says draft.                                        *)
HardSuffixesStay ==
  \A p \in Judged :
    LET d == Doc(documents, p)
    IN d.page.title.mark \in StaleSuffix \ {"draft"} /\ Siblings(documents, d) # {} =>
         "suffix" \in verdicts[p].risks

(* A page whose title suffix stays or goes with the sibling fetched first:  *)
(* it is tentative, and only some of its siblings are titled (draft).       *)
SuffixInDoubt(p) ==
  LET d == Doc(documents, p)
  IN /\ d.page.title.mark \in StaleSuffix \ {"draft"}
     /\ verdicts[p].lifecycle \in Tentative
     /\ \E e, f \in Siblings(documents, d) :
          e.page.title.mark = "draft" /\ f.page.title.mark # "draft"

(* The verdicts depend on the order of the documents only to break ties,    *)
(* and to choose the sibling that a suffix is reported with: with no two as *)
(* new, no two of one version, no stale page similar to two newer ones, of  *)
(* which the first is its successor, and no suffix in doubt, the reverse    *)
(* order gives the same.                                                    *)
OrderOnlyBreaksTies ==
  LET n == Len(documents)
      distinct(f(_)) == Cardinality({f(documents[i]) : i \in 1..n}) = n
      backwards == Reverse(documents)
      dead == {p \in Judged : Signal("broken_link", None) \in signals[p]}
  IN /\ phase = "assessed" /\ Cardinality(Judged) = n
     /\ distinct(LAMBDA d : d.page.modified)
     /\ distinct(LAMBDA d : <<d.page.title.base, VersionOf(d)>>)
     /\ \A p \in With("stale") :
          Cardinality({q \in Judged : Signal("near_duplicate", q) \in signals[p]}) <= 1
     /\ \A p \in Judged : ~SuffixInDoubt(p)
     => verdicts = Outcome(backwards, Signals(backwards, dead))

(* After the classifier, a verdict only ever falls from current to          *)
(* needs_review, or rises from unknown to current.                          *)
OnlyTheUnknownIsPromoted ==
  [][\A p \in DOMAIN verdicts \cap DOMAIN verdicts' :
       verdicts'[p].status # verdicts[p].status =>
         <<verdicts[p].status, verdicts'[p].status>> \in
           {<<"current", "needs_review">>, <<"unknown", "current">>}]_vars

(* A verdict carried however far, past scans that failed and pages that     *)
(* changed while they ran, judged the very text that the store holds; only  *)
(* a page yielded twice by one scan may have been stored after it was       *)
(* judged.                                                                  *)
VerdictsJudgeTheStoredText ==
  \A p \in Page : latest[p] # None /\ repeats = 0 => latest[p].judged.body = latest[p].page.body
===============================================================================
