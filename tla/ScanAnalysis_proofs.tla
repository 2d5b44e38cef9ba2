------------------------- MODULE ScanAnalysis_proofs -------------------------
(***************************************************************************)
(* Theorems about ScanAnalysis, for any pages, any contents they may have  *)
(* and any number of changes.                                              *)
(***************************************************************************)
EXTENDS ScanAnalysis, FiniteSetTheorems, WellFoundedInduction, TLAPS

-------------------------------------------------------------------------------
(* The classifier.                                                         *)

Shaped(v) ==
  v = [status |-> v.status, lifecycle |-> v.lifecycle, risks |-> v.risks, audit |-> v.audit]

(* What a document must be for its verdict not to be held against it.      *)
Unblemished(docs, d, sigs, lifecycle) ==
  /\ Types(sigs) \cap HardSignal = {}
  /\ SoftRisk(d) = {}
  /\ StaleEvidence(d, sigs) = {}
  /\ ScanSupersession(docs, d) \subseteq {"inferred"}
  /\ ScanSupersession(docs, d) # {} => lifecycle = "supported"

LEMMA SupersessionKinds ==
  ASSUME NEW docs, NEW d
  PROVE  ScanSupersession(docs, d) \subseteq {"suffix", "inferred"}
BY Zenon DEF ScanSupersession

LEMMA StaleEvidenceKinds ==
  ASSUME NEW d, NEW sigs
  PROVE  StaleEvidence(d, sigs) \cap {"suffix", "inferred"} = {}
BY DEF StaleEvidence, StaleSignal

(* The ladder of classify: what is current or unknown is unblemished, and  *)
(* of these only what is current has trust evidence.  <1>4 is the          *)
(* lifecycle policy: stale reasons that it drops, leaving no risk in their *)
(* place, are an inferred version that the text itself declares supported. *)
LEMMA LadderOf ==
  ASSUME NEW docs, NEW d, NEW sigs, NEW incoming, NEW v,
         v = Classify(docs, d, sigs, incoming)
  PROVE  /\ Shaped(v)
         /\ v.status \in {"current", "unknown"} => Unblemished(docs, d, sigs, v.lifecycle)
         /\ v.status = "current" => TrustEvidence(d, incoming) # {}
         /\ v.status = "unknown" => TrustEvidence(d, incoming) = {}
         /\ v.status \in Status
<1> DEFINE trust == TrustEvidence(d, incoming)
           evidence == StaleEvidence(d, sigs)
           scan == ScanSupersession(docs, d)
           lifecycle == LifecycleOf(docs, d, evidence \cup scan)
           policy == Policy(docs, d, lifecycle, evidence \cup scan, trust)
           hard == (Types(sigs) \cap HardSignal) \cup policy.risk
           soft == SoftRisk(d)
           ladder == IF policy.stale # {}
             THEN Verdict(IF trust # {} \/ policy.contradicts THEN "needs_review" ELSE "stale",
                          lifecycle, policy.stale)
             ELSE CASE hard # {} -> Verdict("needs_review", lifecycle, hard \cup soft)
                    [] hard = {} /\ trust # {} /\ soft = {} -> Verdict("current", lifecycle, {})
                    [] hard = {} /\ soft # {} -> Verdict("needs_review", lifecycle, soft)
                    [] OTHER -> Verdict("unknown", lifecycle, {})
<1>1. v = ladder
  BY DEF Classify
<1>2. scan \subseteq {"suffix", "inferred"} /\ evidence \cap {"suffix", "inferred"} = {}
  BY SupersessionKinds, StaleEvidenceKinds
<1>3. hard = {} => Types(sigs) \cap HardSignal = {} /\ policy.risk = {}
  OBVIOUS
<1> HIDE DEF evidence, scan, trust, lifecycle, ladder
<1>4. policy.stale = {} /\ policy.risk = {} =>
        evidence = {} /\ scan \subseteq {"inferred"} /\ (scan # {} => lifecycle = "supported")
  <2> USE DEF Policy, Negative, Tentative
  <2>1. CASE lifecycle \in Negative  BY <2>1
  <2>2. CASE lifecycle \in Tentative  BY <1>2, <2>2
  <2>3. CASE lifecycle = "supported"  BY <1>2, <2>3
  <2>4. CASE lifecycle = "current"  BY <1>2, <2>4
  <2>5. CASE lifecycle \notin Negative \cup Tentative \cup {"supported", "current"}  BY <2>5
  <2> QED  BY <2>1, <2>2, <2>3, <2>4, <2>5
<1> HIDE DEF policy, hard, soft
<1> USE DEF ladder
<1>5. \/ v.status \in {"needs_review", "stale"} /\ v.lifecycle = lifecycle
      \/ /\ policy.stale = {} /\ hard = {} /\ soft = {} /\ v.lifecycle = lifecycle
         /\ \/ v.status = "current" /\ trust # {}
            \/ v.status = "unknown" /\ trust = {}
  <2>1. CASE policy.stale # {}
    BY <1>1, <2>1 DEF Verdict
  <2>2. CASE policy.stale = {} /\ hard # {}
    BY <1>1, <2>2 DEF Verdict
  <2>3. CASE policy.stale = {} /\ hard = {} /\ soft # {}
    BY <1>1, <2>3 DEF Verdict
  <2>4. CASE policy.stale = {} /\ hard = {} /\ soft = {} /\ trust # {}
    BY <1>1, <2>4 DEF Verdict
  <2>5. CASE policy.stale = {} /\ hard = {} /\ soft = {} /\ trust = {}
    BY <1>1, <2>5 DEF Verdict
  <2> QED  BY <2>1, <2>2, <2>3, <2>4, <2>5
<1>6. \E status, risks : v = Verdict(status, lifecycle, risks)
  <2>1. CASE policy.stale # {}
    BY <1>1, <2>1
  <2>2. CASE policy.stale = {}
    BY <1>1, <2>2
  <2> QED  BY <2>1, <2>2
<1> QED
  BY <1>3, <1>4, <1>5, <1>6 DEF Verdict, Shaped, Unblemished, Status, evidence, scan, soft, trust

-------------------------------------------------------------------------------
(* The passes over the verdicts.                                           *)

LEMMA WithStatusKeeps ==
  ASSUME NEW v, NEW status, NEW risks, Shaped(v)
  PROVE  LET w == WithStatus(v, status, risks)
         IN Shaped(w) /\ w.status = status /\ w.lifecycle = v.lifecycle
BY DEF WithStatus, Verdict, Shaped

(* Each pass keeps the documents and the set of stale ones.                *)
LEMMA DowngradePass ==
  ASSUME NEW docs, NEW sigs, NEW vs, \A p \in DOMAIN vs : Shaped(vs[p])
  PROVE  LET ds == Downgraded(docs, sigs, vs)
         IN /\ DOMAIN ds = DOMAIN vs /\ StaleIn(ds) = StaleIn(vs)
            /\ \A p \in DOMAIN vs :
                 /\ Shaped(ds[p]) /\ ds[p].lifecycle = vs[p].lifecycle
                 /\ vs[p].status # "current" => ds[p] = vs[p]
                 /\ ds[p].status # vs[p].status =>
                      vs[p].status = "current" /\ ds[p].status = "needs_review"
                 /\ ds[p].status \in {"current", "unknown"} =>
                      ds[p] = vs[p] /\ ~LosesReferrers(docs, sigs, vs, p)
<1> DEFINE ds == Downgraded(docs, sigs, vs)
<1>1. DOMAIN ds = DOMAIN vs
  BY DEF Downgraded
<1>2. ASSUME NEW p \in DOMAIN vs
      PROVE  /\ Shaped(ds[p]) /\ ds[p].lifecycle = vs[p].lifecycle
             /\ vs[p].status # "current" => ds[p] = vs[p]
             /\ ds[p].status # vs[p].status =>
                  vs[p].status = "current" /\ ds[p].status = "needs_review"
             /\ ds[p].status \in {"current", "unknown"} =>
                  ds[p] = vs[p] /\ ~LosesReferrers(docs, sigs, vs, p)
  <2>1. CASE LosesReferrers(docs, sigs, vs, p)
    <3>1. vs[p].status = "current"
      BY <2>1 DEF LosesReferrers
    <3>2. ds[p] = WithStatus(vs[p], "needs_review", vs[p].risks \cup {"stale_referrers"})
      BY <2>1 DEF Downgraded
    <3> QED  BY <3>1, <3>2, WithStatusKeeps
  <2>2. CASE ~LosesReferrers(docs, sigs, vs, p)
    BY <2>2 DEF Downgraded
  <2> QED  BY <2>1, <2>2
<1>3. StaleIn(ds) = StaleIn(vs)
  BY <1>1, <1>2 DEF StaleIn
<1> QED  BY <1>1, <1>2, <1>3

LEMMA PromotionPass ==
  ASSUME NEW docs, NEW sigs, NEW vs, \A p \in DOMAIN vs : Shaped(vs[p])
  PROVE  LET ps == Promoted(docs, sigs, vs)
         IN /\ DOMAIN ps = DOMAIN vs /\ StaleIn(ps) = StaleIn(vs)
            /\ \A p \in DOMAIN vs :
                 /\ Shaped(ps[p]) /\ ps[p].lifecycle = vs[p].lifecycle
                 /\ vs[p].status \in {"stale", "needs_review"} => ps[p] = vs[p]
                 /\ ps[p].status # vs[p].status =>
                      \/ vs[p].status = "current" /\ ps[p].status = "needs_review"
                      \/ /\ vs[p].status = "unknown" /\ ps[p].status = "current"
                         /\ Superseded(docs, sigs, vs, p) # {}
<1> DEFINE ps == Promoted(docs, sigs, vs)
<1>1. DOMAIN ps = DOMAIN vs
  BY DEF Promoted
<1>2. ASSUME NEW p \in DOMAIN vs
      PROVE  /\ Shaped(ps[p]) /\ ps[p].lifecycle = vs[p].lifecycle
             /\ vs[p].status \in {"stale", "needs_review"} => ps[p] = vs[p]
             /\ ps[p].status # vs[p].status =>
                  \/ vs[p].status = "current" /\ ps[p].status = "needs_review"
                  \/ /\ vs[p].status = "unknown" /\ ps[p].status = "current"
                     /\ Superseded(docs, sigs, vs, p) # {}
  <2> DEFINE named == Superseded(docs, sigs, vs, p) # {}
             clear == vs[p].risks = {} /\ Types(sigs[p]) \cap PromotionRisk = {}
  <2>1. CASE named /\ vs[p].status = "current" /\ vs[p].risks # {}
    <3>1. ps[p] = WithStatus(vs[p], "needs_review", vs[p].risks)
      BY <2>1 DEF Promoted
    <3> QED  BY <2>1, <3>1, WithStatusKeeps
  <2>2. CASE named /\ vs[p].status = "unknown" /\ clear
    <3>1. ps[p] = WithStatus(vs[p], "current", {})
      BY <2>2 DEF Promoted
    <3> QED  BY <2>2, <3>1, WithStatusKeeps
  <2>3. CASE /\ ~(named /\ vs[p].status = "current" /\ vs[p].risks # {})
             /\ ~(named /\ vs[p].status = "unknown" /\ clear)
    BY <2>3 DEF Promoted
  <2> QED  BY <2>1, <2>2, <2>3
<1>3. StaleIn(ps) = StaleIn(vs)
  BY <1>1, <1>2 DEF StaleIn
<1> QED  BY <1>1, <1>2, <1>3

LEMMA AssessmentPass ==
  ASSUME NEW docs, NEW sigs, NEW vs, \A p \in DOMAIN vs : Shaped(vs[p])
  PROVE  LET as == Assessed(docs, sigs, vs)
         IN /\ DOMAIN as = DOMAIN vs /\ StaleIn(as) = StaleIn(vs)
            /\ \A p \in DOMAIN vs :
                 /\ as[p].status = vs[p].status /\ as[p].lifecycle = vs[p].lifecycle
                 /\ as[p].risks = vs[p].risks
                 /\ as[p].audit = RequiresAudit(docs, Doc(docs, p), vs[p], sigs[p], Incoming(sigs, p),
                                                Cardinality(Superseded(docs, sigs, vs, p)))
<1> DEFINE as == Assessed(docs, sigs, vs)
<1>1. DOMAIN as = DOMAIN vs
  BY DEF Assessed
<1>2. \A p \in DOMAIN vs :
        /\ as[p].status = vs[p].status /\ as[p].lifecycle = vs[p].lifecycle
        /\ as[p].risks = vs[p].risks
        /\ as[p].audit = RequiresAudit(docs, Doc(docs, p), vs[p], sigs[p], Incoming(sigs, p),
                                       Cardinality(Superseded(docs, sigs, vs, p)))
  BY DEF Assessed, Shaped
<1>3. StaleIn(as) = StaleIn(vs)
  BY <1>1, <1>2 DEF StaleIn
<1> QED  BY <1>1, <1>2, <1>3

(* What the four of them together make of a current page.                  *)
LEMMA CurrentInOutcome ==
  ASSUME NEW docs, NEW sigs, NEW p \in Ids(docs), Outcome(docs, sigs)[p].status = "current"
  PROVE  LET out == Outcome(docs, sigs)
             trust == TrustEvidence(Doc(docs, p), Incoming(sigs, p))
         IN /\ Unblemished(docs, Doc(docs, p), sigs[p], out[p].lifecycle)
            /\ trust # {} \/ Superseded(docs, sigs, out, p) # {}
            /\ trust = {"referenced"} => ~LosesReferrers(docs, sigs, out, p)
<1> DEFINE vs == Classified(docs, sigs)
           ds == Downgraded(docs, sigs, vs)
           ps == Promoted(docs, sigs, ds)
           out == Assessed(docs, sigs, ps)
           d == Doc(docs, p)
           trust == TrustEvidence(d, Incoming(sigs, p))
<1>1. DOMAIN vs = Ids(docs) /\ vs[p] = Classify(docs, d, sigs[p], Incoming(sigs, p))
  BY DEF Classified
<1>2. \A q \in DOMAIN vs : Shaped(vs[q])
  BY LadderOf DEF Classified
<1>3. /\ vs[p].status \in {"current", "unknown"} => Unblemished(docs, d, sigs[p], vs[p].lifecycle)
      /\ vs[p].status = "current" => trust # {}
      /\ vs[p].status = "unknown" => trust = {}
  BY <1>1, LadderOf
<1> HIDE DEF vs, d, trust
<1>4. /\ DOMAIN ds = DOMAIN vs /\ StaleIn(ds) = StaleIn(vs)
      /\ \A q \in DOMAIN ds : Shaped(ds[q])
      /\ ds[p].status \in {"current", "unknown"} =>
           ds[p] = vs[p] /\ ~LosesReferrers(docs, sigs, vs, p)
  BY <1>1, <1>2, DowngradePass
<1> HIDE DEF ds
<1>5. /\ DOMAIN ps = DOMAIN ds /\ StaleIn(ps) = StaleIn(ds)
      /\ \A q \in DOMAIN ps : Shaped(ps[q])
      /\ ps[p].lifecycle = ds[p].lifecycle
      /\ ps[p].status # ds[p].status =>
           \/ ps[p].status = "needs_review"
           \/ ds[p].status = "unknown" /\ Superseded(docs, sigs, ds, p) # {}
  BY <1>1, <1>4, PromotionPass
<1> HIDE DEF ps
<1>6. /\ StaleIn(out) = StaleIn(ps) /\ out[p].status = ps[p].status
      /\ out[p].lifecycle = ps[p].lifecycle
  BY <1>1, <1>4, <1>5, AssessmentPass
<1> HIDE DEF out
<1>7. ps[p].status = "current"
  BY <1>6 DEF Outcome, out, ps, ds, vs
<1>8. ds[p].status \in {"current", "unknown"}
  BY <1>5, <1>7
<1>9. Superseded(docs, sigs, out, p) = Superseded(docs, sigs, ds, p)
  BY <1>5, <1>6 DEF Superseded
<1>10. Unblemished(docs, d, sigs[p], out[p].lifecycle)
  BY <1>3, <1>4, <1>5, <1>6, <1>8
<1>11. trust # {} \/ Superseded(docs, sigs, out, p) # {}
  BY <1>3, <1>4, <1>5, <1>7, <1>8, <1>9
<1>12. ASSUME trust = {"referenced"}, LosesReferrers(docs, sigs, out, p)
       PROVE  FALSE
  <2>1. ds[p] = vs[p] /\ ~LosesReferrers(docs, sigs, vs, p)
    BY <1>4, <1>8
  <2>2. vs[p].status = "current"
    BY <1>3, <1>8, <1>12, <2>1
  <2> QED  BY <1>4, <1>5, <1>6, <1>12, <2>1, <2>2 DEF LosesReferrers
<1> QED
  BY <1>10, <1>11, <1>12 DEF Outcome, out, ps, ds, vs, d, trust

-------------------------------------------------------------------------------
(* The passes run in order, each on what the one before it left.           *)

PassesInv ==
  /\ phase \in {"idle", "fetch", "classified", "downgraded", "promoted", "assessed"}
  /\ phase \in {"idle", "fetch"} => verdicts = Nothing
  /\ LET classified == Classified(documents, signals)
         downgraded == Downgraded(documents, signals, classified)
     IN /\ phase = "classified" => verdicts = classified
        /\ phase = "downgraded" => verdicts = downgraded
        /\ phase = "promoted" => verdicts = Promoted(documents, signals, downgraded)
        /\ phase = "assessed" => verdicts = Outcome(documents, signals)

LEMMA PassesInOrder == Spec => []PassesInv
<1>1. Init => PassesInv
  BY DEF Init, PassesInv
<1>2. PassesInv /\ [Next]_vars => PassesInv'
  <2> SUFFICES ASSUME PassesInv, [Next]_vars  PROVE PassesInv'
    OBVIOUS
  <2> USE DEF PassesInv
  <2>1. ASSUME NEW p \in Page, Change(p)  PROVE PassesInv'
    BY <2>1 DEF Change
  <2>2. ASSUME NEW p \in Page, Fetch(p)  PROVE PassesInv'
    BY <2>2 DEF Fetch
  <2>3. ASSUME NEW p \in Page, FetchAgain(p)  PROVE PassesInv'
    BY <2>3 DEF FetchAgain
  <2>4. CASE Start  BY <2>4 DEF Start
  <2>5. CASE Analyze  BY <2>5 DEF Analyze, Exhausted
  <2>6. CASE Downgrade  BY <2>6 DEF Downgrade, Correct
  <2>7. CASE Promote  BY <2>7 DEF Promote, Correct
  <2>8. CASE Assess  BY <2>8 DEF Assess, Correct, Outcome
  <2>9. CASE Complete  BY <2>9 DEF Complete, Over
  <2>10. CASE Fail  BY <2>10 DEF Fail, Over
  <2>11. CASE UNCHANGED vars  BY <2>11 DEF vars
  <2> QED
    BY <2>1, <2>2, <2>3, <2>4, <2>5, <2>6, <2>7, <2>8, <2>9, <2>10, <2>11 DEF Next
<1> QED  BY <1>1, <1>2, PTL DEF Spec

LEMMA OutcomeDomain ==
  ASSUME NEW docs, NEW sigs
  PROVE  DOMAIN Outcome(docs, sigs) = Ids(docs)
BY DEF Outcome, Assessed, Promoted, Downgraded, Classified

(* A page is current on positive evidence only, with no risk, no evidence   *)
(* against it, and as an older version only if supported.                   *)
THEOREM CurrentIsEarnedAlways == Spec => []CurrentIsEarned
<1>1. PassesInv => CurrentIsEarned
  <2> SUFFICES ASSUME PassesInv, NEW p \in With("current")
               PROVE  LET d == Doc(documents, p)
                      IN /\ TrustIn(p) # {} \/ IsSuccessor(p)
                         /\ Unblemished(documents, d, signals[p], verdicts[p].lifecycle)
    BY DEF CurrentIsEarned, Unblemished
  <2>1. verdicts = Outcome(documents, signals) /\ p \in Ids(documents)
        /\ verdicts[p].status = "current"
    BY OutcomeDomain DEF With, Judged, PassesInv
  <2> QED  BY <2>1, CurrentInOutcome DEF TrustIn, IsSuccessor
<1> QED  BY <1>1, PassesInOrder, PTL

(* A page that two pages or more refer to in their text is not kept current *)
(* by stale pages alone.                                                    *)
THEOREM CurrentRestsOnLiveReferrersAlways == Spec => []CurrentRestsOnLiveReferrers
<1>1. PassesInv => CurrentRestsOnLiveReferrers
  <2> DEFINE by(p, types) == ReferredBy(signals, p, types)
  <2> SUFFICES ASSUME PassesInv, NEW p \in With("current"), TrustIn(p) = {"referenced"},
                      Cardinality(by(p, {"resolved_reference"})) >= 2,
                      by(p, {"resolved_reference", "resolved_internal_link"}) \subseteq With("stale")
               PROVE  FALSE
    BY DEF CurrentRestsOnLiveReferrers
  <2>1. verdicts = Outcome(documents, signals) /\ p \in Ids(documents)
        /\ verdicts[p].status = "current"
    BY OutcomeDomain DEF With, Judged, PassesInv
  <2>2. ~LosesReferrers(documents, signals, verdicts, p)
    BY <2>1, CurrentInOutcome DEF TrustIn
  <2>3. With("stale") \subseteq StaleIn(verdicts)
    BY DEF With, Judged, StaleIn
  <2>4. by(p, {"resolved_reference"}) \subseteq StaleIn(verdicts)
    BY <2>3 DEF ReferredBy
  <2>5. Doc(documents, p).page.body.status # "current" /\ ~Doc(documents, p).page.body.canonical
    BY DEF TrustIn, TrustEvidence
  <2> QED  BY <2>1, <2>2, <2>4, <2>5 DEF LosesReferrers
<1> QED  BY <1>1, PassesInOrder, PTL

(* After the classifier, a verdict only falls from current to needs_review  *)
(* or rises from unknown to current.                                        *)
THEOREM OnlyTheUnknownIsPromotedEver == Spec => OnlyTheUnknownIsPromoted
<1> DEFINE moves(p) ==
             verdicts'[p].status # verdicts[p].status =>
               <<verdicts[p].status, verdicts'[p].status>> \in
                 {<<"current", "needs_review">>, <<"unknown", "current">>}
<1>1. PassesInv /\ [Next]_vars => [\A p \in DOMAIN verdicts \cap DOMAIN verdicts' : moves(p)]_vars
  <2> SUFFICES ASSUME PassesInv, Next, NEW p \in DOMAIN verdicts \cap DOMAIN verdicts'
               PROVE  moves(p)
    OBVIOUS
  <2> DEFINE vs == Classified(documents, signals)
             ds == Downgraded(documents, signals, vs)
  <2>1. \A q \in DOMAIN vs : Shaped(vs[q])
    BY LadderOf DEF Classified
  <2>2. DOMAIN ds = DOMAIN vs /\ \A q \in DOMAIN ds : Shaped(ds[q])
    BY <2>1, DowngradePass
  <2> HIDE DEF vs, ds
  <2>3. DOMAIN Nothing = {}
    BY DEF Nothing
  <2>4. CASE phase \in {"idle", "fetch"}
    BY <2>3, <2>4 DEF PassesInv
  <2>5. CASE Downgrade
    <3>1. verdicts = vs /\ verdicts' = Downgraded(documents, signals, vs)
      BY <2>5 DEF Downgrade, Correct, PassesInv, vs
    <3> QED  BY <2>1, <3>1, DowngradePass
  <2>6. CASE Promote
    <3>1. verdicts = ds /\ verdicts' = Promoted(documents, signals, ds)
      BY <2>6 DEF Promote, Correct, PassesInv, vs, ds
    <3> QED  BY <2>2, <3>1, PromotionPass
  <2>7. CASE Assess
    <3> DEFINE ps == Promoted(documents, signals, ds)
    <3>1. verdicts = ps /\ verdicts' = Assessed(documents, signals, ps)
      BY <2>7 DEF Assess, Correct, PassesInv, vs, ds
    <3>2. \A q \in DOMAIN ps : Shaped(ps[q])
      BY <2>2, PromotionPass
    <3> HIDE DEF ps
    <3> QED  BY <3>1, <3>2, AssessmentPass
  <2>8. CASE Complete \/ Fail
    BY <2>3, <2>8 DEF Complete, Fail, Over
  <2> QED
    BY <2>4, <2>5, <2>6, <2>7, <2>8
       DEF Next, Change, Fetch, FetchAgain, Start, Analyze, Exhausted
<1> QED  BY <1>1, PassesInOrder, PTL DEF Spec, OnlyTheUnknownIsPromoted

-------------------------------------------------------------------------------
(* What the store holds, as long as no source has yielded a page twice.    *)

StoreInv ==
  /\ documents \in Seq([id : Page, page : Contents])
  /\ site \in [Page -> Contents \cup {None}]
  /\ stored \in [Page -> Contents \cup {None}]
  /\ skipped \subseteq Page
  /\ repeats \in Nat
  /\ repeats = 0 =>
       /\ \A i \in DOMAIN documents :
            documents[i].page # None /\ documents[i].page = stored[documents[i].id]
       /\ \A i, j \in DOMAIN documents : documents[i].id = documents[j].id => i = j
       /\ \A p \in skipped :
            /\ latest[p] # None /\ stored[p] # None
            /\ stored[p].body = latest[p].page.body
       /\ \A p \in Page : latest[p] # None => latest[p].judged.body = latest[p].page.body

(* A page fetched for the first time keeps what is said of the others.     *)
LEMMA FirstFetch ==
  ASSUME StoreInv, NEW p \in Page, Fetch(p)
  PROVE  StoreInv'
<1> USE DEF StoreInv
<1>1. /\ site[p] \in Contents /\ site[p] # None /\ stored[p] = None
      /\ stored' = [stored EXCEPT ![p] = site[p]]
      /\ UNCHANGED <<site, latest, repeats>>
  BY DEF Fetch, Yielded
<1>2. stored' \in [Page -> Contents \cup {None}]
  BY <1>1
<1>3. CASE Unchanged(p)
  <2>1. skipped' = skipped \cup {p} /\ documents' = documents
    BY <1>3 DEF Fetch, Yielded
  <2>2. ASSUME repeats = 0, NEW i \in DOMAIN documents  PROVE documents[i].id # p
    BY <1>1, <2>2
  <2> QED  BY <1>1, <1>2, <1>3, <2>1, <2>2 DEF Unchanged
<1>4. CASE ~Unchanged(p)
  <2> DEFINE new == [id |-> p, page |-> site[p]]
  <2>1. documents' = Append(documents, new) /\ skipped' = skipped
    BY <1>4 DEF Fetch, Yielded
  <2>2. /\ documents' \in Seq([id : Page, page : Contents])
        /\ DOMAIN documents' = DOMAIN documents \cup {Len(documents) + 1}
        /\ documents'[Len(documents) + 1] = new
        /\ \A i \in DOMAIN documents : documents'[i] = documents[i]
    BY <1>1, <2>1
  <2>3. ASSUME repeats = 0
        PROVE  /\ \A i \in DOMAIN documents : documents[i].id # p
               /\ p \notin skipped
    BY <1>1, <2>3
  <2> HIDE DEF new
  <2>4. new.id = p /\ new.page = site[p]
    BY DEF new
  <2> QED  BY <1>1, <1>2, <2>1, <2>2, <2>3, <2>4
<1> QED  BY <1>3, <1>4

LEMMA SecondFetch ==
  ASSUME StoreInv, NEW p \in Page, FetchAgain(p)
  PROVE  StoreInv'
<1> USE DEF StoreInv
<1>1. /\ site[p] \in Contents /\ repeats' # 0 /\ repeats' \in Nat /\ site' = site
      /\ stored' = [stored EXCEPT ![p] = site[p]]
  BY DEF FetchAgain, Yielded
<1>2. documents' \in Seq([id : Page, page : Contents]) /\ skipped' \subseteq Page
  <2>1. CASE Unchanged(p)
    BY <2>1 DEF FetchAgain, Yielded
  <2>2. CASE ~Unchanged(p)
    <3> DEFINE new == [id |-> p, page |-> site[p]]
    <3>1. documents' = Append(documents, new) /\ skipped' = skipped
      BY <2>2 DEF FetchAgain, Yielded
    <3>2. new \in [id : Page, page : Contents]
      BY <1>1
    <3> HIDE DEF new
    <3> QED  BY <3>1, <3>2
  <2> QED  BY <2>1, <2>2
<1> QED  BY <1>1, <1>2

LEMMA CompletedScan ==
  ASSUME StoreInv, PassesInv, Complete
  PROVE  StoreInv'
<1> USE DEF StoreInv
<1>1. DOMAIN verdicts = Ids(documents)
  <2>1. CASE phase = "assessed"
    BY <2>1, OutcomeDomain DEF PassesInv
  <2>2. CASE phase = "fetch" /\ documents = <<>>
    BY <2>2 DEF PassesInv, Nothing, Ids
  <2> QED  BY <2>1, <2>2 DEF Complete, Exhausted
<1>2. ASSUME repeats = 0, NEW p \in Ids(documents)
      PROVE  Doc(documents, p).page = stored[p]
  <2>1. PICK i \in DOMAIN documents : documents[i].id = p
    BY DEF Ids
  <2>2. ById(documents, p) = {i} /\ i \in Nat
    BY <1>2, <2>1 DEF ById
  <2>3. Doc(documents, p) = documents[i]
    BY <2>2 DEF Doc
  <2> QED  BY <1>2, <2>1, <2>3
<1>3. ASSUME repeats = 0, NEW p \in Page, latest'[p] # None
      PROVE  latest'[p].judged.body = latest'[p].page.body
  <2>1. CASE p \in DOMAIN verdicts
    BY <1>1, <1>2, <1>3, <2>1 DEF Complete
  <2>2. CASE p \in skipped \ DOMAIN verdicts
    BY <1>3, <2>2 DEF Complete
  <2>3. CASE p \notin skipped \cup DOMAIN verdicts
    BY <1>3, <2>3 DEF Complete
  <2> QED  BY <2>1, <2>2, <2>3
<1> QED  BY <1>3 DEF Complete, Over

LEMMA StoreStands == Spec => []StoreInv
<1>1. Init => StoreInv
  BY DEF Init, StoreInv
<1>2. StoreInv /\ PassesInv /\ [Next]_vars => StoreInv'
  <2> SUFFICES ASSUME StoreInv, PassesInv, [Next]_vars  PROVE StoreInv'
    OBVIOUS
  <2> USE DEF StoreInv
  <2>1. ASSUME NEW p \in Page, Change(p)  PROVE StoreInv'
    BY <2>1 DEF Change
  <2>2. ASSUME NEW p \in Page, Fetch(p)  PROVE StoreInv'
    BY <2>2, FirstFetch
  <2>3. ASSUME NEW p \in Page, FetchAgain(p)  PROVE StoreInv'
    BY <2>3, SecondFetch
  <2>4. CASE Start  BY <2>4 DEF Start
  <2>5. CASE Analyze  BY <2>5 DEF Analyze
  <2>6. CASE Downgrade  BY <2>6 DEF Downgrade, Correct
  <2>7. CASE Promote  BY <2>7 DEF Promote, Correct
  <2>8. CASE Assess  BY <2>8 DEF Assess, Correct
  <2>9. CASE Complete  BY <2>9, CompletedScan
  <2>10. CASE Fail  BY <2>10 DEF Fail, Over
  <2>11. CASE UNCHANGED vars  BY <2>11 DEF vars
  <2> QED
    BY <2>1, <2>2, <2>3, <2>4, <2>5, <2>6, <2>7, <2>8, <2>9, <2>10, <2>11 DEF Next
<1> QED  BY <1>1, <1>2, PassesInOrder, PTL DEF Spec

(* A verdict, carried over however many scans, judged the text in store.   *)
THEOREM VerdictsJudgeTheStoredTextAlways == Spec => []VerdictsJudgeTheStoredText
<1>1. StoreInv => VerdictsJudgeTheStoredText
  BY DEF StoreInv, VerdictsJudgeTheStoredText
<1> QED  BY <1>1, StoreStands, PTL

-------------------------------------------------------------------------------
(* Documents, and the lifecycle that their clues give them.                *)

LEMMA LeastElement ==
  ASSUME NEW T, T \subseteq Nat, T # {}
  PROVE  \E x \in T : \A y \in T : x <= y
<1>1. \E x \in T : \A y \in T : ~(<<y, x>> \in OpToRel(<, Nat))
  BY NatLessThanWellFounded, WFMin
<1>2. \A x, y \in Nat : <<x, y>> \in OpToRel(<, Nat) <=> x < y
  BY DEF OpToRel
<1>3. PICK x \in T : \A y \in T : ~(<<y, x>> \in OpToRel(<, Nat))  BY <1>1
<1>4. \A y \in T : ~(y < x)  BY <1>2, <1>3
<1>5. \A y \in T : x <= y  BY <1>4
<1> QED  BY <1>5

LEMMA GreatestElement ==
  ASSUME NEW n \in Nat, NEW T, T \subseteq 1..n, T # {}
  PROVE  \E x \in T : \A y \in T : y <= x
<1> DEFINE U == {k \in Nat : n - k \in T}
<1>1. U # {}
  <2>1. PICK x : x \in T  OBVIOUS
  <2>2. n - x \in Nat /\ n - (n - x) = x  BY <2>1
  <2> QED  BY <2>1, <2>2
<1>2. PICK k \in U : \A l \in U : k <= l  BY <1>1, LeastElement
<1>3. ASSUME NEW y \in T  PROVE y <= n - k
  <2>1. n - y \in Nat /\ n - (n - y) = y  OBVIOUS
  <2>2. k <= n - y  BY <1>2, <2>1
  <2> QED  BY <2>2
<1> QED  BY <1>2, <1>3

LEMMA DocIsOne ==
  ASSUME NEW S, NEW docs \in Seq(S), NEW p \in Ids(docs)
  PROVE  \E i \in DOMAIN docs : Doc(docs, p) = docs[i] /\ docs[i].id = p
<1>1. ById(docs, p) \subseteq 1..Len(docs) /\ Len(docs) \in Nat  BY DEF ById
<1>2. ById(docs, p) # {}  BY DEF Ids, ById
<1>3. \E i \in ById(docs, p) : \A j \in ById(docs, p) : j <= i
  BY <1>1, <1>2, GreatestElement
<1>4. PICK i \in ById(docs, p) : Doc(docs, p) = docs[i]
  BY <1>3 DEF Doc
<1> QED  BY <1>4 DEF ById

(* A title that disowns its page.                                           *)
SelfDisowned(title) == title.mark = "old" \/ title.mark = "deprecated"

LEMMA LifecycleClues ==
  ASSUME NEW docs, NEW d, d.page \in Content, NEW stale
  PROVE  LET lifecycle == LifecycleOf(docs, d, stale)
             b == d.page.body
         IN /\ lifecycle \in Lifecycle
            /\ b.status = "current" => lifecycle # "unknown"
            /\ /\ ~d.page.archived /\ ~b.replacedBy /\ ~b.deprecatedAsOf
               /\ b.status \notin Negative /\ b.phrase \notin Negative
               /\ QuotedTitles(docs, d.id) = {}
               /\ stale \cap {"suffix", "inferred"} = {} /\ lifecycle \in Negative
               => SelfDisowned(d.page.title) /\ lifecycle = "deprecated"
<1> DEFINE b == d.page.body
           mark == d.page.title.mark
           stated == b.status \notin {"none", "other"}
           older == stale \cap {"suffix", "inferred"} # {}
           quoted(word) == \E t \in QuotedTitles(docs, d.id) : t.mark = word
           clues ==
             << <<d.page.archived, "archived">>,
                <<b.replacedBy, "superseded">>,
                <<b.deprecatedAsOf, "deprecated">>,
                <<b.status \in Negative, b.status>>,
                <<quoted("deprecated"), "deprecated">>,
                <<quoted("archived"), "archived">>,
                <<b.phrase \in Negative, b.phrase>>,
                <<mark \in {"old", "deprecated"}, "deprecated">>,
                <<mark = "draft", "draft">>,
                <<mark = "beta", "experimental">>,
                <<b.notice # "none", b.notice>>,
                <<stated, b.status>>,
                <<b.canonical, "current">>,
                <<b.appliesTo, "supported">>,
                <<older, "superseded">> >>
           first == SelectInSeq(clues, LAMBDA clue : clue[1])
           I == {i \in 1..15 : clues[i][1]}
<1>1. /\ b.status \in {"none", "deprecated", "superseded", "archived",
                       "current", "supported", "draft", "experimental", "other"}
      /\ b.phrase \in {"none", "superseded", "deprecated", "archived", "instead"}
      /\ b.notice \in {"none", "draft", "experimental"}
  BY DEF Content, Body
<1>2. Len(clues) = 15  OBVIOUS
<1>3. first = IF I # {} THEN Min(I) ELSE 0  BY <1>2 DEF SelectInSeq
<1>4. I # {} => Min(I) \in I
  <2> HIDE DEF clues
  <2>1. I \subseteq Nat  OBVIOUS
  <2> HIDE DEF I
  <2>2. I # {} => \E x \in I : \A y \in I : x <= y  BY <2>1, LeastElement
  <2> QED  BY <2>2 DEF Min
<1>5. LifecycleOf(docs, d, stale) = IF first = 0 THEN "unknown" ELSE clues[first][2]
  BY DEF LifecycleOf
<1>a. stated \in BOOLEAN /\ older \in BOOLEAN  OBVIOUS
<1>b. /\ stated <=> b.status \notin {"none", "other"}
      /\ older <=> stale \cap {"suffix", "inferred"} # {}
  OBVIOUS
<1> HIDE DEF stated, older
<1>c. /\ clues[12][1] = stated /\ clues[12][2] = b.status
      /\ clues[15][1] = older /\ clues[15][2] = "superseded"
      /\ clues[5][1] = quoted("deprecated") /\ clues[5][2] = "deprecated"
      /\ clues[6][1] = quoted("archived") /\ clues[6][2] = "archived"
  OBVIOUS
<1>d. quoted("deprecated") \/ quoted("archived") => QuotedTitles(docs, d.id) # {}
  OBVIOUS
<1>e. quoted("deprecated") \in BOOLEAN /\ quoted("archived") \in BOOLEAN
  OBVIOUS
<1> HIDE DEF quoted
<1>6. ASSUME NEW i \in I
      PROVE  /\ clues[i][2] \in Lifecycle \ {"unknown"}
             /\ /\ ~d.page.archived /\ ~b.replacedBy /\ ~b.deprecatedAsOf
                /\ b.status \notin Negative /\ b.phrase \notin Negative
                /\ QuotedTitles(docs, d.id) = {}
                /\ stale \cap {"suffix", "inferred"} = {} /\ clues[i][2] \in Negative
                => SelfDisowned(d.page.title) /\ clues[i][2] = "deprecated"
  <2> USE <1>1 DEF Lifecycle, Negative, Tentative
  <2>1. CASE i = 1  BY <1>6, <2>1
  <2>2. CASE i = 2  BY <1>6, <2>2
  <2>3. CASE i = 3  BY <1>6, <2>3
  <2>4. CASE i = 4  BY <1>6, <2>4
  <2>5. CASE i = 5
    <3> HIDE DEF clues
    <3>1. clues[5][1]  BY <1>6, <2>5
    <3>2. quoted("deprecated")  BY <1>e, <1>c, <3>1
    <3> QED  BY <1>d, <1>c, <2>5, <3>2
  <2>6. CASE i = 6
    <3> HIDE DEF clues
    <3>1. clues[6][1]  BY <1>6, <2>6
    <3>2. quoted("archived")  BY <1>e, <1>c, <3>1
    <3> QED  BY <1>d, <1>c, <2>6, <3>2
  <2>7. CASE i = 7  BY <1>6, <2>7
  <2>8. CASE i = 8  BY <1>6, <2>8 DEF SelfDisowned
  <2>9. CASE i = 9  BY <1>6, <2>9
  <2>10. CASE i = 10  BY <1>6, <2>10
  <2>11. CASE i = 11  BY <1>6, <2>11
  <2>12. CASE i = 12
    <3> HIDE DEF clues
    <3>1. clues[12][1]  BY <1>6, <2>12
    <3>2. stated  BY <1>a, <1>c, <3>1
    <3>3. b.status \notin {"none", "other"}  BY <1>b, <3>2
    <3> QED  BY <1>c, <2>12, <3>3
  <2>13. CASE i = 13  BY <1>6, <2>13
  <2>14. CASE i = 14  BY <1>6, <2>14
  <2>15. CASE i = 15
    <3> HIDE DEF clues
    <3>1. clues[15][1]  BY <1>6, <2>15
    <3>2. older  BY <1>a, <1>c, <3>1
    <3> QED  BY <1>b, <1>c, <2>15, <3>2
  <2>16. i \in 1..15  OBVIOUS
  <2> HIDE DEF clues, first, I
  <2>a. CASE i \in 1..8  BY <2>a, <2>1, <2>2, <2>3, <2>4, <2>5, <2>6, <2>7, <2>8
  <2>b. CASE i \in 9..15  BY <2>b, <2>9, <2>10, <2>11, <2>12, <2>13, <2>14, <2>15
  <2> QED  BY <2>16, <2>a, <2>b
<1>7. b.status = "current" => 12 \in I
  <2> HIDE DEF clues
  <2>1. b.status = "current" => stated  BY <1>b
  <2>2. b.status = "current" => clues[12][1]  BY <1>a, <1>c, <2>1
  <2> QED  BY <2>2
<1> HIDE DEF first, clues, I, b, mark
<1>8. CASE I = {}  BY <1>3, <1>5, <1>7, <1>8 DEF Lifecycle, Negative, b
<1>9. CASE I # {}
  <2>1. first \in I /\ first # 0  BY <1>3, <1>4, <1>9 DEF I
  <2> QED  BY <1>5, <1>6, <2>1 DEF b, mark
<1> QED  BY <1>8, <1>9

(* Titles are quoted only in the reasons of stale signals.                  *)
QuotesAreSignalled(docs, d, sigs) ==
  QuotedTitles(docs, d.id) # {} => Types(sigs) \cap StaleSignal # {}

(* What the classifier makes of a page that its lifecycle disowns, and for  *)
(* which reasons it asks for a review.  <1>6 is the lifecycle policy: what  *)
(* it drops without a trace, or turns into a risk, is an inferred version,  *)
(* so that there is a sibling.                                              *)
LEMMA ClassifiedLifecycle ==
  ASSUME NEW docs, NEW d, d.page \in Content, NEW sigs, NEW incoming, NEW v,
         v = Classify(docs, d, sigs, incoming)
  PROVE  LET disowned == v.lifecycle \in Negative \cup Tentative
         IN /\ v \in VerdictRecord
            /\ d.page.body.status = "current" => v.lifecycle # "unknown"
            /\ QuotesAreSignalled(docs, d, sigs) /\ v.status \in {"current", "unknown"}
               /\ disowned =>
                 /\ v.lifecycle = "deprecated"
                 /\ SelfDisowned(d.page.title) /\ Siblings(docs, d) = {}
            /\ v.status = "needs_review" =>
                 \/ disowned
                 \/ Types(sigs) \cap HardSignal # {}
                 \/ TrustEvidence(d, incoming) # {}
                 \/ v.lifecycle # "unknown" /\ Siblings(docs, d) # {}
                 \/ v.risks # {} /\ v.risks \subseteq SoftRisk(d)
            /\ v.status = "stale" =>
                 v.risks # {} /\ v.risks \subseteq StaleEvidence(d, sigs) \cup ScanSupersession(docs, d)
<1> DEFINE trust == TrustEvidence(d, incoming)
           evidence == StaleEvidence(d, sigs)
           scan == ScanSupersession(docs, d)
           all == evidence \cup scan
           lifecycle == LifecycleOf(docs, d, all)
           policy == Policy(docs, d, lifecycle, all, trust)
           signalled == Types(sigs) \cap HardSignal
           hard == signalled \cup policy.risk
           soft == SoftRisk(d)
           ladder == IF policy.stale # {}
             THEN Verdict(IF trust # {} \/ policy.contradicts THEN "needs_review" ELSE "stale",
                          lifecycle, policy.stale)
             ELSE CASE hard # {} -> Verdict("needs_review", lifecycle, hard \cup soft)
                    [] hard = {} /\ trust # {} /\ soft = {} -> Verdict("current", lifecycle, {})
                    [] hard = {} /\ soft # {} -> Verdict("needs_review", lifecycle, soft)
                    [] OTHER -> Verdict("unknown", lifecycle, {})
<1>1. v = ladder
  BY DEF Classify
<1>2. /\ lifecycle \in Lifecycle
      /\ d.page.body.status = "current" => lifecycle # "unknown"
      /\ /\ ~d.page.archived /\ ~d.page.body.replacedBy /\ ~d.page.body.deprecatedAsOf
         /\ d.page.body.status \notin Negative /\ d.page.body.phrase \notin Negative
         /\ QuotedTitles(docs, d.id) = {}
         /\ all \cap {"suffix", "inferred"} = {} /\ lifecycle \in Negative
         => SelfDisowned(d.page.title) /\ lifecycle = "deprecated"
  BY LifecycleClues
<1>3. scan \subseteq {"suffix", "inferred"} /\ evidence \cap {"suffix", "inferred"} = {}
  BY SupersessionKinds, StaleEvidenceKinds
<1>4. /\ evidence \subseteq StaleSignal \cup
           {"status", "phrase", "replaced_by", "deprecated_as_of", "archived"}
      /\ evidence = {} =>
           /\ ~d.page.archived /\ ~d.page.body.replacedBy /\ ~d.page.body.deprecatedAsOf
           /\ d.page.body.status \notin Negative /\ d.page.body.phrase = "none"
      /\ evidence = {} /\ QuotesAreSignalled(docs, d, sigs) => QuotedTitles(docs, d.id) = {}
  BY DEF StaleEvidence, QuotesAreSignalled
<1>5. /\ "inferred" \in scan => Siblings(docs, d) # {}
      /\ scan = {} /\ SelfDisowned(d.page.title) => Siblings(docs, d) = {}
  BY DEF ScanSupersession, StaleSuffix, SelfDisowned
<1>s. soft \subseteq {"last_reviewed", "cadence"} /\ signalled \subseteq HardSignal
  BY DEF SoftRisk
<1> HIDE DEF trust, evidence, scan, lifecycle, soft, signalled
<1>6. /\ policy.stale \subseteq all
      /\ policy.risk \subseteq {"lifecycle"}
      /\ lifecycle \in Negative => policy.stale = all /\ policy.risk = {}
      /\ lifecycle \in Tentative => policy.stale # {} \/ policy.risk # {}
      /\ lifecycle \notin Negative \cup Tentative /\ policy.risk # {} =>
           lifecycle = "current" /\ "inferred" \in scan
      /\ lifecycle \notin Negative /\ policy.contradicts =>
           lifecycle = "supported" /\ "inferred" \in scan
  <2>1. CASE lifecycle \in Negative
    BY <2>1 DEF Policy, Negative, Tentative
  <2>2. CASE lifecycle \in Tentative
    BY <2>2 DEF Policy, Negative, Tentative
  <2>3. CASE lifecycle = "supported"
    BY <1>3, <2>3 DEF Policy, Negative, Tentative
  <2>4. CASE lifecycle = "current"
    BY <1>3, <2>4 DEF Policy, Negative, Tentative
  <2>5. CASE lifecycle = "unknown"
    BY <2>5 DEF Policy, Negative, Tentative
  <2> QED  BY <1>2, <2>1, <2>2, <2>3, <2>4, <2>5 DEF Lifecycle
<1> HIDE DEF policy
<1>7. /\ v.lifecycle = lifecycle /\ v.audit = FALSE
      /\ v = [status |-> v.status, lifecycle |-> v.lifecycle, risks |-> v.risks, audit |-> v.audit]
      /\ \/ /\ policy.stale # {} /\ v.risks = policy.stale
            /\ \/ v.status = "stale"
               \/ v.status = "needs_review" /\ (trust # {} \/ policy.contradicts)
         \/ policy.stale = {} /\ hard # {} /\ v.status = "needs_review" /\ v.risks = hard \cup soft
         \/ /\ policy.stale = {} /\ hard = {} /\ soft # {} /\ v.status = "needs_review"
            /\ v.risks = soft
         \/ /\ policy.stale = {} /\ hard = {} /\ v.risks = {} /\ v.status \in {"current", "unknown"}
  <2> DEFINE contested == trust # {} \/ policy.contradicts
             stays == policy.stale
  <2> HIDE DEF hard
  <2>1. CASE stays # {}
    <3>1. v = Verdict(IF contested THEN "needs_review" ELSE "stale", lifecycle, stays)
      BY <1>1, <2>1
    <3> HIDE DEF contested, ladder
    <3>2. \/ ~contested /\ v = Verdict("stale", lifecycle, stays)
          \/ contested /\ v = Verdict("needs_review", lifecycle, stays)
      BY <3>1
    <3> HIDE DEF stays
    <3>3. /\ v.lifecycle = lifecycle /\ v.audit = FALSE /\ v.risks = stays
          /\ v = [status |-> v.status, lifecycle |-> v.lifecycle, risks |-> v.risks,
                  audit |-> v.audit]
          /\ \/ v.status = "stale"
             \/ v.status = "needs_review" /\ contested
      BY <3>2 DEF Verdict
    <3> QED  BY <2>1, <3>3 DEF contested, stays
  <2>2. CASE stays = {} /\ hard # {}
    <3>1. v = Verdict("needs_review", lifecycle, hard \cup soft)
      BY <1>1, <2>2
    <3> HIDE DEF ladder
    <3> QED  BY <2>2, <3>1 DEF Verdict
  <2>3. CASE stays = {} /\ hard = {} /\ soft # {}
    <3>1. v = Verdict("needs_review", lifecycle, soft)
      BY <1>1, <2>3
    <3> HIDE DEF ladder
    <3> QED  BY <2>3, <3>1 DEF Verdict
  <2>4. CASE stays = {} /\ hard = {} /\ soft = {}
    <3>1. \E status \in {"current", "unknown"} : v = Verdict(status, lifecycle, {})
      BY <1>1, <2>4
    <3> HIDE DEF ladder
    <3> QED  BY <2>4, <3>1 DEF Verdict
  <2> QED  BY <2>1, <2>2, <2>3, <2>4
<1>8. v \in VerdictRecord
  <2>1. v.risks \subseteq policy.stale \cup hard \cup soft /\ v.status \in Status
    BY <1>7 DEF Status
  <2>2. v.risks \subseteq StaleSignal \cup HardSignal \cup
          {"status", "phrase", "replaced_by", "deprecated_as_of", "archived", "suffix", "inferred",
           "lifecycle", "last_reviewed", "cadence", "stale_referrers"}
    BY <1>3, <1>4, <1>6, <1>s, <2>1
  <2> QED  BY <1>2, <1>7, <2>1, <2>2 DEF VerdictRecord
<1>9. ASSUME QuotesAreSignalled(docs, d, sigs), v.status \in {"current", "unknown"},
             lifecycle \in Negative \cup Tentative
      PROVE  lifecycle = "deprecated" /\ SelfDisowned(d.page.title) /\ Siblings(docs, d) = {}
  <2>1. policy.stale = {} /\ policy.risk = {}
    BY <1>7, <1>9
  <2>2. lifecycle \in Negative /\ all = {}
    BY <1>6, <1>9, <2>1
  <2>3. "none" \notin Negative
    BY DEF Negative
  <2>4. evidence = {} /\ scan = {}
    BY <2>2
  <2> QED  BY <1>2, <1>4, <1>5, <1>9, <2>2, <2>3, <2>4
<1>10. ASSUME v.status = "needs_review", lifecycle \notin Negative \cup Tentative,
              signalled = {}, trust = {}
       PROVE  \/ lifecycle # "unknown" /\ Siblings(docs, d) # {}
              \/ v.risks # {} /\ v.risks \subseteq soft
  BY <1>5, <1>6, <1>7, <1>10
<1>11. v.status = "stale" => v.risks # {} /\ v.risks \subseteq evidence \cup scan
  BY <1>6, <1>7
<1> QED  BY <1>2, <1>7, <1>8, <1>9, <1>10, <1>11 DEF soft, signalled, trust, evidence, scan

(* A trusted page is always important enough to be audited, and so is one   *)
(* of a known lifecycle that has siblings.                                  *)
LEMMA ImportantEnough ==
  ASSUME NEW docs, NEW d, NEW lifecycle, NEW incoming \in Nat, NEW superseded \in Nat,
         \/ /\ TrustEvidence(d, incoming) # {}
            /\ d.page.body.status = "current" => lifecycle # "unknown"
         \/ lifecycle # "unknown" /\ Siblings(docs, d) # {}
  PROVE  Importance(docs, d, lifecycle, incoming, superseded) >= ImportanceThreshold
<1> DEFINE worth(yes, points) == IF yes THEN points ELSE 0
           b == d.page.body
           referenced == CASE incoming >= 5 -> 3 [] incoming \in 2..4 -> 2 [] OTHER -> incoming
           related == CASE superseded > 0 -> 2
                        [] superseded = 0 /\ Siblings(docs, d) # {} -> 1
                        [] OTHER -> 0
           lifecycled == worth(lifecycle # "unknown", 1)
           keyword == worth(b.status # "none", 1)
           vouched == worth(b.canonical, 2)
           owned == worth(b.owner, 1)
           applies == worth(b.appliesTo, 1)
<1>1. Importance(docs, d, lifecycle, incoming, superseded) =
        referenced + owned + keyword + lifecycled + vouched + applies + related
  BY DEF Importance
<1>2. referenced \in Nat /\ (incoming >= 2 => referenced >= 2)
  OBVIOUS
<1>3. related \in Nat /\ (Siblings(docs, d) # {} => related >= 1)
  OBVIOUS
<1>4. lifecycled \in Nat /\ (lifecycle # "unknown" => lifecycled = 1)
  OBVIOUS
<1>5. keyword \in Nat /\ (b.status = "current" => keyword = 1)
  OBVIOUS
<1>6. vouched \in Nat /\ (b.canonical => vouched = 2)
  OBVIOUS
<1>7. owned \in Nat /\ applies \in Nat
  OBVIOUS
<1>8. TrustEvidence(d, incoming) # {} => incoming >= 2 \/ b.status = "current" \/ b.canonical
  BY DEF TrustEvidence
<1> HIDE DEF referenced, related, lifecycled, keyword, vouched, owned, applies, b
<1>9. /\ incoming >= 2 \/ b.canonical
         \/ (b.status = "current" /\ lifecycle # "unknown")
         \/ (lifecycle # "unknown" /\ Siblings(docs, d) # {})
  BY <1>8 DEF b
<1>10. referenced + owned + keyword + lifecycled + vouched + applies + related >= 2
  <2>1. CASE incoming >= 2  BY <1>2, <1>3, <1>4, <1>5, <1>6, <1>7, <2>1
  <2>2. CASE b.canonical  BY <1>2, <1>3, <1>4, <1>5, <1>6, <1>7, <2>2
  <2>3. CASE b.status = "current" /\ lifecycle # "unknown"
    BY <1>2, <1>3, <1>4, <1>5, <1>6, <1>7, <2>3
  <2>4. CASE lifecycle # "unknown" /\ Siblings(docs, d) # {}
    BY <1>2, <1>3, <1>4, <1>5, <1>6, <1>7, <2>4
  <2> QED  BY <1>9, <2>1, <2>2, <2>3, <2>4
<1> QED  BY <1>1, <1>10 DEF ImportanceThreshold

-------------------------------------------------------------------------------
(* The types of the verdicts, and how a scan's documents are counted.       *)

LEMMA PassesKeepTypes ==
  ASSUME NEW docs, NEW sigs, NEW S, NEW vs \in [S -> VerdictRecord]
  PROVE  /\ Downgraded(docs, sigs, vs) \in [S -> VerdictRecord]
         /\ Promoted(docs, sigs, vs) \in [S -> VerdictRecord]
         /\ Assessed(docs, sigs, vs) \in [S -> VerdictRecord]
<1>1. ASSUME NEW v \in VerdictRecord, NEW risks \in SUBSET (v.risks \cup {"stale_referrers"})
      PROVE  /\ WithStatus(v, "needs_review", risks) \in VerdictRecord
             /\ WithStatus(v, "current", {}) \in VerdictRecord
  BY <1>1 DEF WithStatus, Verdict, VerdictRecord, Status
<1>2. Downgraded(docs, sigs, vs) \in [S -> VerdictRecord]
  <2>1. \A p \in S : /\ vs[p] \in VerdictRecord
                     /\ WithStatus(vs[p], "needs_review", vs[p].risks \cup {"stale_referrers"})
                          \in VerdictRecord
    BY <1>1
  <2> QED  BY <2>1 DEF Downgraded
<1>3. Promoted(docs, sigs, vs) \in [S -> VerdictRecord]
  <2>1. \A p \in S : /\ vs[p] \in VerdictRecord
                     /\ WithStatus(vs[p], "needs_review", vs[p].risks) \in VerdictRecord
                     /\ WithStatus(vs[p], "current", {}) \in VerdictRecord
    BY <1>1
  <2> QED  BY <2>1 DEF Promoted
<1>4. Assessed(docs, sigs, vs) \in [S -> VerdictRecord]
  <2>1. ASSUME NEW v \in VerdictRecord, NEW audit \in BOOLEAN
        PROVE  [v EXCEPT !.audit = audit] \in VerdictRecord
    BY DEF VerdictRecord
  <2>2. \A d, v, sig, incoming, superseded :
          RequiresAudit(docs, d, v, sig, incoming, superseded) \in BOOLEAN
    BY DEF RequiresAudit
  <2> QED  BY <2>1, <2>2 DEF Assessed
<1> QED  BY <1>2, <1>3, <1>4

LEMMA ElementsOf ==
  ASSUME NEW S, NEW docs \in Seq(S), NEW i \in DOMAIN docs
  PROVE  docs[i] \in S
OBVIOUS

LEMMA ClassifiedTypes ==
  ASSUME AnalysisAssumption, NEW docs \in Seq([id : Page, page : Contents]), NEW sigs
  PROVE  /\ \A p \in Ids(docs) : Doc(docs, p).page \in Contents
         /\ Classified(docs, sigs) \in [Ids(docs) -> VerdictRecord]
<1>1. ASSUME NEW p \in Ids(docs)  PROVE Doc(docs, p).page \in Contents
  <2>1. PICK i \in DOMAIN docs : Doc(docs, p) = docs[i]
    BY DocIsOne
  <2>2. docs[i] \in [id : Page, page : Contents]
    BY ElementsOf
  <2> QED  BY <2>1, <2>2
<1>2. \A p \in Ids(docs) :
        Classify(docs, Doc(docs, p), sigs[p], Incoming(sigs, p)) \in VerdictRecord
  BY <1>1, ClassifiedLifecycle DEF AnalysisAssumption
<1> QED  BY <1>1, <1>2 DEF Classified

LEMMA FinitelyManyDocuments ==
  ASSUME NEW S, NEW docs \in Seq(S)
  PROVE  IsFiniteSet(Ids(docs))
<1> DEFINE f == [i \in 1..Len(docs) |-> docs[i].id]
<1>1. IsFiniteSet(1..Len(docs))
  BY FS_Interval
<1>2. f \in Surjection(1..Len(docs), Ids(docs))
  BY DEF Surjection, Ids
<1> QED  BY <1>1, <1>2, FS_Surjection

LEMMA QuotedHaveSignals ==
  ASSUME NEW docs, NEW p, NEW dead, QuotedTitles(docs, p) # {}
  PROVE  Types(SignalsOf(docs, p, dead)) \cap StaleSignal # {}
<1> DEFINE replacements(d) ==
             UNION {C \in {Candidates(docs, d, l) :
                             l \in {k \in d.page.links : k.wording = "replacement"}} :
                      Cardinality(C) = 1}
           sigs == SignalsOf(docs, p, dead)
<1>1. PICK i \in ById(docs, p) :
        Originals(docs, i) \cup Successors(docs, i) \cup replacements(docs[i]) # {}
  BY DEF QuotedTitles
<1>2. ASSUME NEW type, NEW to, type \in StaleSignal, Signal(type, to) \in sigs
      PROVE  Types(sigs) \cap StaleSignal # {}
  <2>1. Signal(type, to).type = type  BY DEF Signal
  <2> HIDE DEF sigs
  <2> QED  BY <1>2, <2>1 DEF Types
<1>3. SimilaritySignals(docs, i) \subseteq sigs /\ LinkSignals(docs, docs[i]) \subseteq sigs
  BY DEF SignalsOf
<1> HIDE DEF sigs, replacements
<1>4. CASE Originals(docs, i) # {}
  <2>1. PICK j \in Originals(docs, i) : TRUE  BY <1>4
  <2>2. Signal("duplicate", docs[j].id) \in SimilaritySignals(docs, i)
    BY <2>1 DEF SimilaritySignals
  <2> QED  BY <1>2, <1>3, <2>2 DEF StaleSignal, sigs
<1>5. CASE Successors(docs, i) # {}
  <2>1. PICK j \in Successors(docs, i) : TRUE  BY <1>5
  <2>2. Signal("version_marker", docs[j].id) \in SimilaritySignals(docs, i)
    BY <2>1 DEF SimilaritySignals
  <2> QED  BY <1>2, <1>3, <2>2 DEF StaleSignal, sigs
<1>6. CASE replacements(docs[i]) # {}
  <2>1. PICK l \in docs[i].page.links :
          /\ l.wording = "replacement" /\ Cardinality(Candidates(docs, docs[i], l)) = 1
          /\ Candidates(docs, docs[i], l) # {}
    BY <1>6 DEF replacements
  <2>2. PICK j \in Candidates(docs, docs[i], l) : TRUE  BY <2>1
  <2>3. ASSUME NEW none
        PROVE  Signal("replacement_link", docs[j].id)
                 \in Resolved(docs, Candidates(docs, docs[i], l), "replacement_link",
                              "ambiguous_internal_link", none)
    BY <2>1, <2>2 DEF Resolved
  <2>4. Signal("replacement_link", docs[j].id) \in LinkSignals(docs, docs[i])
    BY <2>1, <2>3 DEF LinkSignals
  <2> QED  BY <1>2, <1>3, <2>4 DEF StaleSignal, sigs
<1> QED  BY <1>1, <1>4, <1>5, <1>6

(* What the passes leave of a page under review, or disowned.               *)
LEMMA ReviewedInOutcome ==
  ASSUME AnalysisAssumption, NEW docs \in Seq([id : Page, page : Contents]), NEW sigs,
         NEW dead, sigs = Signals(docs, dead), NEW p \in Ids(docs)
  PROVE  LET v == Outcome(docs, sigs)[p]
             d == Doc(docs, p)
         IN /\ v.lifecycle \in Negative \cup Tentative =>
                 \/ v.audit
                 \/ /\ v.status = "current" /\ v.lifecycle = "deprecated"
                    /\ SelfDisowned(d.page.title) /\ Siblings(docs, d) = {}
            /\ v.status = "needs_review" /\ ~v.audit =>
                 /\ v.risks = {"last_reviewed"}
                 /\ TrustEvidence(d, Incoming(sigs, p)) = {}
<1> DEFINE vs == Classified(docs, sigs)
           ds == Downgraded(docs, sigs, vs)
           ps == Promoted(docs, sigs, ds)
           out == Assessed(docs, sigs, ps)
           d == Doc(docs, p)
           incoming == Incoming(sigs, p)
           superseded == Cardinality(Superseded(docs, sigs, ps, p))
           trust == TrustEvidence(d, incoming)
           disowned == vs[p].lifecycle \in Negative \cup Tentative
<1>1. d.page \in Content
  BY ClassifiedTypes DEF AnalysisAssumption
<1>2. DOMAIN vs = Ids(docs) /\ vs[p] = Classify(docs, d, sigs[p], incoming)
      /\ \A q \in DOMAIN vs : Shaped(vs[q])
  BY LadderOf DEF Classified
<1>3. incoming \in Nat
  <2>1. IsFiniteSet(Ids(docs)) /\ DOMAIN sigs = Ids(docs)
    BY FinitelyManyDocuments DEF Signals
  <2>2. ReferredBy(sigs, p, {"resolved_reference", "resolved_internal_link"}) \in SUBSET Ids(docs)
    BY <2>1 DEF ReferredBy
  <2> QED  BY <2>1, <2>2, FS_Subset, FS_CardinalityType DEF Incoming
<1>4. vs[p].status = "current" => trust # {}
  BY <1>2, LadderOf
<1>q. QuotesAreSignalled(docs, d, sigs[p])
  <2>1. d.id = p  BY DocIsOne
  <2>2. sigs[p] = SignalsOf(docs, p, dead)  BY DEF Signals
  <2> HIDE DEF d
  <2> QED  BY <2>1, <2>2, QuotedHaveSignals DEF QuotesAreSignalled
<1> HIDE DEF vs, d, incoming
<1>5. /\ d.page.body.status = "current" => vs[p].lifecycle # "unknown"
      /\ vs[p].status \in {"current", "unknown"} /\ disowned =>
           /\ vs[p].lifecycle = "deprecated"
           /\ SelfDisowned(d.page.title) /\ Siblings(docs, d) = {}
      /\ vs[p].status = "needs_review" =>
           \/ disowned
           \/ Types(sigs[p]) \cap HardSignal # {}
           \/ trust # {}
           \/ vs[p].lifecycle # "unknown" /\ Siblings(docs, d) # {}
           \/ vs[p].risks # {} /\ vs[p].risks \subseteq SoftRisk(d)
  <2> DEFINE v == vs[p]
             sig == sigs[p]
  <2>1. v = Classify(docs, d, sig, incoming) /\ QuotesAreSignalled(docs, d, sig)
    BY <1>2, <1>q
  <2> HIDE DEF v, sig
  <2>2. /\ d.page.body.status = "current" => v.lifecycle # "unknown"
        /\ v.status \in {"current", "unknown"} /\ v.lifecycle \in Negative \cup Tentative =>
             /\ v.lifecycle = "deprecated"
             /\ SelfDisowned(d.page.title) /\ Siblings(docs, d) = {}
    BY <1>1, <2>1, ClassifiedLifecycle
  <2>3. v.status = "needs_review" =>
           \/ v.lifecycle \in Negative \cup Tentative
           \/ Types(sig) \cap HardSignal # {}
           \/ TrustEvidence(d, incoming) # {}
           \/ v.lifecycle # "unknown" /\ Siblings(docs, d) # {}
           \/ v.risks # {} /\ v.risks \subseteq SoftRisk(d)
    BY <1>1, <2>1, ClassifiedLifecycle
  <2> HIDE DEF trust
  <2> QED  BY <2>2, <2>3 DEF v, sig, trust
<1> HIDE DEF trust
<1>6. /\ DOMAIN ds = Ids(docs) /\ \A q \in DOMAIN ds : Shaped(ds[q])
      /\ ds[p].lifecycle = vs[p].lifecycle
      /\ vs[p].status # "current" => ds[p] = vs[p]
      /\ ds[p].status # vs[p].status => vs[p].status = "current" /\ ds[p].status = "needs_review"
      /\ ds[p].status \in {"current", "unknown"} => ds[p] = vs[p]
  BY <1>2, DowngradePass
<1> HIDE DEF ds
<1>7. /\ DOMAIN ps = Ids(docs) /\ \A q \in DOMAIN ps : Shaped(ps[q])
      /\ ps[p].lifecycle = ds[p].lifecycle
      /\ ds[p].status = "needs_review" => ps[p] = ds[p]
      /\ ps[p].status # ds[p].status =>
           \/ ds[p].status = "current" /\ ps[p].status = "needs_review"
           \/ ds[p].status = "unknown" /\ ps[p].status = "current"
  BY <1>6, PromotionPass
<1> HIDE DEF ps
<1>8. superseded \in Nat
  <2>1. IsFiniteSet(Ids(docs))
    BY FinitelyManyDocuments
  <2>2. Superseded(docs, sigs, ps, p) \in SUBSET Ids(docs)
    BY <1>7 DEF Superseded, StaleIn
  <2> QED  BY <2>1, <2>2, FS_Subset, FS_CardinalityType
<1>9. /\ out[p].status = ps[p].status /\ out[p].lifecycle = vs[p].lifecycle
      /\ out[p].risks = ps[p].risks
      /\ out[p].audit = RequiresAudit(docs, d, ps[p], sigs[p], incoming, superseded)
  BY <1>6, <1>7, AssessmentPass DEF d, incoming
<1> HIDE DEF out, superseded
<1>10. \/ trust # {}
       \/ vs[p].lifecycle # "unknown" /\ Siblings(docs, d) # {}
       => Importance(docs, d, vs[p].lifecycle, incoming, superseded) >= ImportanceThreshold
  BY <1>3, <1>5, <1>8, ImportantEnough DEF trust
<1>11. ASSUME disowned, ~out[p].audit
       PROVE  /\ out[p].status = "current" /\ out[p].lifecycle = "deprecated"
              /\ SelfDisowned(d.page.title) /\ Siblings(docs, d) = {}
  <2>1. ps[p].status = "current"
    BY <1>6, <1>7, <1>9, <1>11 DEF RequiresAudit
  <2>2. vs[p].status \in {"current", "unknown"}
    BY <1>6, <1>7, <2>1
  <2> QED  BY <1>5, <1>9, <1>11, <2>1, <2>2
<1>12. ASSUME out[p].status = "needs_review", ~out[p].audit
       PROVE  out[p].risks = {"last_reviewed"} /\ trust = {}
  <2>1. /\ ~disowned /\ Types(sigs[p]) \cap HardSignal = {} /\ "cadence" \notin out[p].risks
        /\ ~(Importance(docs, d, vs[p].lifecycle, incoming, superseded) >= ImportanceThreshold)
    BY <1>6, <1>7, <1>9, <1>12 DEF RequiresAudit
  <2>2. trust = {} /\ ~(vs[p].lifecycle # "unknown" /\ Siblings(docs, d) # {})
    BY <1>10, <2>1
  <2>3. vs[p].status = "needs_review"
    BY <1>4, <1>6, <1>7, <1>9, <1>12, <2>2
  <2>4. out[p].risks = vs[p].risks
    BY <1>6, <1>7, <1>9, <2>3
  <2>5. SoftRisk(d) \subseteq {"last_reviewed", "cadence"}
    BY DEF SoftRisk
  <2>6. out[p].risks # {} /\ out[p].risks \subseteq SoftRisk(d)
    BY <1>5, <2>1, <2>2, <2>3, <2>4
  <2> QED  BY <2>1, <2>2, <2>5, <2>6
<1>13. Outcome(docs, sigs) = out
  BY DEF Outcome, out, ps, ds, vs
<1> QED  BY <1>9, <1>11, <1>12, <1>13 DEF d, trust, incoming

-------------------------------------------------------------------------------
(* What it takes for comparison alone to condemn a page.                    *)

LEMMA ComparedTypes ==
  ASSUME NEW docs, NEW p, NEW dead, NEW type \in {"duplicate", "version_marker"},
         type \in Types(SignalsOf(docs, p, dead))
  PROVE  \E i \in ById(docs, p) : \E s \in SimilaritySignals(docs, i) : s.type = type
<1>1. ASSUME NEW d
      PROVE  \A s \in AgeOf(d) \cup VersionRefSignals(d) \cup BrokenLinkSignals(d, dead) :
               s.type # type
  BY DEF AgeOf, VersionRefSignals, BrokenLinkSignals, Signal
<1>a. \A s \in AgeSignals(docs, p) : s.type # type
  BY <1>1 DEF AgeSignals
<1>2. ASSUME NEW d  PROVE \A s \in ReferenceSignals(docs, d) : s.type # type
  BY DEF ReferenceSignals, Resolved, Signal
<1>3. ASSUME NEW d  PROVE \A s \in LinkSignals(docs, d) : s.type # type
  BY DEF LinkSignals, Resolved, Signal
<1>4. PICK s \in SignalsOf(docs, p, dead) : s.type = type
  BY DEF Types
<1>5. PICK i \in ById(docs, p) :
        s \in VersionRefSignals(docs[i])
                \cup BrokenLinkSignals(docs[i], dead) \cup SimilaritySignals(docs, i)
                \cup ReferenceSignals(docs, docs[i]) \cup LinkSignals(docs, docs[i])
  BY <1>4, <1>a DEF SignalsOf
<1>6. s \in SimilaritySignals(docs, i)
  BY <1>1, <1>2, <1>3, <1>4, <1>5
<1> QED  BY <1>4, <1>6

LEMMA ComparedRules ==
  ASSUME NEW docs, NEW i, NEW s \in SimilaritySignals(docs, i)
  PROVE  /\ s.type = "duplicate" => Originals(docs, i) # {}
         /\ s.type = "version_marker" => Successors(docs, i) # {}
BY DEF SimilaritySignals, Signal

LEMMA ClassifiedStale ==
  ASSUME NEW docs, NEW d, d.page \in Content, NEW sigs, NEW incoming, NEW v,
         v = Classify(docs, d, sigs, incoming), v.status = "stale"
  PROVE  v.risks # {} /\ v.risks \subseteq StaleEvidence(d, sigs) \cup ScanSupersession(docs, d)
BY ClassifiedLifecycle

(* A stale page keeps the verdict of the classifier.                        *)
LEMMA StaleInOutcome ==
  ASSUME AnalysisAssumption, NEW docs \in Seq([id : Page, page : Contents]), NEW sigs,
         NEW p \in Ids(docs), Outcome(docs, sigs)[p].status = "stale"
  PROVE  LET v == Outcome(docs, sigs)[p]
             d == Doc(docs, p)
         IN v.risks # {} /\ v.risks \subseteq StaleEvidence(d, sigs[p]) \cup ScanSupersession(docs, d)
<1> DEFINE vs == Classified(docs, sigs)
           ds == Downgraded(docs, sigs, vs)
           ps == Promoted(docs, sigs, ds)
           out == Assessed(docs, sigs, ps)
           d == Doc(docs, p)
           v == vs[p]
           sig == sigs[p]
           incoming == Incoming(sigs, p)
<1>1. d.page \in Content
  BY ClassifiedTypes DEF AnalysisAssumption
<1>2. DOMAIN vs = Ids(docs) /\ v = Classify(docs, d, sig, incoming)
      /\ \A q \in DOMAIN vs : Shaped(vs[q])
  BY LadderOf DEF Classified
<1> HIDE DEF vs, d, incoming, sig
<1>3. /\ DOMAIN ds = Ids(docs) /\ \A q \in DOMAIN ds : Shaped(ds[q])
      /\ v.status # "current" => ds[p] = v
      /\ ds[p].status # v.status => ds[p].status = "needs_review"
  BY <1>2, DowngradePass
<1> HIDE DEF ds
<1>4. /\ DOMAIN ps = Ids(docs) /\ \A q \in DOMAIN ps : Shaped(ps[q])
      /\ ds[p].status \in {"stale", "needs_review"} => ps[p] = ds[p]
      /\ ps[p].status # ds[p].status => ps[p].status \in {"needs_review", "current"}
  BY <1>3, PromotionPass
<1> HIDE DEF ps
<1>5. out[p].status = ps[p].status /\ out[p].risks = ps[p].risks
  BY <1>4, AssessmentPass
<1>6. Outcome(docs, sigs) = out
  BY DEF Outcome, out, ps, ds, vs
<1> HIDE DEF out
<1>7. v.status = "stale" /\ out[p].risks = v.risks
  BY <1>3, <1>4, <1>5, <1>6
<1> HIDE DEF v
<1>8. v.risks # {} /\ v.risks \subseteq StaleEvidence(d, sig) \cup ScanSupersession(docs, d)
  <2>1. v = Classify(docs, d, sig, incoming)  BY <1>2
  <2> QED  BY <1>1, <1>7, <2>1, ClassifiedStale
<1> QED  BY <1>6, <1>7, <1>8 DEF d, sig

LEMMA CondemnedByComparison ==
  ASSUME NEW docs, NEW d, NEW p, NEW dead, NEW risks, risks # {},
         risks \subseteq {"duplicate", "version_marker", "suffix", "inferred"},
         risks \subseteq StaleEvidence(d, SignalsOf(docs, p, dead)) \cup ScanSupersession(docs, d)
  PROVE  \/ \E i \in ById(docs, p) : Originals(docs, i) # {} \/ Successors(docs, i) # {}
         \/ ScanSupersession(docs, d) # {}
<1>1. CASE ScanSupersession(docs, d) # {}  BY <1>1
<1>2. CASE ScanSupersession(docs, d) = {}
  <2> DEFINE sigs == SignalsOf(docs, p, dead)
  <2> HIDE DEF sigs
  <2>1. PICK type \in risks : type \in StaleEvidence(d, sigs)
    BY <1>2 DEF sigs
  <2>2. type \in {"duplicate", "version_marker"} /\ type \in Types(sigs)
    <3>1. type \in {"duplicate", "version_marker", "suffix", "inferred"}
      BY <2>1
    <3>2. type \notin {"suffix", "inferred"}
      BY <2>1, StaleEvidenceKinds
    <3>3. type \in (Types(sigs) \cap StaleSignal) \cup
            {"status", "phrase", "replaced_by", "deprecated_as_of", "archived"}
      BY <2>1 DEF StaleEvidence
    <3> QED  BY <3>1, <3>2, <3>3
  <2>3. PICK i \in ById(docs, p) : \E s \in SimilaritySignals(docs, i) : s.type = type
    BY <2>2, ComparedTypes DEF sigs
  <2> QED  BY <2>2, <2>3, ComparedRules
<1> QED  BY <1>1, <1>2

(* Of finitely many positions, one has the highest rank.                    *)
LEMMA HighestOf ==
  ASSUME NEW n \in Nat, NEW T, T \subseteq 1..n, T # {},
         NEW f, \A x \in T : f[x] \in Nat
  PROVE  \E x \in T : \A y \in T : f[y] <= f[x]
<1> DEFINE top(S) == \E x \in S : \A y \in S : f[y] <= f[x]
           upTo(m) == {x \in T : x <= m}
           bad == {m \in Nat : upTo(m) # {} /\ ~top(upTo(m))}
<1>a. \A x \in T : x \in Nat /\ 1 <= x /\ x <= n
  OBVIOUS
<1>b. /\ upTo(n) = T /\ upTo(0) = {}
      /\ \A m \in Nat : m \notin T /\ m # 0 => m - 1 \in Nat /\ upTo(m) = upTo(m - 1)
      /\ \A m \in T : m \in Nat /\ m - 1 \in Nat /\ upTo(m) = upTo(m - 1) \cup {m}
  <2> HIDE DEF top, bad
  <2>1. upTo(n) = T  BY <1>a
  <2>2. upTo(0) = {}
    <3>1. \A x \in T : ~(x <= 0)  BY <1>a
    <3> QED  BY <3>1
  <2>3. ASSUME NEW m \in Nat, m \notin T, m # 0
        PROVE  m - 1 \in Nat /\ upTo(m) = upTo(m - 1)
    <3>1. m - 1 \in Nat /\ \A x \in Nat : x # m => (x <= m <=> x <= m - 1)
      BY <2>3
    <3> QED  BY <1>a, <2>3, <3>1
  <2>4. ASSUME NEW m \in T
        PROVE  m \in Nat /\ m - 1 \in Nat /\ upTo(m) = upTo(m - 1) \cup {m}
    <3>1. m \in Nat /\ m - 1 \in Nat /\ \A x \in Nat : x <= m <=> (x = m \/ x <= m - 1)
      BY <1>a, <2>4
    <3> QED  BY <1>a, <2>4, <3>1
  <2> HIDE DEF upTo
  <2> QED  BY <2>1, <2>2, <2>3, <2>4
<1>1. CASE bad = {}
  <2> HIDE DEF upTo, top
  <2>2. top(T)
    BY <1>1, <1>b
  <2> QED  BY <2>2 DEF top
<1>2. ASSUME bad # {}  PROVE FALSE
  <2>1. PICK m \in bad : \A k \in bad : m <= k
    <3>1. bad \subseteq Nat
      OBVIOUS
    <3> HIDE DEF bad
    <3> QED  BY <1>2, <3>1, LeastElement
  <2>2. m \in T
    <3>1. ASSUME m \notin T  PROVE FALSE
      <4>1. m # 0
        <5> HIDE DEF upTo, top
        <5> QED  BY <1>b, <2>1
      <4>2. m - 1 \in Nat /\ upTo(m - 1) = upTo(m)
        <5> HIDE DEF upTo, top
        <5> QED  BY <1>b, <2>1, <3>1, <4>1
      <4> HIDE DEF upTo, top
      <4>3. m - 1 \in bad
        BY <2>1, <4>2
      <4> QED  BY <2>1, <4>2, <4>3
    <3> QED  BY <3>1
  <2>3. m - 1 \in Nat /\ upTo(m) = upTo(m - 1) \cup {m} /\ m \in Nat
    BY <1>b, <2>2
  <2>4. top(upTo(m - 1)) => top(upTo(m))
    <3>1. SUFFICES ASSUME NEW x \in upTo(m - 1), \A y \in upTo(m - 1) : f[y] <= f[x]
                   PROVE  top(upTo(m))
      OBVIOUS
    <3>2. f[x] \in Nat /\ f[m] \in Nat /\ \A y \in upTo(m - 1) : f[y] \in Nat
      BY <2>2
    <3>3. x \in upTo(m) /\ m \in upTo(m)
      BY <2>3
    <3> HIDE DEF upTo
    <3>4. CASE f[m] <= f[x]
      BY <2>3, <3>1, <3>3, <3>4
    <3>5. CASE f[x] <= f[m]
      <4>1. \A y \in upTo(m) : f[y] <= f[m]
        BY <2>3, <3>1, <3>2, <3>5
      <4> QED  BY <3>3, <4>1
    <3> QED  BY <3>2, <3>4, <3>5
  <2>5. upTo(m - 1) # {} => top(upTo(m - 1))
    <3> HIDE DEF upTo, top
    <3> QED  BY <2>1, <2>3
  <2>6. CASE upTo(m - 1) = {}
    <3>1. upTo(m) = {m} /\ f[m] \in Nat
      BY <2>2, <2>3, <2>6
    <3> HIDE DEF upTo
    <3>2. top(upTo(m))
      BY <3>1
    <3> QED  BY <2>1, <3>2
  <2> HIDE DEF upTo, top
  <2> QED  BY <2>1, <2>4, <2>5, <2>6
<1> QED  BY <1>1, <1>2

Marked(d) == d.page.title.mark \in StaleSuffix

(* The document that survives: of the unmarked ones, if there are any, the  *)
(* newest of the highest title version of the highest version.              *)
Survivor(docs, i) ==
  LET tops(S, f(_)) == {x \in S : \A y \in S : f(docs[y]) <= f(docs[x])}
      unmarked == {x \in DOMAIN docs : ~Marked(docs[x])}
      eligible == IF unmarked # {} THEN unmarked ELSE DOMAIN docs
      highest == tops(tops(eligible, VersionOf), LAMBDA d : d.page.title.version)
      newest == tops(highest, LAMBDA d : d.page.modified)
  IN i \in newest /\ \A j \in newest : i <= j

LEMMA SomeSurvivor ==
  ASSUME AnalysisAssumption, NEW docs \in Seq([id : Page, page : Contents]), docs # <<>>
  PROVE  \E i \in DOMAIN docs : Survivor(docs, i)
<1> DEFINE unmarked == {x \in DOMAIN docs : ~Marked(docs[x])}
           E == IF unmarked # {} THEN unmarked ELSE DOMAIN docs
           f == [x \in DOMAIN docs |-> VersionOf(docs[x])]
           g == [x \in DOMAIN docs |-> docs[x].page.title.version]
           h == [x \in DOMAIN docs |-> docs[x].page.modified]
           F == {x \in E : \A y \in E : f[y] <= f[x]}
           G == {x \in F : \A y \in F : g[y] <= g[x]}
           H == {x \in G : \A y \in G : h[y] <= h[x]}
<1>1. Len(docs) \in Nat /\ DOMAIN docs = 1..Len(docs) /\ E \subseteq DOMAIN docs /\ E # {}
  OBVIOUS
<1>2. ASSUME NEW x \in DOMAIN docs
      PROVE  f[x] \in Nat /\ g[x] \in Nat /\ h[x] \in Nat
  <2>1. docs[x].page \in Content
    <3>1. docs[x] \in [id : Page, page : Contents]
      BY ElementsOf
    <3> QED  BY <3>1 DEF AnalysisAssumption
  <2>2. /\ docs[x].page.title.version \in Nat /\ docs[x].page.body.version \in Nat
        /\ docs[x].page.modified \in Nat
    BY <2>1 DEF Content, Title, Body
  <2> QED  BY <2>2 DEF VersionOf
<1> HIDE DEF E, f, g, h
<1>3. F # {} /\ F \subseteq E
  <2>1. \E x \in E : \A y \in E : f[y] <= f[x]
    BY <1>1, <1>2, HighestOf
  <2> QED  BY <2>1
<1> HIDE DEF F
<1>4. G # {} /\ G \subseteq F
  <2>1. \E x \in F : \A y \in F : g[y] <= g[x]
    BY <1>1, <1>2, <1>3, HighestOf
  <2> QED  BY <2>1
<1> HIDE DEF G
<1>5. H # {} /\ H \subseteq G
  <2>1. \E x \in G : \A y \in G : h[y] <= h[x]
    BY <1>1, <1>2, <1>3, <1>4, HighestOf
  <2> QED  BY <2>1
<1> HIDE DEF H
<1>6. PICK i \in H : \A j \in H : i <= j
  <2>1. H \subseteq Nat
    BY <1>1, <1>3, <1>4, <1>5
  <2> QED  BY <1>5, <2>1, LeastElement
<1>7. i \in DOMAIN docs
  BY <1>1, <1>3, <1>4, <1>5
<1>8. Survivor(docs, i)
  <2>1. F = {x \in E : \A y \in E : VersionOf(docs[y]) <= VersionOf(docs[x])}
    BY <1>1 DEF F, f
  <2>2. G = {x \in F : \A y \in F : docs[y].page.title.version <= docs[x].page.title.version}
    BY <1>1, <1>3 DEF G, g
  <2>3. H = {x \in G : \A y \in G : docs[y].page.modified <= docs[x].page.modified}
    BY <1>1, <1>3, <1>4 DEF H, h
  <2> QED  BY <1>6, <2>1, <2>2, <2>3 DEF Survivor, E
<1> QED  BY <1>7, <1>8

(* What is said of the survivor, position by position.                      *)
LEMMA SurvivorRanks ==
  ASSUME AnalysisAssumption, NEW docs \in Seq([id : Page, page : Contents]),
         NEW i \in DOMAIN docs, Survivor(docs, i), NEW j \in DOMAIN docs,
         Marked(docs[i]) \/ ~Marked(docs[j])
  PROVE  LET a == docs[i].page b == docs[j].page
         IN /\ VersionOf(docs[j]) <= VersionOf(docs[i])
            /\ VersionOf(docs[j]) = VersionOf(docs[i]) =>
                 /\ b.title.version <= a.title.version
                 /\ b.title.version = a.title.version =>
                      b.modified < a.modified \/ (b.modified = a.modified /\ i <= j)
<1> DEFINE unmarked == {x \in DOMAIN docs : ~Marked(docs[x])}
           E == IF unmarked # {} THEN unmarked ELSE DOMAIN docs
           F == {x \in E : \A y \in E : VersionOf(docs[y]) <= VersionOf(docs[x])}
           G == {x \in F : \A y \in F : docs[y].page.title.version <= docs[x].page.title.version}
           H == {x \in G : \A y \in G : docs[y].page.modified <= docs[x].page.modified}
<1>1. i \in H /\ \A k \in H : i <= k
  BY DEF Survivor
<1>2. ASSUME NEW x \in DOMAIN docs
      PROVE  /\ docs[x].page.title.version \in Nat /\ docs[x].page.modified \in Nat
             /\ VersionOf(docs[x]) \in Nat
  <2>1. docs[x].page \in Content
    <3>1. docs[x] \in [id : Page, page : Contents]
      BY ElementsOf
    <3> QED  BY <3>1 DEF AnalysisAssumption
  <2>2. /\ docs[x].page.title.version \in Nat /\ docs[x].page.body.version \in Nat
        /\ docs[x].page.modified \in Nat
    BY <2>1 DEF Content, Title, Body
  <2> QED  BY <2>2 DEF VersionOf
<1>3. i \in G /\ i \in F /\ i \in E
  BY <1>1
<1>4. j \in E
  <2>1. ~Marked(docs[i]) => unmarked # {}
    OBVIOUS
  <2>2. unmarked # {} => i \in unmarked
    BY <1>3
  <2> QED  BY <2>1, <2>2
<1> HIDE DEF E
<1>5. VersionOf(docs[j]) <= VersionOf(docs[i])
  BY <1>3, <1>4
<1>6. ASSUME VersionOf(docs[j]) = VersionOf(docs[i])  PROVE j \in F
  BY <1>3, <1>4, <1>6
<1> HIDE DEF F
<1>7. ASSUME j \in F
      PROVE  docs[j].page.title.version <= docs[i].page.title.version
  BY <1>3, <1>7
<1>8. ASSUME j \in F, docs[j].page.title.version = docs[i].page.title.version
      PROVE  j \in G
  BY <1>3, <1>8
<1> HIDE DEF G
<1>9. ASSUME j \in G, ~(docs[j].page.modified < docs[i].page.modified)
      PROVE  docs[j].page.modified = docs[i].page.modified /\ i <= j
  <2>1. docs[j].page.modified = docs[i].page.modified
    BY <1>1, <1>2, <1>9
  <2>2. j \in H
    BY <1>1, <1>9, <2>1
  <2> HIDE DEF H
  <2> QED  BY <1>1, <2>1, <2>2
<1> QED  BY <1>5, <1>6, <1>7, <1>8, <1>9

(* No rule that compares pages condemns the survivor of documents with      *)
(* different ids, no two of which are at odds.                              *)
LEMMA SurvivorIsSpared ==
  ASSUME AnalysisAssumption, NEW docs \in Seq([id : Page, page : Contents]),
         \A k, l \in DOMAIN docs : docs[k].id = docs[l].id => k = l,
         \A k, l \in DOMAIN docs : k # l => ~AtOdds(docs[k], docs[l]),
         NEW i \in DOMAIN docs, Survivor(docs, i)
  PROVE  /\ Originals(docs, i) = {} /\ Successors(docs, i) = {}
         /\ ScanSupersession(docs, docs[i]) = {}
<1> DEFINE a == docs[i]
<1>1. ASSUME NEW x \in DOMAIN docs
      PROVE  /\ docs[x].page.title.version \in Nat /\ docs[x].page.modified \in Nat
             /\ VersionOf(docs[x]) \in Nat /\ x \in Nat
  <2>1. docs[x].page \in Content
    <3>1. docs[x] \in [id : Page, page : Contents]
      BY ElementsOf
    <3> QED  BY <3>1 DEF AnalysisAssumption
  <2>2. /\ docs[x].page.title.version \in Nat /\ docs[x].page.body.version \in Nat
        /\ docs[x].page.modified \in Nat
    BY <2>1 DEF Content, Title, Body
  <2>3. x \in Nat  OBVIOUS
  <2> QED  BY <2>2, <2>3 DEF VersionOf
<1>2. ASSUME NEW j \in DOMAIN docs, j # i, Marked(docs[j]), ~Marked(a),
             docs[j].page.title.base = a.page.title.base
      PROVE  /\ ~(VersionOf(a) \in 1..(VersionOf(docs[j]) - 1))
             /\ ~(/\ a.page.title.version \in 1..(docs[j].page.title.version - 1)
                  /\ IsYear(docs[j].page.title.version) <=> IsYear(a.page.title.version))
  BY <1>2 DEF AtOdds, Marked
<1>3. Originals(docs, i) = {}
  <2> DEFINE beats(k, j) == \/ docs[k].page.modified > docs[j].page.modified
                            \/ docs[k].page.modified = docs[j].page.modified /\ k < j
             T == Twins(docs, i)
  <2>1. T \subseteq DOMAIN docs /\ i \in T
    BY DEF Twins
  <2>2. ASSUME NEW j \in T \ {i}  PROVE beats(i, j)
    <3>1. j \in DOMAIN docs /\ docs[j].page.body = a.page.body /\ j # i
      BY <2>1 DEF Twins
    <3>2. docs[j].page.title.version = a.page.title.version /\ (Marked(docs[j]) <=> Marked(a))
      BY <3>1 DEF AtOdds, Marked
    <3>3. VersionOf(docs[j]) = VersionOf(a)
      BY <3>1, <3>2 DEF VersionOf
    <3>4. \/ docs[j].page.modified < a.page.modified
          \/ docs[j].page.modified = a.page.modified /\ i <= j
      BY <3>1, <3>2, <3>3, SurvivorRanks
    <3> QED  BY <1>1, <3>1, <3>4
  <2>3. \A j \in T \ {i} : ~beats(j, i)
    BY <1>1, <2>1, <2>2
  <2> HIDE DEF beats, T
  <2>4. Newest(docs, T) = CHOOSE k \in T : \A j \in T \ {k} : beats(k, j)
    BY DEF Newest, beats
  <2>5. \A k \in T : (\A j \in T \ {k} : beats(k, j)) => k = i
    BY <2>1, <2>3
  <2>6. Newest(docs, T) = i
    BY <2>1, <2>2, <2>4, <2>5
  <2> QED  BY <2>6 DEF Originals, T
<1>4. Successors(docs, i) = {}
  <2> SUFFICES ASSUME NEW j \in Successors(docs, i)  PROVE FALSE
    OBVIOUS
  <2>1. /\ j \in DOMAIN docs /\ docs[j].page.title.base = a.page.title.base
        /\ VersionOf(a) > 0 /\ VersionOf(a) < VersionOf(docs[j])
    BY DEF Successors, Leader, Versioned
  <2>2. j # i
    BY <1>1, <2>1
  <2>3. CASE Marked(a) \/ ~Marked(docs[j])
    <3>1. VersionOf(docs[j]) <= VersionOf(a)
      BY <2>1, <2>3, SurvivorRanks
    <3> QED  BY <1>1, <2>1, <3>1
  <2>4. CASE ~Marked(a) /\ Marked(docs[j])
    <3>1. VersionOf(a) \in 1..(VersionOf(docs[j]) - 1)
      BY <1>1, <2>1
    <3> QED  BY <1>2, <2>1, <2>2, <2>4, <3>1
  <2> QED  BY <2>3, <2>4
<1>5. ScanSupersession(docs, a) = {}
  <2>1. ASSUME NEW e \in Siblings(docs, a)
        PROVE  \E j \in DOMAIN docs :
                 e = docs[j] /\ j # i /\ docs[j].page.title.base = a.page.title.base
    BY <2>1 DEF Siblings, BaseTitled, Others
  <2>2. ASSUME Marked(a), NEW e \in Siblings(docs, a)  PROVE FALSE
    <3>1. PICK j \in DOMAIN docs :
            e = docs[j] /\ j # i /\ docs[j].page.title.base = a.page.title.base
      BY <2>1, <2>2
    <3>2. ~Marked(docs[j])
      BY <2>2, <3>1 DEF AtOdds, Marked
    <3> QED  BY <2>2, <3>1, <3>2 DEF Survivor
  <2>3. ASSUME ~Marked(a), NEW e \in Siblings(docs, a),
               a.page.title.version > 0, e.page.title.version > a.page.title.version,
               IsYear(a.page.title.version) <=> IsYear(e.page.title.version)
        PROVE  FALSE
    <3>1. PICK j \in DOMAIN docs :
            e = docs[j] /\ j # i /\ docs[j].page.title.base = a.page.title.base
      BY <2>1, <2>3
    <3>2. a.page.title.version \in 1..(docs[j].page.title.version - 1)
      BY <1>1, <2>3, <3>1
    <3>3. ~Marked(docs[j])
      BY <1>2, <2>3, <3>1, <3>2
    <3>4. ~(VersionOf(docs[j]) < VersionOf(a))
      BY <2>3, <3>1, <3>2 DEF AtOdds
    <3>5. /\ VersionOf(docs[j]) <= VersionOf(a)
          /\ VersionOf(docs[j]) = VersionOf(a) => docs[j].page.title.version <= a.page.title.version
      BY <3>3, SurvivorRanks
    <3> QED  BY <1>1, <2>3, <3>1, <3>4, <3>5
  <2> QED  BY <2>2, <2>3 DEF ScanSupersession, Marked
<1> QED  BY <1>3, <1>4, <1>5

-------------------------------------------------------------------------------
(* The types of the state; the signals are those of the documents.          *)

AnalyzedInv ==
  /\ phase \notin {"idle", "fetch"} =>
       \E dead \in SUBSET Page : signals = Signals(documents, dead)
  /\ \A p \in skipped : latest[p] # None

TypesInv == TypeOK /\ AnalyzedInv

LEMMA YieldedTypes ==
  ASSUME TypesInv, StoreInv, NEW p \in Page, phase = "fetch", site[p] # None, Yielded(p),
         UNCHANGED <<site, latest, phase, signals, verdicts, changes>>,
         repeats' \in Nat, changes + repeats' <= MaxUpsets
  PROVE  TypesInv'
<1> USE DEF TypesInv, TypeOK, AnalyzedInv, StoreInv
<1>1. stored' = [stored EXCEPT ![p] = site[p]]
  BY DEF Yielded
<1>2. stored' \in [Page -> Contents \cup {None}]
  BY <1>1
<1>3. {q \in Page : stored'[q] # None} = {q \in Page : stored[q] # None} \cup {p}
  BY <1>1
<1>4. Ids(documents') \cup skipped' = Ids(documents) \cup skipped \cup {p}
  <2>1. CASE Unchanged(p)
    BY <2>1 DEF Yielded
  <2>2. CASE ~Unchanged(p)
    <3> DEFINE new == [id |-> p, page |-> site[p]]
    <3>1. documents' = Append(documents, new) /\ skipped' = skipped
      BY <2>2 DEF Yielded
    <3>2. /\ DOMAIN documents' = DOMAIN documents \cup {Len(documents) + 1}
          /\ documents'[Len(documents) + 1] = new
          /\ \A i \in DOMAIN documents : documents'[i] = documents[i]
      BY <3>1
    <3>3. new.id = p
      OBVIOUS
    <3> HIDE DEF new
    <3>4. Ids(documents') = Ids(documents) \cup {p}
      BY <3>2, <3>3 DEF Ids
    <3> QED  BY <3>1, <3>4
  <2> QED  BY <2>1, <2>2
<1>5. \A q \in skipped' : latest'[q] # None
  BY DEF Yielded, Unchanged
<1>6. Ids(documents') \cup skipped' = {q \in Page : stored'[q] # None}
  BY <1>3, <1>4
<1> QED  BY <1>2, <1>5, <1>6

LEMMA OverTypes ==
  ASSUME TypesInv, Over,
         \A p \in Page : latest'[p] # None =>
           /\ latest'[p].page \in Contents /\ latest'[p].judged \in Contents
           /\ latest'[p].verdict \in VerdictRecord
  PROVE  TypesInv'
<1>1. Ids(<<>>) = {}
  BY DEF Ids
<1> QED  BY <1>1 DEF Over, TypesInv, TypeOK, AnalyzedInv

LEMMA CompleteTypes ==
  ASSUME AnalysisAssumption, TypesInv, StoreInv, Complete
  PROVE  TypesInv'
<1> USE DEF TypesInv, TypeOK, AnalyzedInv
<1>1. /\ DOMAIN verdicts = Ids(documents)
      /\ \A p \in DOMAIN verdicts : verdicts[p] \in VerdictRecord
  <2>1. CASE phase = "assessed"
    BY <2>1
  <2>2. CASE phase = "fetch" /\ documents = <<>>
    BY <2>2 DEF Nothing, Ids
  <2> QED  BY <2>1, <2>2 DEF Complete, Exhausted
<1>2. \A p \in Ids(documents) : Doc(documents, p).page \in Contents
  BY ClassifiedTypes DEF StoreInv
<1>3. \A p \in Ids(documents) \cup skipped : stored[p] \in Contents
  OBVIOUS
<1>4. ASSUME NEW p \in Page, latest'[p] # None
      PROVE  /\ latest'[p].page \in Contents /\ latest'[p].judged \in Contents
             /\ latest'[p].verdict \in VerdictRecord
  <2>1. CASE p \in DOMAIN verdicts
    <3>1. latest'[p] = [page |-> stored[p], judged |-> Doc(documents, p).page,
                        verdict |-> verdicts[p]]
      BY <2>1 DEF Complete
    <3> QED  BY <1>1, <1>2, <1>3, <2>1, <3>1
  <2>2. CASE p \in skipped \ DOMAIN verdicts
    <3>1. latest'[p] = [page |-> stored[p], judged |-> latest[p].judged,
                        verdict |-> latest[p].verdict]
      BY <2>2 DEF Complete
    <3> QED  BY <1>3, <2>2, <3>1
  <2>3. CASE p \notin skipped \cup DOMAIN verdicts
    BY <1>4, <2>3 DEF Complete
  <2> QED  BY <2>1, <2>2, <2>3
<1> QED  BY <1>4, OverTypes DEF Complete

(* A pass finds the verdicts of the documents, and leaves verdicts of them. *)
LEMMA CorrectTypes ==
  ASSUME TypesInv, NEW from \in {"classified", "downgraded", "promoted"},
         NEW to \in {"downgraded", "promoted", "assessed"}, NEW corrected,
         Correct(from, to, corrected),
         verdicts \in [Ids(documents) -> VerdictRecord] =>
           corrected \in [Ids(documents) -> VerdictRecord]
  PROVE  TypesInv'
BY DEF Correct, TypesInv, TypeOK, AnalyzedInv

LEMMA TypesStand == Spec => []TypesInv
<1>1. Init => TypesInv
  <2>1. Ids(<<>>) = {}
    BY DEF Ids
  <2> QED  BY <2>1, AnalysisAssumption DEF Init, TypesInv, TypeOK, AnalyzedInv, AnalysisAssumption
<1>2. TypesInv /\ StoreInv /\ [Next]_vars => TypesInv'
  <2> SUFFICES ASSUME TypesInv, StoreInv, [Next]_vars  PROVE TypesInv'
    OBVIOUS
  <2> USE AnalysisAssumption DEF AnalysisAssumption
  <2>0. changes \in Nat /\ repeats \in Nat
    BY DEF TypesInv, TypeOK
  <2>1. ASSUME NEW p \in Page, Change(p)  PROVE TypesInv'
    <3>1. changes' \in Nat /\ changes' + repeats <= MaxUpsets
      BY <2>0, <2>1 DEF Change
    <3>2. site' \in [Page -> Contents \cup {None}]
      BY <2>1 DEF Change, TypesInv, TypeOK
    <3> QED  BY <2>1, <3>1, <3>2 DEF Change, TypesInv, TypeOK, AnalyzedInv
  <2>2. ASSUME NEW p \in Page, Fetch(p)  PROVE TypesInv'
    <3>1. repeats' \in Nat /\ changes + repeats' <= MaxUpsets
      BY <2>2 DEF Fetch, TypesInv, TypeOK
    <3> QED  BY <2>2, <3>1, YieldedTypes DEF Fetch
  <2>3. ASSUME NEW p \in Page, FetchAgain(p)  PROVE TypesInv'
    <3>1. repeats' \in Nat /\ changes + repeats' <= MaxUpsets
      BY <2>0, <2>3 DEF FetchAgain
    <3> QED  BY <2>3, <3>1, YieldedTypes DEF FetchAgain
  <2>4. CASE Start  BY <2>4 DEF Start, TypesInv, TypeOK, AnalyzedInv
  <2>5. CASE Analyze
    <3>1. /\ phase' = "classified"
          /\ \E dead \in SUBSET Ids(documents) : signals' = Signals(documents, dead)
          /\ verdicts' = Classified(documents, signals')
          /\ UNCHANGED <<site, latest, stored, documents, skipped, changes, repeats>>
      BY <2>5 DEF Analyze
    <3>2. Ids(documents) \subseteq Page
      BY DEF TypesInv, TypeOK
    <3>3. \E dead \in SUBSET Page : signals' = Signals(documents, dead)
      BY <3>1, <3>2
    <3>4. verdicts' \in [Ids(documents) -> VerdictRecord]
      BY <3>1, ClassifiedTypes DEF StoreInv
    <3> QED  BY <3>1, <3>3, <3>4 DEF TypesInv, TypeOK, AnalyzedInv
  <2>6. CASE Downgrade
    <3>1. verdicts \in [Ids(documents) -> VerdictRecord] =>
            Downgraded(documents, signals, verdicts) \in [Ids(documents) -> VerdictRecord]
      BY PassesKeepTypes
    <3> QED  BY <2>6, <3>1, CorrectTypes DEF Downgrade
  <2>7. CASE Promote
    <3>1. verdicts \in [Ids(documents) -> VerdictRecord] =>
            Promoted(documents, signals, verdicts) \in [Ids(documents) -> VerdictRecord]
      BY PassesKeepTypes
    <3> QED  BY <2>7, <3>1, CorrectTypes DEF Promote
  <2>8. CASE Assess
    <3>1. verdicts \in [Ids(documents) -> VerdictRecord] =>
            Assessed(documents, signals, verdicts) \in [Ids(documents) -> VerdictRecord]
      BY PassesKeepTypes
    <3> QED  BY <2>8, <3>1, CorrectTypes DEF Assess
  <2>9. CASE Complete  BY <2>9, CompleteTypes
  <2>10. CASE Fail
    <3>1. UNCHANGED latest /\ Over
      BY <2>10 DEF Fail
    <3> QED  BY <3>1, OverTypes DEF TypesInv, TypeOK
  <2>11. CASE UNCHANGED vars  BY <2>11 DEF vars, TypesInv, TypeOK, AnalyzedInv
  <2> QED
    BY <2>1, <2>2, <2>3, <2>4, <2>5, <2>6, <2>7, <2>8, <2>9, <2>10, <2>11 DEF Next
<1> QED  BY <1>1, <1>2, StoreStands, PTL DEF Spec

(* Every variable keeps its type: each page fetched is stored, whether its  *)
(* body is skipped or judged, and the verdicts are of those judged.         *)
THEOREM TypeCorrect == Spec => []TypeOK
<1>1. TypesInv => TypeOK  BY DEF TypesInv
<1> QED  BY <1>1, TypesStand, PTL

(* A page under review that no human is asked to look at has nothing        *)
(* against it but an old review date, and nothing vouches for it.           *)
THEOREM SilentReviewsAreOnlyOldAlways == Spec => []SilentReviewsAreOnlyOld
<1>1. PassesInv /\ StoreInv /\ TypesInv => SilentReviewsAreOnlyOld
  <2> SUFFICES ASSUME PassesInv, StoreInv, TypesInv, NEW p \in With("needs_review"),
                      ~verdicts[p].audit
               PROVE  verdicts[p].risks = {"last_reviewed"} /\ TrustIn(p) = {}
    BY DEF SilentReviewsAreOnlyOld
  <2>1. /\ verdicts = Outcome(documents, signals) /\ p \in Ids(documents)
        /\ verdicts[p].status = "needs_review"
    BY OutcomeDomain DEF With, Judged, PassesInv
  <2>2. PICK dead : signals = Signals(documents, dead)
    BY DEF With, Judged, TypesInv, AnalyzedInv
  <2>3. documents \in Seq([id : Page, page : Contents])
    BY DEF StoreInv
  <2> QED  BY <2>1, <2>2, <2>3, AnalysisAssumption, ReviewedInOutcome DEF TrustIn
<1> QED  BY <1>1, PassesInOrder, StoreStands, TypesStand, PTL

(* A page whose lifecycle disowns it is audited, but for one whose title    *)
(* alone disowns it and which strong evidence keeps current.                *)
THEOREM DisownedPagesAreAuditedAlways == Spec => []DisownedPagesAreAudited
<1>1. PassesInv /\ StoreInv /\ TypesInv => DisownedPagesAreAudited
  <2> SUFFICES ASSUME PassesInv, StoreInv, TypesInv, NEW p \in Judged,
                      verdicts[p].lifecycle \in Negative \cup Tentative
               PROVE  \/ verdicts[p].audit
                      \/ /\ verdicts[p].status = "current" /\ verdicts[p].lifecycle = "deprecated"
                         /\ SelfDisowned(Doc(documents, p).page.title)
                         /\ Siblings(documents, Doc(documents, p)) = {}
    BY DEF DisownedPagesAreAudited, SelfDisowned
  <2>1. verdicts = Outcome(documents, signals) /\ p \in Ids(documents)
    BY OutcomeDomain DEF Judged, PassesInv
  <2>0. PICK dead : signals = Signals(documents, dead)
    BY DEF Judged, TypesInv, AnalyzedInv
  <2> DEFINE v == Outcome(documents, signals)[p]
             d == Doc(documents, p)
  <2>2. v.lifecycle \in Negative \cup Tentative =>
          \/ v.audit
          \/ /\ v.status = "current" /\ v.lifecycle = "deprecated"
             /\ SelfDisowned(d.page.title) /\ Siblings(documents, d) = {}
    <3>1. documents \in Seq([id : Page, page : Contents])
      BY DEF StoreInv
    <3> QED  BY <2>0, <2>1, <3>1, AnalysisAssumption, ReviewedInOutcome
  <2> HIDE DEF d
  <2> QED  BY <2>1, <2>2 DEF d
<1> QED  BY <1>1, PassesInOrder, StoreStands, TypesStand, PTL

LEMMA DistinctIds ==
  ASSUME NEW S, NEW docs \in Seq(S), ~(Cardinality(Ids(docs)) < Len(docs))
  PROVE  \A k, l \in DOMAIN docs : docs[k].id = docs[l].id => k = l
<1> DEFINE f == [i \in 1..Len(docs) |-> docs[i].id]
<1>1. IsFiniteSet(1..Len(docs)) /\ Cardinality(1..Len(docs)) = Len(docs) /\ Len(docs) \in Nat
  BY FS_Interval
<1>2. f \in Surjection(1..Len(docs), Ids(docs))
  BY DEF Surjection, Ids
<1>3. /\ IsFiniteSet(Ids(docs)) /\ Cardinality(Ids(docs)) <= Len(docs)
      /\ Cardinality(Ids(docs)) = Len(docs) => f \in Injection(1..Len(docs), Ids(docs))
  BY <1>1, <1>2, FS_Surjection
<1>4. f \in Injection(1..Len(docs), Ids(docs))
  BY <1>1, <1>3, FS_CardinalityType
<1>5. \A k, l \in 1..Len(docs) : f[k] = f[l] => k = l
  BY <1>4 DEF Injection, IsInjective
<1> QED  BY <1>5

(* A scan all of whose pages are stale by comparison alone holds two        *)
(* documents whose comparisons are at odds, or a page yielded twice.        *)
THEOREM SomePageSurvivesAlways == Spec => []SomePageSurvives
<1>1. PassesInv /\ StoreInv /\ TypesInv => SomePageSurvives
  <2> DEFINE condemned(p) ==
        /\ verdicts[p].status = "stale"
        /\ verdicts[p].risks \subseteq {"duplicate", "version_marker", "suffix", "inferred"}
  <2> SUFFICES ASSUME PassesInv, StoreInv, TypesInv, Judged # {},
                      \A p \in Judged : condemned(p), ~(Cardinality(Judged) < Len(documents)),
                      \A k, l \in DOMAIN documents :
                        k # l => ~AtOdds(documents[k], documents[l])
               PROVE  FALSE
    BY DEF SomePageSurvives
  <2>1. /\ verdicts = Outcome(documents, signals) /\ Judged = Ids(documents)
        /\ documents \in Seq([id : Page, page : Contents])
    BY OutcomeDomain DEF Judged, PassesInv, StoreInv
  <2>2. PICK dead : signals = Signals(documents, dead)
    BY DEF TypesInv, AnalyzedInv, Judged
  <2>3. \A k, l \in DOMAIN documents : documents[k].id = documents[l].id => k = l
    BY <2>1, DistinctIds
  <2>4. documents # <<>>
    BY <2>1 DEF Ids
  <2>5. PICK i \in DOMAIN documents : Survivor(documents, i)
    BY <2>1, <2>4, AnalysisAssumption, SomeSurvivor
  <2>6. /\ Originals(documents, i) = {} /\ Successors(documents, i) = {}
        /\ ScanSupersession(documents, documents[i]) = {}
    BY <2>1, <2>3, <2>5, AnalysisAssumption, SurvivorIsSpared
  <2> DEFINE p == documents[i].id
  <2>7. p \in Ids(documents) /\ ById(documents, p) = {i}
    BY <2>3 DEF Ids, ById
  <2>8. Doc(documents, p) = documents[i]
    BY <2>1, <2>3, <2>7, DocIsOne
  <2>9. signals[p] = SignalsOf(documents, p, dead)
    BY <2>2, <2>7 DEF Signals
  <2> HIDE DEF p
  <2> DEFINE risks == verdicts[p].risks
  <2>10. /\ risks # {}
         /\ risks \subseteq StaleEvidence(documents[i], SignalsOf(documents, p, dead))
                              \cup ScanSupersession(documents, documents[i])
    BY <2>1, <2>7, <2>8, <2>9, AnalysisAssumption, StaleInOutcome
  <2>11. risks \subseteq {"duplicate", "version_marker", "suffix", "inferred"}
    BY <2>1, <2>7
  <2> HIDE DEF risks
  <2> QED  BY <2>6, <2>7, <2>10, <2>11, CondemnedByComparison
<1> QED  BY <1>1, PassesInOrder, StoreStands, TypesStand, PTL
===============================================================================
