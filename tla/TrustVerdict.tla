----------------------------- MODULE TrustVerdict -----------------------------
(***************************************************************************)
(* The trust classifier: what classify() makes of one document, its        *)
(* signals, its incoming references and the other documents of the scan,   *)
(* and whether the outcome asks for a human audit.  Reasons are kept as    *)
(* their kinds; confidence and wording are left out.                       *)
(***************************************************************************)
EXTENDS PageSignals

Status == {"current", "stale", "needs_review", "unknown"}
Negative == {"deprecated", "superseded", "archived"}
Tentative == {"experimental", "draft"}
Lifecycle == Negative \cup Tentative \cup {"current", "supported", "unknown"}

StaleSignal == {"duplicate", "version_marker", "version_ref", "replacement_link"}
HardSignal ==
  {"unresolved_reference", "ambiguous_reference", "broken_link", "near_duplicate",
   "broken_internal_link", "ambiguous_internal_link", "age_critical"}

Types(signals) == {s.type : s \in signals}

-------------------------------------------------------------------------------
(* Evidence                                                                 *)

(* Two scopes that give the same dimension different values.                *)
ScopesCoexist(a, b) == a # "none" /\ b # "none" /\ a # b

(* A marked title with any sibling; else a year older than a sibling's, or  *)
(* a version older than a sibling's, unless their scopes coexist.           *)
ScanSupersession(docs, d) ==
  LET t == d.page.title
      siblings == Siblings(docs, d)
      newer(e) ==
        /\ t.version > 0 /\ e.page.title.version > t.version
        /\ IsYear(t.version) <=> IsYear(e.page.title.version)
        /\ ~ScopesCoexist(d.page.body.scope, e.page.body.scope)
  IN CASE t.mark \in StaleSuffix /\ siblings # {} -> {"suffix"}
       [] t.mark \notin StaleSuffix /\ (\E e \in siblings : newer(e)) -> {"inferred"}
       [] OTHER -> {}

StaleEvidence(d, signals) ==
  LET b == d.page.body
  IN (Types(signals) \cap StaleSignal)
       \cup (IF b.status \in Negative THEN {"status"} ELSE {})
       \cup (IF b.phrase # "none" THEN {"phrase"} ELSE {})
       \cup (IF b.replacedBy THEN {"replaced_by"} ELSE {})
       \cup (IF b.deprecatedAsOf THEN {"deprecated_as_of"} ELSE {})
       \cup (IF d.page.archived THEN {"archived"} ELSE {})

(* Only strong evidence: supporting evidence alone counts for nothing.      *)
TrustEvidence(d, incoming) ==
  (IF incoming >= 2 THEN {"referenced"} ELSE {})
    \cup (IF d.page.body.status = "current" THEN {"status"} ELSE {})
    \cup (IF d.page.body.canonical THEN {"canonical"} ELSE {})

SoftRisk(d) ==
  (IF d.page.reviewed = "old" THEN {"last_reviewed"} ELSE {})
    \cup (IF d.page.reviewed # "never" /\ d.page.overdue THEN {"cadence"} ELSE {})

-------------------------------------------------------------------------------
(* Lifecycle: the first clue that applies.  Words are looked for in whole   *)
(* reasons, so those of a quoted title count; which of two quoted words     *)
(* comes first is left out.                                                 *)

LifecycleOf(docs, d, stale) ==
  LET b == d.page.body
      mark == d.page.title.mark
      quoted(word) == \E t \in QuotedTitles(docs, d.id) : t.mark = word
      clues ==
        << <<d.page.archived, "archived">>,
           <<b.replacedBy, "superseded">>,
           <<b.deprecatedAsOf, "deprecated">>,
           <<b.status \in Negative, b.status>>,
           <<quoted("deprecated"), "deprecated">>,
           <<quoted("archived"), "archived">>,
           <<b.phrase \in Negative, b.phrase>>,
           <<mark \in {"old", "deprecated"}, "deprecated">>,
           <<mark = "draft", "draft">>,
           <<mark = "beta", "experimental">>,
           <<b.notice # "none", b.notice>>,
           <<b.status \notin {"none", "other"}, b.status>>,
           <<b.canonical, "current">>,
           <<b.appliesTo, "supported">>,
           <<stale \cap {"suffix", "inferred"} # {}, "superseded">> >>
      first == SelectInSeq(clues, LAMBDA clue : clue[1])
  IN IF first = 0 THEN "unknown" ELSE clues[first][2]

(* The suffix reason of a title counts as cautionary if "(draft)" is found  *)
(* in it, and it quotes the suffix of the title and the title of the first  *)
(* sibling, in the order in which the ids were fetched.                     *)
SuffixSaysDraft(docs, d) ==
  LET siblings == Siblings(docs, d)
      before(e, f) == \E i \in ById(docs, e.id) : \A j \in ById(docs, f.id) : i < j
  IN \/ d.page.title.mark = "draft"
     \/ \E e \in siblings :
          e.page.title.mark = "draft" /\ \A f \in siblings \ {e} : before(e, f)

(* What the lifecycle changes in the inputs of the ladder: the stale        *)
(* reasons that stay, a review risk of its own, and whether it contradicts  *)
(* the evidence.                                                            *)
Policy(docs, d, lifecycle, stale, trust) ==
  LET explicit == stale \ {"inferred"}
      cautionary == IF SuffixSaysDraft(docs, d) THEN {"suffix"} ELSE {}
      outcome(left, risk, contradicts) ==
        [stale |-> left, risk |-> IF risk THEN {"lifecycle"} ELSE {}, contradicts |-> contradicts]
  IN CASE lifecycle \in Negative -> outcome(stale, FALSE, trust # {})
       [] lifecycle \in Tentative -> outcome(explicit \ cautionary, explicit \ cautionary = {}, FALSE)
       [] lifecycle = "supported" -> outcome(explicit, FALSE, explicit # stale)
       [] lifecycle = "current" -> outcome(explicit, stale # {} /\ explicit = {}, FALSE)
       [] OTHER -> outcome(stale, FALSE, FALSE)

-------------------------------------------------------------------------------
(* The verdict: status, lifecycle, the review risks kept as evidence, and   *)
(* whether an audit is asked for, which is decided last.                    *)

Verdict(status, lifecycle, risks) ==
  [status |-> status, lifecycle |-> lifecycle, risks |-> risks, audit |-> FALSE]

(* Mutation: a soft risk does not hold back a trusted page.                 *)
Classify_TrustOutweighs(docs, d, signals, incoming) ==
  LET trust == TrustEvidence(d, incoming)
      all == StaleEvidence(d, signals) \cup ScanSupersession(docs, d)
      lifecycle == LifecycleOf(docs, d, all)
      policy == Policy(docs, d, lifecycle, all, trust)
      hard == (Types(signals) \cap HardSignal) \cup policy.risk
      soft == SoftRisk(d)
  IN IF policy.stale # {}
     THEN Verdict(IF trust # {} \/ policy.contradicts THEN "needs_review" ELSE "stale",
                  lifecycle, policy.stale)
     ELSE CASE hard # {} -> Verdict("needs_review", lifecycle, hard \cup soft)
            [] hard = {} /\ trust # {} -> Verdict("current", lifecycle, {})
            [] hard = {} /\ trust = {} /\ soft # {} -> Verdict("needs_review", lifecycle, soft)
            [] OTHER -> Verdict("unknown", lifecycle, {})

Classify(docs, d, signals, incoming) ==
  LET trust == TrustEvidence(d, incoming)
      all == StaleEvidence(d, signals) \cup ScanSupersession(docs, d)
      lifecycle == LifecycleOf(docs, d, all)
      policy == Policy(docs, d, lifecycle, all, trust)
      hard == (Types(signals) \cap HardSignal) \cup policy.risk
      soft == SoftRisk(d)
  IN IF policy.stale # {}
     THEN Verdict(IF trust # {} \/ policy.contradicts THEN "needs_review" ELSE "stale",
                  lifecycle, policy.stale)
     ELSE CASE hard # {} -> Verdict("needs_review", lifecycle, hard \cup soft)
            [] hard = {} /\ trust # {} /\ soft = {} -> Verdict("current", lifecycle, {})
            [] hard = {} /\ soft # {} -> Verdict("needs_review", lifecycle, soft)
            [] OTHER -> Verdict("unknown", lifecycle, {})

-------------------------------------------------------------------------------
(* Actionability                                                            *)

ImportanceThreshold == 2

(* superseded: how many stale documents name this one as what replaces them. *)
Importance(docs, d, lifecycle, incoming, superseded) ==
  LET b == d.page.body
      worth(yes, points) == IF yes THEN points ELSE 0
  IN (CASE incoming >= 5 -> 3 [] incoming \in 2..4 -> 2 [] OTHER -> incoming)
       + worth(b.owner, 1) + worth(b.status # "none", 1) + worth(lifecycle # "unknown", 1)
       + worth(b.canonical, 2) + worth(b.appliesTo, 1)
       + (CASE superseded > 0 -> 2
            [] superseded = 0 /\ Siblings(docs, d) # {} -> 1
            [] OTHER -> 0)

(* Mutation: a score at the threshold is not enough.                        *)
RequiresAudit_AboveThreshold(docs, d, verdict, signals, incoming, superseded) ==
  /\ verdict.status # "current"
  /\ \/ verdict.status = "stale"
     \/ verdict.lifecycle \in Negative \cup Tentative
     \/ Types(signals) \cap (HardSignal \cup {"duplicate"}) # {}
     \/ "cadence" \in verdict.risks
     \/ Importance(docs, d, verdict.lifecycle, incoming, superseded) > ImportanceThreshold

(* Mutation: tentative lifecycles are left to their score.                  *)
RequiresAudit_ScoresDrafts(docs, d, verdict, signals, incoming, superseded) ==
  /\ verdict.status # "current"
  /\ \/ verdict.status = "stale"
     \/ verdict.lifecycle \in Negative
     \/ Types(signals) \cap (HardSignal \cup {"duplicate"}) # {}
     \/ "cadence" \in verdict.risks
     \/ Importance(docs, d, verdict.lifecycle, incoming, superseded) >= ImportanceThreshold

RequiresAudit(docs, d, verdict, signals, incoming, superseded) ==
  /\ verdict.status # "current"
  /\ \/ verdict.status = "stale"
     \/ verdict.lifecycle \in Negative \cup Tentative
     \/ Types(signals) \cap (HardSignal \cup {"duplicate"}) # {}
     \/ "cadence" \in verdict.risks
     \/ Importance(docs, d, verdict.lifecycle, incoming, superseded) >= ImportanceThreshold
===============================================================================
