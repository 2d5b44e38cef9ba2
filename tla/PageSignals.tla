----------------------------- MODULE PageSignals -----------------------------
(***************************************************************************)
(* The documents of a scan and what the analyzers say of them.  A document *)
(* is what a source yields: its id, and the page as it was when fetched.   *)
(* The documents are a sequence, since ties go to the first of two         *)
(* documents and a source may yield one page twice.                        *)
(*                                                                         *)
(* Text is abstracted to what the analyzers and the trust classifier read  *)
(* in it.  The body is all that content_hash covers, so two pages have the *)
(* same hash when their bodies are equal.  Title, modification time,       *)
(* archived flag and structured links lie outside it; so does what today's *)
(* date makes of the "Last reviewed" line, which changes while the text    *)
(* does not.                                                               *)
(***************************************************************************)
EXTENDS Naturals, FiniteSets, Sequences, SequencesExt

CONSTANTS
  Page,   \* document ids
  None

(* A title, parsed by normalize_title: its base, its trailing version or   *)
(* year, 0 when there is none, and its mark: a suffix in parentheses, where *)
(* "old" stands for (old) and (legacy) and "copy" for (copy), (backup) and  *)
(* (obsolete).  "beta" is a word of the base; that any other word of a base *)
(* speaks of a lifecycle, or repeats a phrase of the program's own reasons, *)
(* is left out.                                                             *)
Title == [base : STRING, version : Nat,
          mark : {"none", "old", "deprecated", "archived", "copy", "draft", "beta"}]
StaleSuffix == {"old", "deprecated", "archived", "copy", "draft"}
IsYear(v) == v >= 1900

(* status is the lifecycle its keyword maps to; phrase and notice are what  *)
(* the first matching body phrase says, "instead" for "use X instead";      *)
(* version is the highest version in the first 500 characters; outdated, a  *)
(* mention of a configured product's old version; words are equal for texts *)
(* above the similarity threshold.                                          *)
Body ==
  [status : {"none", "deprecated", "superseded", "archived",
             "current", "supported", "draft", "experimental", "other"},
   phrase : {"none", "superseded", "deprecated", "archived", "instead"},
   notice : {"none", "draft", "experimental"},
   replacedBy : BOOLEAN, deprecatedAsOf : BOOLEAN, canonical : BOOLEAN,
   appliesTo : BOOLEAN, owner : BOOLEAN, scope : {"none", "a", "b"},
   refs : SUBSET Title, version : Nat, outdated : BOOLEAN, url : BOOLEAN, words : STRING]

(* modified: 0 without a date, else the age class: 1 critical, 2 warning,   *)
(* 3 and above fresh, the higher the later.                                 *)
Link == [id : Page \cup {None}, title : Title \cup {None},
         wording : {"plain", "replacement", "backlink"}]
Content ==
  [title : Title, body : Body, modified : Nat, archived : BOOLEAN, links : SUBSET Link,
   reviewed : {"never", "fresh", "fair", "old"}, overdue : BOOLEAN]
Document == [id : Page, page : Content]

(* The positions of the documents other than those of page p.               *)
Others(docs, p) == {i \in DOMAIN docs : docs[i].id # p}
ById(docs, p) == {i \in DOMAIN docs : docs[i].id = p}

Signal(type, to) == [type |-> type, to |-> to]

-------------------------------------------------------------------------------
(* TimestampAnalyzer and VersionRefsAnalyzer                                *)

AgeOf(d) ==
  CASE d.page.modified = 1 -> {Signal("age_critical", None)}
    [] d.page.modified \in {0, 2} -> {Signal("age", None)}
    [] OTHER -> {}

(* The last document of the id that is of an age replaces what the others   *)
(* left; a fresh one replaces nothing.                                      *)
AgeSignals(docs, p) ==
  LET aged == {i \in ById(docs, p) : AgeOf(docs[i]) # {}}
  IN UNION {AgeOf(docs[i]) : i \in {k \in aged : \A j \in aged : j <= k}}

VersionRefSignals(d) == IF d.page.body.outdated THEN {Signal("version_ref", None)} ELSE {}

(* BrokenLinkAnalyzer: dead is the set of pages one of whose URLs answered  *)
(* with an error or refused the connection; a timeout is not one of these.  *)
BrokenLinkSignals(d, dead) ==
  IF d.page.body.url /\ d.id \in dead THEN {Signal("broken_link", None)} ELSE {}

-------------------------------------------------------------------------------
(* SimilarityAnalyzer                                                       *)

(* sort(reverse=True) is stable: the first of the latest.                   *)
Newest(docs, I) ==
  CHOOSE i \in I : \A j \in I \ {i} :
    \/ docs[i].page.modified > docs[j].page.modified
    \/ docs[i].page.modified = docs[j].page.modified /\ i < j

Twins(docs, i) == {j \in DOMAIN docs : docs[j].page.body = docs[i].page.body}

(* Mutation: the newest of a group of duplicates is flagged as well.        *)
Originals_AllFlagged(docs, i) ==
  IF Cardinality(Twins(docs, i)) > 1 THEN {Newest(docs, Twins(docs, i))} ELSE {}

(* The document that i is an exact duplicate of, the newest of its group.   *)
Originals(docs, i) == {Newest(docs, Twins(docs, i))} \ {i}

VersionOf(d) ==
  LET titled == IF IsYear(d.page.title.version) THEN 0 ELSE d.page.title.version
  IN IF titled > d.page.body.version THEN titled ELSE d.page.body.version

Versioned(docs, base) ==
  {i \in DOMAIN docs : docs[i].page.title.base = base /\ VersionOf(docs[i]) > 0}

(* The first document of the highest version under the same base title, for *)
(* a document of a lower version.                                           *)
Leader(docs, i) ==
  LET group == Versioned(docs, docs[i].page.title.base)
      leads(j) == \A k \in group \ {j} :
        \/ VersionOf(docs[j]) > VersionOf(docs[k])
        \/ VersionOf(docs[j]) = VersionOf(docs[k]) /\ j < k
  IN IF i \in group
     THEN {j \in group : leads(j) /\ VersionOf(docs[i]) < VersionOf(docs[j])} ELSE {}

(* The base of document k was met before that of document i.                *)
BaseMetBefore(docs, k, i) ==
  \E m \in Versioned(docs, docs[k].page.title.base) :
    \A n \in Versioned(docs, docs[i].page.title.base) : m < n

(* An id gets the version signal only while it has no signal: neither as a  *)
(* duplicate, nor under another title whose base was met before.            *)
Successors(docs, i) ==
  IF \A k \in ById(docs, docs[i].id) :
       Originals(docs, k) = {} /\ (BaseMetBefore(docs, k, i) => Leader(docs, k) = {})
  THEN Leader(docs, i) ELSE {}

(* Mutation: the later of two similar documents is flagged, whatever their  *)
(* dates.                                                                   *)
Lookalikes_ByPosition(docs, i) ==
  {j \in 1..(i - 1) : /\ docs[j].page.body.words = docs[i].page.body.words
                      /\ docs[j].page.body # docs[i].page.body}

(* Similar documents that i is older than; of two as old, the later in the  *)
(* sequence counts as the older.                                            *)
Lookalikes(docs, i) ==
  LET exact(j) == \E k \in ById(docs, docs[i].id) : \E l \in ById(docs, docs[j].id) \ {k} :
        docs[k].page.body = docs[l].page.body
  IN {j \in DOMAIN docs \ {i} :
        /\ docs[j].page.body.words = docs[i].page.body.words /\ ~exact(j)
        /\ \/ docs[i].page.modified < docs[j].page.modified
           \/ docs[i].page.modified = docs[j].page.modified /\ j < i}

SimilaritySignals(docs, i) ==
  {Signal("duplicate", docs[j].id) : j \in Originals(docs, i)}
    \cup {Signal("version_marker", docs[j].id) : j \in Successors(docs, i)}
    \cup {Signal("near_duplicate", docs[j].id) : j \in Lookalikes(docs, i)}

-------------------------------------------------------------------------------
(* ReferenceAnalyzer and InternalLinkAnalyzer                               *)

Titled(docs, p, t) == {i \in Others(docs, p) : docs[i].page.title = t}
BaseTitled(docs, p, t) == {i \in Others(docs, p) : docs[i].page.title.base = t.base}

(* What a dictionary of titles by id holds: the last document of each id.   *)
Siblings(docs, d) ==
  {docs[i] : i \in {j \in BaseTitled(docs, d.id, d.page.title) :
                      \A k \in ById(docs, docs[j].id) : k <= j}}

(* An exact title, else a base title, of some document but the page itself. *)
Matches(docs, p, t) ==
  IF Titled(docs, p, t) # {} THEN Titled(docs, p, t) ELSE BaseTitled(docs, p, t)

(* One match resolves; the matches are documents, so a page yielded twice   *)
(* matches twice.                                                           *)
Resolved(docs, I, one, many, none) ==
  CASE I = {} -> none
    [] Cardinality(I) = 1 -> {Signal(one, docs[i].id) : i \in I}
    [] OTHER -> {Signal(many, None)}

ReferenceSignals(docs, d) ==
  UNION {Resolved(docs, Matches(docs, d.id, t), "resolved_reference", "ambiguous_reference",
                  {Signal("unresolved_reference", None)}) : t \in d.page.body.refs}

(* By id the last document of that id, and never an ambiguity; url matching *)
(* is left out, and a link with neither id nor title is not internal here.  *)
Candidates(docs, d, l) ==
  IF l.id \notin {None, d.id} /\ ById(docs, l.id) # {}
  THEN {CHOOSE i \in ById(docs, l.id) : \A j \in ById(docs, l.id) : j <= i}
  ELSE IF l.title = None THEN {} ELSE Matches(docs, d.id, l.title)

LinkSignals(docs, d) ==
  LET one(l) == CASE l.wording = "replacement" -> "replacement_link"
                  [] l.wording = "backlink" -> "backlink_from_successor"
                  [] OTHER -> "resolved_internal_link"
      none(l) == IF l.id = None /\ l.title = None THEN {}
                 ELSE {Signal("broken_internal_link", None)}
  IN UNION {Resolved(docs, Candidates(docs, d, l), one(l), "ambiguous_internal_link", none(l))
              : l \in d.page.links}

(* The titles that the reasons of stale signals quote: of what the page is  *)
(* a duplicate or an older version of, and of what it links to as its       *)
(* replacement.                                                             *)
QuotedTitles(docs, p) ==
  LET replacements(d) ==
        UNION {C \in {Candidates(docs, d, l) : l \in {k \in d.page.links : k.wording = "replacement"}} :
                 Cardinality(C) = 1}
      quoted == UNION {Originals(docs, i) \cup Successors(docs, i) \cup replacements(docs[i])
                         : i \in ById(docs, p)}
  IN {docs[i].page.title : i \in quoted}

-------------------------------------------------------------------------------
(* Auditor.run gathers the signals of all analyzers by document id.         *)
SignalsOf(docs, p, dead) ==
  AgeSignals(docs, p) \cup
  UNION {VersionRefSignals(docs[i]) \cup BrokenLinkSignals(docs[i], dead)
           \cup SimilaritySignals(docs, i)
           \cup ReferenceSignals(docs, docs[i]) \cup LinkSignals(docs, docs[i])
         : i \in ById(docs, p)}

(* The documents that resolve to p: by reference or by internal link for    *)
(* the counts of compute_incoming_ref_counts.                               *)
ReferredBy(signals, p, types) ==
  {q \in DOMAIN signals \ {p} : \E t \in types : Signal(t, p) \in signals[q]}
Incoming(signals, p) ==
  Cardinality(ReferredBy(signals, p, {"resolved_reference", "resolved_internal_link"}))
===============================================================================
