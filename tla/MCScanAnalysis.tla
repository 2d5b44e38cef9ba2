---------------------------- MODULE MCScanAnalysis ----------------------------
(* Model-checking instances of ScanAnalysis: pages that bring out each rule *)
(* and each conflict between two of them.                                   *)
EXTENDS ScanAnalysis

CONSTANTS p1, p2, p3

Symmetric == Permutations(Page)

Called(base, version, mark) == [base |-> base, version |-> version, mark |-> mark]
Guide == Called("guide", 0, "none")

Text ==
  [status |-> "none", phrase |-> "none", notice |-> "none", replacedBy |-> FALSE,
   deprecatedAsOf |-> FALSE, canonical |-> FALSE, appliesTo |-> FALSE, owner |-> FALSE,
   scope |-> "none", refs |-> {}, version |-> 0, outdated |-> FALSE, url |-> FALSE,
   words |-> "guide"]

Plain ==
  [title |-> Guide, body |-> Text, modified |-> 3, archived |-> FALSE, links |-> {},
   reviewed |-> "never", overdue |-> FALSE]

LinkTo(title, wording) == [id |-> None, title |-> title, wording |-> wording]

Versions ==
  { Plain,
    [Plain EXCEPT !.modified = 1],
    [Plain EXCEPT !.title = Called("guide", 1, "none"), !.modified = 4],
    [Plain EXCEPT !.title = Called("guide", 2, "none"), !.modified = 2],
    [Plain EXCEPT !.title = Called("guide", 2, "none"), !.body.words = "new", !.modified = 5],
    [Plain EXCEPT !.title = Called("guide", 1, "none"), !.body.words = "next", !.body.version = 3],
    [Plain EXCEPT !.title = Called("guide", 2021, "none"), !.body.words = "sup",
                  !.body.status = "supported", !.body.canonical = TRUE, !.modified = 2],
    [Plain EXCEPT !.title = Called("guide", 2024, "none"), !.body.words = "now"] }

Disowned ==
  { [Plain EXCEPT !.title = Called("guide", 0, "old"), !.body.words = "old",
                  !.body.status = "current", !.modified = 2],
    [Plain EXCEPT !.title = Called("guide", 2, "copy"), !.body.words = "copy",
                  !.body.notice = "draft", !.modified = 4],
    [Plain EXCEPT !.title = Called("guide", 0, "archived"), !.modified = 5],
    [Plain EXCEPT !.title = Called("guide", 1, "draft"), !.body.words = "draft"] }

Referrers ==
  { [Plain EXCEPT !.title = Called("howto", 0, "none"), !.modified = 2,
                  !.body.status = "deprecated", !.body.refs = {Guide}],
    [Plain EXCEPT !.title = Called("faq", 0, "none"), !.body.words = "link", !.archived = TRUE,
                  !.links = {LinkTo(Guide, "plain")}],
    [Plain EXCEPT !.title = Called("faq", 0, "none"), !.modified = 4,
                  !.body.refs = {Guide}, !.links = {LinkTo(Guide, "backlink")}] }

Risky ==
  { [Plain EXCEPT !.body.words = "stamp", !.reviewed = "old", !.body.owner = TRUE],
    [Plain EXCEPT !.body.words = "stamp", !.reviewed = "fair", !.body.owner = TRUE],
    [Plain EXCEPT !.title = Called("manual", 0, "none"), !.modified = 4, !.body.url = TRUE,
                  !.body.canonical = TRUE, !.body.outdated = TRUE] }

Corpus == Versions \cup Disowned \cup Referrers \cup Risky
===============================================================================
