------------------------------ MODULE SourceWalk ------------------------------
(***************************************************************************)
(* fetch_documents of the Notion and Confluence sources: the walk over a   *)
(* page tree, one request at a time, while authors move, add and remove    *)
(* pages and the service refuses or fails requests.                        *)
(*                                                                         *)
(* items[p] is what lies directly under page p: its text, and its child    *)
(* pages in order.  Notion lists both as the blocks of the page, and       *)
(* answers with a cursor; Confluence sends the text with the page, and     *)
(* lists child pages by offset.  "space" stands for the modes of           *)
(* Confluence that list a space or the hits of a query: one flat listing,  *)
(* here the pages under Root.                                              *)
(*                                                                         *)
(* The recursion is a stack of frames, the next request on top.  Nested    *)
(* blocks and the conversion of a page to text are left out: a page with   *)
(* no text yields no document.                                             *)
(***************************************************************************)
EXTENDS Naturals, FiniteSets, Sequences, SequencesExt

CONSTANTS
  Page,
  Root,       \* root_page_id, page_id, or the space
  Database,   \* pages that are Notion databases
  Text,       \* the text of a page, among its items
  Trees,      \* the trees a walk may find: page -> items
  Limit,      \* page_size, limit
  MaxRetries, \* max_retries of a request
  MaxMoves,   \* bound: pages moved during the walk
  MaxErrors   \* bound: requests that fail, but for their refusals

(* What a walk finds is a tree: a page is listed once, under one page, and  *)
(* lies deeper than that.  A database has no text of its own.               *)
ASSUME WalkAssumption ==
  /\ IsFiniteSet(Page) /\ Root \in Page /\ Database \subseteq Page \ {Root}
  /\ Text \notin Page /\ "none" \notin Page \cup {Text}
  /\ \A tree \in Trees :
       /\ tree \in [Page -> Seq(Page \cup {Text})]
       /\ \A p, q \in Page : p # q => Range(tree[p]) \cap Range(tree[q]) \subseteq {Text}
       /\ \A p \in Page : \A i, j \in DOMAIN tree[p] : tree[p][i] = tree[p][j] => i = j \/ tree[p][i] = Text
       /\ \E depth \in [Page -> 0..Cardinality(Page)] :
            \A p \in Page : \A q \in Range(tree[p]) \ {Text} : depth[p] < depth[q]
       /\ \A p \in Database : Text \notin Range(tree[p])
  /\ Limit \in Nat \ {0} /\ MaxRetries \in Nat \ {0} /\ MaxMoves \in Nat /\ MaxErrors \in Nat

VARIABLES
  source,   \* which walk this is
  items,    \* page -> its items now
  stack,    \* the frames of the recursion
  yielded,  \* documents yielded, in order: page, and whether its body is whole
  outcome,
  tries,    \* times the next request was refused with 429
  moved,    \* pages moved, added or removed since the walk began
  grown, shrunk, \* pages under which those moves put a page, or took one away
  lost,     \* pages of which a request failed
  errors

tree == <<items, moved, grown, shrunk>>
vars == <<source, tree, stack, yielded, outcome, tries, lost, errors>>

(* A frame: the request of op for page.  rest is what a Notion listing has  *)
(* still to deliver, None before its first request, and start the offset of *)
(* a Confluence one; refs are the child_refs found so far, and text whether *)
(* any text was; entry is set for the page of a database entry.             *)
None == <<"none">>
Frame(op, page) ==
  [op |-> op, page |-> page, rest |-> None, start |-> 0, refs |-> <<>>, text |-> FALSE,
   entry |-> FALSE]

(* The items of s but x, in their order.                                    *)
But(s, x) ==
  LET kept == {i \in DOMAIN s : s[i] # x}
      Rank(i) == Cardinality({j \in kept : j <= i})
  IN [n \in 1..Cardinality(kept) |-> s[CHOOSE i \in kept : Rank(i) = n]]

Children(p) == But(items[p], Text)
HasText(p) == Text \in Range(items[p])

(* S and all that lies under it.                                            *)
Below(S) == S \cup ((UNION {Range(items[p]) : p \in S}) \ {Text})
Under(S) ==
  LET down[n \in 0..Cardinality(Page)] == IF n = 0 THEN S ELSE Below(down[n - 1])
  IN down[Cardinality(Page)]
Ancestors(p) == {q \in Page \ {p} : p \in Under({q})}
Exists(p) == p \in Under({Root})

(* Every variable keeps its type, no page lies under two pages, and nothing *)
(* is left to do in a walk that is over.                                    *)
TypeOK ==
  /\ source \in {"notion", "confluence", "space"}
  /\ items \in [Page -> Seq(Page \cup {Text})]
  /\ \A p, q \in Page : p # q => Range(items[p]) \cap Range(items[q]) \subseteq {Text}
  /\ \A f \in Range(stack) : f.op \in {"page", "blocks", "query", "children", "child"} /\ f.page \in Page
  /\ \A y \in Range(yielded) : y \in [page : Page, whole : BOOLEAN]
  /\ outcome \in {"walking", "returned", "raised"}
  /\ outcome = "walking" <=> stack # <<>>
  /\ tries \in 0..(MaxRetries - 1) /\ moved \cup grown \cup shrunk \cup lost \subseteq Page
  /\ errors \in 0..MaxErrors

Init ==
  /\ source \in {"notion", "confluence", "space"}
  /\ items \in Trees
  /\ stack = <<Frame(IF source = "space" THEN "children" ELSE "page", Root)>>
  /\ yielded = <<>> /\ outcome = "walking" /\ tries = 0
  /\ moved = {} /\ grown = {} /\ shrunk = {} /\ lost = {} /\ errors = 0

-------------------------------------------------------------------------------
(* Authors: a page goes, with all that lies under it, to the start or the   *)
(* end of another page's items, or nowhere; or it comes from nowhere.       *)

Insert(s, p, first) == IF first THEN <<p>> \o s ELSE Append(s, p)
Without(p) == [q \in Page |-> But(items[q], p)]

Move(p) ==
  /\ outcome = "walking" /\ Cardinality(moved) < MaxMoves /\ p \notin moved \cup {Root}
  /\ \/ /\ Exists(p)
        /\ items' = Without(p)
     \/ \E q \in Under({Root}) \ Under({p}), first \in BOOLEAN :
          items' = [Without(p) EXCEPT ![q] = Insert(@, p, first)]
  /\ items' # items
  /\ moved' = moved \cup {p}
  /\ grown' = grown \cup {q \in Page : p \in Range(items'[q])}
  /\ shrunk' = shrunk \cup {q \in Page : p \in Range(items[q])}
  /\ UNCHANGED <<source, stack, yielded, outcome, tries, lost, errors>>

-------------------------------------------------------------------------------
(* The walk                                                                 *)

Top == Head(stack)
Walking(op) == outcome = "walking" /\ Top.op = op
Asking(op) == Walking(op) /\ Exists(Top.page)

(* Mutation: the walk does not notice that it is over.                      *)
Continue_Forgets(fs) ==
  /\ stack' = fs \o Tail(stack) /\ tries' = 0
  /\ UNCHANGED <<source, tree, outcome>>

(* The frames fs take the place of the top one.                             *)
Continue(fs) ==
  /\ stack' = fs \o Tail(stack) /\ tries' = 0
  /\ outcome' = IF stack' = <<>> THEN "returned" ELSE "walking"
  /\ UNCHANGED <<source, tree>>

Yield(p, text, whole) ==
  yielded' = IF text THEN Append(yielded, [page |-> p, whole |-> whole]) ELSE yielded

Answer(batch) == SubSeq(batch, 1, IF Len(batch) < Limit THEN Len(batch) ELSE Limit)
FramesOf(pages, op(_)) == [i \in DOMAIN pages |-> op(pages[i])]

(* GET the page: the root, or a child page of Notion.                       *)
GetPage ==
  /\ Asking("page")
  /\ IF source = "notion"
     THEN Continue(<<Frame("blocks", Top.page)>>) /\ UNCHANGED yielded
     ELSE Continue(<<Frame("children", Top.page)>>) /\ Yield(Top.page, HasText(Top.page), TRUE)
  /\ UNCHANGED <<lost, errors>>

(* The walk of a child reference: a page, or the entries of a database.     *)
Reference(p) == Frame(IF p \in Database THEN "query" ELSE "page", p)

(* A page of a database yields its document, and the references found in it *)
(* are dropped.                                                             *)
Finished(f, whole) ==
  /\ Continue(IF f.entry THEN <<>> ELSE FramesOf(f.refs, Reference))
  /\ Yield(f.page, f.text, whole)

(* A page of the listing of blocks.  The cursor is Notion's own: it is      *)
(* taken to name the rest of the listing as it was when it began.           *)
GetBlocks ==
  /\ Asking("blocks")
  /\ LET left == IF Top.rest = None THEN items[Top.page] ELSE Top.rest
         batch == Answer(left)
         rest == SubSeq(left, Len(batch) + 1, Len(left))
         next == [Top EXCEPT !.rest = rest,
                             !.refs = @ \o But(batch, Text),
                             !.text = @ \/ Text \in Range(batch)]
     IN IF rest = <<>> THEN Finished(next, TRUE) ELSE Continue(<<next>>) /\ UNCHANGED yielded
  /\ UNCHANGED <<lost, errors>>

(* The entries of a database, each to be converted before the next request. *)
Query ==
  /\ Asking("query")
  /\ LET left == IF Top.rest = None THEN Children(Top.page) ELSE Top.rest
         batch == Answer(left)
         rest == SubSeq(left, Len(batch) + 1, Len(left))
         entry(p) == [Frame("blocks", p) EXCEPT !.entry = TRUE]
     IN Continue(FramesOf(batch, entry)
                   \o IF rest = <<>> THEN <<>> ELSE <<[Top EXCEPT !.rest = rest]>>)
  /\ UNCHANGED <<yielded, lost, errors>>

(* Mutation: a listing is taken to be over with its first answer.           *)
ListChildren_FirstAnswer ==
  /\ Asking("children")
  /\ LET left == SubSeq(Children(Top.page), Top.start + 1, Len(Children(Top.page)))
         child(p) == [Frame("child", p) EXCEPT !.text = HasText(p)]
     IN Continue(FramesOf(Answer(left), child))
  /\ UNCHANGED <<yielded, lost, errors>>

(* Mutation: the offset falls one short.                                    *)
ListChildren_OffByOne ==
  /\ Asking("children")
  /\ LET left == SubSeq(Children(Top.page), Top.start + 1, Len(Children(Top.page)))
         batch == Answer(left)
         child(p) == [Frame("child", p) EXCEPT !.text = HasText(p)]
     IN Continue(FramesOf(batch, child)
                   \o IF Len(batch) < Limit THEN <<>>
                      ELSE <<[Top EXCEPT !.start = @ + Len(batch) - (IF @ = 0 THEN 1 ELSE 0)]>>)
  /\ UNCHANGED <<yielded, lost, errors>>

(* Child pages from an offset into the listing as it is now; the next page  *)
(* of it is asked for when all of these and what is under them are done.    *)
ListChildren ==
  /\ Asking("children")
  /\ LET left == SubSeq(Children(Top.page), Top.start + 1, Len(Children(Top.page)))
         batch == Answer(left)
         child(p) == [Frame("child", p) EXCEPT !.text = HasText(p)]
     IN Continue(FramesOf(batch, child)
                   \o IF Len(batch) < Limit THEN <<>>
                      ELSE <<[Top EXCEPT !.start = @ + Len(batch)]>>)
  /\ UNCHANGED <<yielded, lost, errors>>

(* A child came with its text; its own children are requested next.         *)
Child ==
  /\ Walking("child")
  /\ Yield(Top.page, Top.text, TRUE)
  /\ Continue(IF source = "space" THEN <<>> ELSE <<Frame("children", Top.page)>>)
  /\ UNCHANGED <<lost, errors>>

-------------------------------------------------------------------------------
(* Failing requests                                                         *)

(* Mutation: the attempts are not counted.                                  *)
Refused_Uncounted ==
  /\ outcome = "walking" /\ Top.op \in {"page", "blocks", "children"}
  /\ tries' = (tries + 1) % MaxRetries
  /\ UNCHANGED <<source, tree, stack, yielded, outcome, lost, errors>>

(* 429: slept over and sent again, but for a last time.  Database queries   *)
(* are not sent again.                                                      *)
Refused ==
  /\ outcome = "walking" /\ Top.op \in {"page", "blocks", "children"}
  /\ tries + 1 < MaxRetries
  /\ tries' = tries + 1
  /\ UNCHANGED <<source, tree, stack, yielded, outcome, lost, errors>>

Raise ==
  /\ outcome' = "raised" /\ stack' = <<>> /\ tries' = 0
  /\ UNCHANGED <<source, tree, yielded>>

(* Mutation: a failed listing of child pages is skipped.                    *)
Failed_ListingSkipped ==
  CASE Top.op \in {"page", "children"} -> Continue(<<>>) /\ UNCHANGED yielded
    [] Top.op = "blocks" -> Finished(Top, FALSE)
    [] OTHER -> Raise

(* A page that cannot be read is skipped, with all that is under it; a page *)
(* whose blocks cannot be listed to the end is taken as far as it was read; *)
(* any other failure ends the fetch.                                        *)
Failed ==
  CASE Top.op = "page" -> Continue(<<>>) /\ UNCHANGED yielded
    [] Top.op = "blocks" -> Finished(Top, FALSE)
    [] OTHER -> Raise

(* The page is no longer there.                                             *)
Gone ==
  /\ outcome = "walking" /\ Top.op # "child" /\ ~Exists(Top.page)
  /\ Failed /\ lost' = lost \cup {Top.page} /\ UNCHANGED errors

(* The service fails the request, or refuses it for the last time; or the   *)
(* connection fails, which nothing here catches.                            *)
Error ==
  /\ outcome = "walking" /\ Top.op # "child" /\ errors < MaxErrors
  /\ errors' = errors + 1
  /\ Failed \/ Raise
  /\ lost' = lost \cup {Top.page}

Step == GetPage \/ GetBlocks \/ Query \/ ListChildren \/ Child \/ Refused \/ Gone
Next == Step \/ Error \/ \E p \in Page : Move(p)

(* The walk asks on while it is answered, in whatever way; authors need not *)
(* write, and the service need not fail.                                    *)
Spec == Init /\ [][Next]_vars /\ WF_vars(Step)

-------------------------------------------------------------------------------
(* Properties                                                               *)

Times(p) == Cardinality({i \in DOMAIN yielded : yielded[i] = [page |-> p, whole |-> TRUE]})

(* What each mode is meant to reach of the tree: a listing, the pages in    *)
(* it; a Notion tree, all but what lies under the entries of a database.    *)
Meant(p) ==
  /\ HasText(p) /\ Exists(p)
  /\ source = "space" => p \in Range(Children(Root))
  /\ source = "notion" => \A d \in Database \cap Ancestors(p) : p \in Range(Children(d))
Line(p) == Ancestors(p) \cup {p}

(* A walk that returns has yielded every page it is meant to, whole, unless *)
(* that page or one above it was moved or could not be read, or the offsets *)
(* into a listing it lies under shifted when another page left.             *)
MissedPagesHaveAReason ==
  outcome = "returned" =>
    \A p \in Page : Meant(p) /\ Times(p) = 0 =>
      \/ Line(p) \cap (moved \cup lost) # {}
      \/ source # "notion" /\ Ancestors(p) \cap shrunk # {}

(* A page is yielded at most once unless it or a page above it was moved    *)
(* or, in a listing by offset, a page came in before it.  The auditor takes *)
(* a page yielded twice for two documents: an exact duplicate of itself.    *)
RepeatedPagesHaveAReason ==
  \A p \in Page : Times(p) > 1 =>
    \/ Line(p) \cap moved # {}
    \/ source # "notion" /\ Ancestors(p) \cap grown # {}

(* A Confluence walk that returns read all it asked for, or could not read  *)
(* its root and yielded nothing: the scan of an unreachable page completes, *)
(* empty.  Notion loses subtrees without a word.                            *)
FailuresAreContained ==
  outcome = "returned" /\ source # "notion" => lost = {} \/ (lost = {Root} /\ yielded = <<>>)

(* However its tree changes and its requests fail, a walk comes to an end:  *)
(* the recursion has no set of visited pages.                               *)
WalkEnds == <>(outcome # "walking")
===============================================================================
