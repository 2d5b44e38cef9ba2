--------------------------- MODULE SourceWalk_proofs ---------------------------
(***************************************************************************)
(* Theorems about SourceWalk, for any trees, limits and bounds.             *)
(***************************************************************************)
EXTENDS SourceWalk, FiniteSetTheorems, SequenceTheorems, TLAPS

-------------------------------------------------------------------------------
(* Sequences without an item, parts of them, and frames made of them.       *)

(* The items but x are in their order: at tells where each of them was.     *)
Places(s, x, at) ==
  /\ at \in [DOMAIN But(s, x) -> DOMAIN s]
  /\ \A n \in DOMAIN But(s, x) :
       /\ But(s, x)[n] = s[at[n]] /\ s[at[n]] # x
       /\ n = Cardinality({j \in DOMAIN s : s[j] # x /\ j <= at[n]})
  /\ \A i \in DOMAIN s : s[i] # x => \E n \in DOMAIN But(s, x) : at[n] = i

LEMMA ButPositions ==
  ASSUME NEW S, NEW s \in Seq(S), NEW x
  PROVE  But(s, x) \in Seq(S \ {x}) /\ \E at : Places(s, x, at)
<1> DEFINE kept == {i \in DOMAIN s : s[i] # x}
           Rank(i) == Cardinality({j \in kept : j <= i})
           K == Cardinality(kept)
           r == [i \in kept |-> Rank(i)]
<1>1. /\ Len(s) \in Nat /\ DOMAIN s = 1..Len(s) /\ \A i \in DOMAIN s : s[i] \in S
      /\ kept \subseteq 1..Len(s)
  BY LenProperties, ElementOfSeq
<1>2. IsFiniteSet(kept) /\ K \in Nat
  <2>1. IsFiniteSet(1..Len(s))  BY <1>1, FS_Interval
  <2> HIDE DEF kept
  <2>2. kept \in SUBSET (1..Len(s))  BY <1>1
  <2>3. IsFiniteSet(kept)  BY <2>1, <2>2, FS_Subset
  <2> QED  BY <2>3, FS_CardinalityType
<1>3. ASSUME NEW i \in kept  PROVE Rank(i) \in 1..K
  <2> DEFINE low == {j \in kept : j <= i}
  <2>1. low \subseteq kept /\ low # {}
    BY <1>1
  <2>2. IsFiniteSet(low) /\ Cardinality(low) \in Nat /\ Cardinality(low) <= K
    BY <1>2, <2>1, FS_Subset, FS_CardinalityType
  <2>3. Cardinality(low) # 0  BY <2>1, <2>2, FS_EmptySet
  <2> QED  BY <1>2, <2>2, <2>3
<1>4. ASSUME NEW i \in kept, NEW j \in kept, Rank(i) = Rank(j)  PROVE i = j
  <2>1. ASSUME NEW k \in kept, NEW l \in kept, k < l  PROVE Rank(k) # Rank(l)
    <3> DEFINE low == {m \in kept : m <= k}
               high == {m \in kept : m <= l}
    <3>1. low \subseteq high /\ l \in high /\ l \notin low /\ high \subseteq kept
      BY <1>1, <2>1
    <3>2. IsFiniteSet(high)  BY <1>2, <3>1, FS_Subset
    <3>3. Cardinality(high) # Cardinality(low)  BY <3>1, <3>2, FS_Subset
    <3> QED  BY <3>3
  <2>2. i \in Int /\ j \in Int  BY <1>1
  <2> HIDE DEF Rank
  <2>3. i < j \/ j < i \/ i = j  BY <2>2
  <2> QED  BY <1>4, <2>1, <2>3
<1>5. r \in Injection(kept, 1..K)
  BY <1>3, <1>4 DEF Injection, IsInjective
<1>6. IsFiniteSet(1..K) /\ Cardinality(1..K) = K
  BY <1>2, FS_Interval
<1>7. r \in Surjection(kept, 1..K)
  BY <1>2, <1>5, <1>6, FS_Injection
<1>8. \A n \in 1..K : \E i \in kept : Rank(i) = n
  BY <1>7 DEF Surjection
<1> DEFINE at(n) == CHOOSE i \in kept : Rank(i) = n
<1>9. ASSUME NEW n \in 1..K  PROVE at(n) \in kept /\ Rank(at(n)) = n
  BY <1>8
<1>10. \A i \in kept : at(Rank(i)) = i
  BY <1>3, <1>4, <1>9
<1>11. But(s, x) = [n \in 1..K |-> s[at(n)]]
  BY DEF But
<1>a. \A i \in DOMAIN s : {j \in kept : j <= i} = {j \in DOMAIN s : s[j] # x /\ j <= i}
  OBVIOUS
<1>b. \A i \in DOMAIN s : Rank(i) = Cardinality({j \in DOMAIN s : s[j] # x /\ j <= i})
  BY <1>a
<1>c. \A i \in kept : i \in DOMAIN s /\ s[i] # x
  OBVIOUS
<1>d. \A i \in DOMAIN s : s[i] # x => i \in kept
  OBVIOUS
<1> HIDE DEF Rank, K, at, r, kept
<1>12. \A n \in 1..K : s[at(n)] \in S \ {x}
  BY <1>1, <1>9, <1>c
<1>13. But(s, x) \in [1..K -> S \ {x}]
  BY <1>11, <1>12
<1>14. But(s, x) \in Seq(S \ {x})
  BY <1>2, <1>13, SeqDef
<1>15. DOMAIN But(s, x) = 1..K
  BY <1>13
<1> DEFINE to == [n \in 1..K |-> at(n)]
<1>16. to \in [1..K -> DOMAIN s] /\ \A n \in 1..K : to[n] = at(n)
  BY <1>9, <1>c
<1>17. ASSUME NEW n \in 1..K
      PROVE  /\ But(s, x)[n] = s[to[n]] /\ s[to[n]] # x
             /\ n = Cardinality({j \in DOMAIN s : s[j] # x /\ j <= to[n]})
  <2>1. But(s, x)[n] = s[at(n)] /\ to[n] = at(n) /\ at(n) \in kept /\ Rank(at(n)) = n
    BY <1>9, <1>11, <1>16
  <2> QED  BY <1>b, <1>c, <2>1
<1>18. \A i \in DOMAIN s : s[i] # x => \E n \in 1..K : to[n] = i
  BY <1>3, <1>10, <1>16, <1>d
<1> HIDE DEF to
<1>19. Places(s, x, to)  BY <1>15, <1>16, <1>17, <1>18 DEF Places
<1> QED  BY <1>14, <1>19

(* The items but x are those of the sequence that are not x, each of them.  *)
LEMMA ButProperties ==
  ASSUME NEW S, NEW s \in Seq(S), NEW x
  PROVE  /\ But(s, x) \in Seq(S \ {x})
         /\ Range(But(s, x)) = Range(s) \ {x}
<1> DEFINE b == But(s, x)
<1>1. b \in Seq(S \ {x})  BY ButPositions
<1>2. PICK at : Places(s, x, at)  BY ButPositions
<1>a. /\ at \in [DOMAIN b -> DOMAIN s]
      /\ \A n \in DOMAIN b : b[n] = s[at[n]] /\ s[at[n]] # x
      /\ \A i \in DOMAIN s : s[i] # x => \E n \in DOMAIN b : at[n] = i
  BY <1>2 DEF Places
<1>3. Range(b) = {b[n] : n \in DOMAIN b} /\ Range(s) = {s[i] : i \in DOMAIN s}
  BY DEF Range
<1> HIDE DEF b
<1>4. ASSUME NEW y \in Range(s) \ {x}  PROVE y \in Range(b)
  <2>1. PICK i \in DOMAIN s : y = s[i]  BY <1>3, <1>4
  <2>2. PICK n \in DOMAIN b : at[n] = i  BY <1>a, <1>4, <2>1
  <2>3. b[n] = y  BY <1>a, <2>1, <2>2
  <2> QED  BY <1>3, <2>3
<1>5. ASSUME NEW y \in Range(b)  PROVE y \in Range(s) \ {x}
  <2>1. PICK n \in DOMAIN b : y = b[n]  BY <1>3, <1>5
  <2>2. y = s[at[n]] /\ y # x /\ at[n] \in DOMAIN s  BY <1>a, <2>1
  <2> QED  BY <1>3, <2>2
<1> QED  BY <1>1, <1>4, <1>5 DEF b

LEMMA AnswerProperties ==
  ASSUME WalkAssumption, NEW S, NEW s \in Seq(S)
  PROVE  /\ Answer(s) \in Seq(S) /\ Len(Answer(s)) \in Nat
         /\ \A m \in Nat \ {0} : SubSeq(s, m, Len(s)) \in Seq(S)
<1>1. Len(s) \in Nat /\ \A i \in 1..Len(s) : s[i] \in S
  BY LenProperties, ElementOfSeq
<1> DEFINE n == IF Len(s) < Limit THEN Len(s) ELSE Limit
<1>2. n \in Nat /\ n <= Len(s)  BY <1>1 DEF WalkAssumption
<1>3. Answer(s) = SubSeq(s, 1, n)  BY DEF Answer
<1> HIDE DEF n
<1>4. \A i \in 1..n : s[i] \in S  BY <1>1, <1>2
<1>5. Answer(s) \in Seq(S)  BY <1>2, <1>3, <1>4, SubSeqProperties
<1>6. ASSUME NEW m \in Nat \ {0}  PROVE SubSeq(s, m, Len(s)) \in Seq(S)
  <2>1. \A i \in m..Len(s) : s[i] \in S  BY <1>1
  <2> QED  BY <1>1, <2>1, SubSeqProperties
<1> QED  BY <1>5, <1>6, LenProperties

LEMMA Listed ==
  ASSUME NEW S, NEW n \in Nat, NEW f \in [1..n -> S]
  PROVE  f \in Seq(S)
BY SeqDef

-------------------------------------------------------------------------------
(* The invariant of the types: what frames there are, and what they hold.   *)

Item == Page \cup {Text}

Frames(src) ==
  {f \in [op : IF src = "notion" THEN {"page", "blocks", "query"} ELSE {"page", "children", "child"},
          page : Page, rest : {None} \cup Seq(Item), start : Nat, refs : Seq(Page),
          text : BOOLEAN, entry : BOOLEAN] :
     f.op = "query" => f.rest \in {None} \cup Seq(Page)}

Document == [page : Page, whole : BOOLEAN]

OneParent == \A p, q \in Page : p # q => Range(items[p]) \cap Range(items[q]) \subseteq {Text}

TypesInv ==
  /\ source \in {"notion", "confluence", "space"}
  /\ items \in [Page -> Seq(Item)] /\ OneParent
  /\ stack \in Seq(Frames(source)) /\ yielded \in Seq(Document)
  /\ outcome \in {"walking", "returned", "raised"}
  /\ outcome = "walking" <=> stack # <<>>
  /\ tries \in 0..(MaxRetries - 1) /\ moved \cup grown \cup shrunk \cup lost \subseteq Page
  /\ errors \in 0..MaxErrors

LEMMA TypesInvTypeOK == TypesInv => TypeOK
<1> SUFFICES ASSUME TypesInv  PROVE TypeOK
  OBVIOUS
<1>1. ASSUME NEW f \in Range(stack)
      PROVE  f.op \in {"page", "blocks", "query", "children", "child"} /\ f.page \in Page
  <2>1. f \in Frames(source)  BY RangeOfSeq DEF TypesInv
  <2> QED  BY <2>1 DEF Frames
<1>2. \A y \in Range(yielded) : y \in [page : Page, whole : BOOLEAN]
  BY RangeOfSeq DEF TypesInv, Document
<1> QED  BY <1>1, <1>2 DEF TypesInv, TypeOK, OneParent, Item

LEMMA InitTypes == ASSUME WalkAssumption, Init PROVE TypesInv
<1> DEFINE f == Frame(IF source = "space" THEN "children" ELSE "page", Root)
<1>1. f \in Frames(source)
  BY EmptySeq DEF Init, WalkAssumption, Frame, Frames
<1>2. stack = <<f>>  BY DEF Init
<1> HIDE DEF f
<1>3. stack \in Seq(Frames(source)) /\ stack # <<>>
  BY <1>1, <1>2
<1>4. items \in [Page -> Seq(Item)] /\ OneParent
  BY DEF Init, WalkAssumption, Item, OneParent
<1>5. 0 \in 0..(MaxRetries - 1) /\ 0 \in 0..MaxErrors
  BY DEF WalkAssumption
<1>6. yielded \in Seq(Document)  BY EmptySeq DEF Init
<1> QED  BY <1>3, <1>4, <1>5, <1>6 DEF Init, TypesInv

-------------------------------------------------------------------------------
(* What the steps of a walk push and yield.                                 *)

(* No frame of a page that is still to be read; only Notion reads child     *)
(* pages one by one.                                                        *)
Read(fs) == source # "notion" => \A i \in 1..Len(fs) : fs[i].op # "page"

(* A step that takes the top frame off, and may push others and yield.      *)
Goes == /\ \E fs \in Seq(Frames(source)) : Continue(fs) /\ Read(fs)
        /\ yielded' \in Seq(Document)

LEMMA TopFrame ==
  ASSUME TypesInv, outcome = "walking"
  PROVE  /\ stack \in Seq(Frames(source)) /\ stack # <<>> /\ Len(stack) \in Nat \ {0}
         /\ Top = stack[1] /\ Top \in Frames(source) /\ Tail(stack) \in Seq(Frames(source))
         /\ Top.page \in Page
<1>1. stack \in Seq(Frames(source)) /\ stack # <<>>  BY DEF TypesInv
<1>2. Head(stack) \in Frames(source) /\ Tail(stack) \in Seq(Frames(source))
      /\ Head(stack) = stack[1]
  BY <1>1, HeadTailProperties
<1> QED  BY <1>1, <1>2, EmptySeq, LenProperties DEF Top, Frames

LEMMA YieldTypes ==
  ASSUME TypesInv, NEW p \in Page, NEW text, NEW whole \in BOOLEAN, Yield(p, text, whole)
  PROVE  yielded' \in Seq(Document)
<1>1. [page |-> p, whole |-> whole] \in Document  BY DEF Document
<1> QED  BY <1>1, AppendProperties DEF Yield, TypesInv

LEMMA FreshFrame ==
  ASSUME NEW p \in Page, NEW op \in {"page", "blocks", "query", "children", "child"}
  PROVE  /\ op \in {"page", "blocks", "query"} => Frame(op, p) \in Frames("notion")
         /\ op \in {"page", "children", "child"} =>
              \A src \in {"confluence", "space"} : Frame(op, p) \in Frames(src)
         /\ Frame(op, p).op = op
BY EmptySeq DEF Frame, Frames

LEMMA GetPageGoes == ASSUME WalkAssumption, TypesInv, GetPage PROVE Goes
<1>1. outcome = "walking" /\ Top.op = "page"  BY DEF GetPage, Asking, Walking
<1>2. Top.page \in Page  BY <1>1, TopFrame
<1>3. CASE source = "notion"
  <2> DEFINE f == Frame("blocks", Top.page)
  <2>1. Continue(<<f>>) /\ yielded' = yielded  BY <1>3 DEF GetPage
  <2>2. f \in Frames(source)  BY <1>2, <1>3, FreshFrame
  <2> HIDE DEF f
  <2>3. <<f>> \in Seq(Frames(source))  BY <2>2
  <2> QED  BY <1>3, <2>1, <2>3 DEF Goes, Read, TypesInv
<1>4. CASE source # "notion"
  <2> DEFINE f == Frame("children", Top.page)
  <2>1. Continue(<<f>>) /\ Yield(Top.page, HasText(Top.page), TRUE)  BY <1>4 DEF GetPage
  <2>2. f \in Frames(source) /\ f.op = "children"
    BY <1>2, <1>4, FreshFrame DEF TypesInv
  <2> HIDE DEF f
  <2>3. <<f>> \in Seq(Frames(source)) /\ Len(<<f>>) = 1 /\ <<f>>[1] = f
    BY <2>2
  <2>4. Read(<<f>>)  BY <2>2, <2>3 DEF Read
  <2>5. yielded' \in Seq(Document)  BY <1>2, <2>1, YieldTypes
  <2> QED  BY <2>1, <2>3, <2>4, <2>5 DEF Goes
<1> QED  BY <1>3, <1>4

LEMMA ChildGoes == ASSUME WalkAssumption, TypesInv, Child PROVE Goes
<1>1. outcome = "walking" /\ Top.op = "child"  BY DEF Child, Walking
<1>2. Top.page \in Page /\ Top \in Frames(source)  BY <1>1, TopFrame
<1>3. source # "notion"  BY <1>1, <1>2 DEF Frames
<1> DEFINE f == Frame("children", Top.page)
           fs == IF source = "space" THEN <<>> ELSE <<f>>
<1>4. Continue(fs) /\ Yield(Top.page, Top.text, TRUE)  BY DEF Child
<1>5. f \in Frames(source) /\ f.op = "children"
  BY <1>2, <1>3, FreshFrame DEF TypesInv
<1> HIDE DEF f
<1>6. fs \in Seq(Frames(source)) /\ Read(fs)
  <2>1. CASE source = "space"
    BY <2>1, EmptySeq DEF Read
  <2>2. CASE source # "space"
    <3>1. <<f>> \in Seq(Frames(source)) /\ Len(<<f>>) = 1 /\ <<f>>[1] = f
      BY <1>5
    <3> QED  BY <1>5, <2>2, <3>1 DEF Read
  <2> QED  BY <2>1, <2>2
<1>7. yielded' \in Seq(Document)  BY <1>2, <1>4, YieldTypes
<1> QED  BY <1>4, <1>6, <1>7 DEF Goes

(* Notion's frames are the only ones to list blocks and query.              *)
LEMMA FinishedGoes ==
  ASSUME WalkAssumption, TypesInv, outcome = "walking", NEW f \in Frames("notion"),
         source = "notion", NEW whole \in BOOLEAN, Finished(f, whole)
  PROVE  Goes
<1>1. f.page \in Page /\ f.refs \in Seq(Page)  BY DEF Frames
<1> DEFINE fs == IF f.entry THEN <<>> ELSE FramesOf(f.refs, Reference)
<1>2. Continue(fs) /\ Yield(f.page, f.text, whole)  BY DEF Finished
<1>3. fs \in Seq(Frames(source))
  <2>1. CASE f.entry  BY <2>1, EmptySeq
  <2>2. CASE ~f.entry
    <3>1. Len(f.refs) \in Nat /\ DOMAIN f.refs = 1..Len(f.refs)
          /\ \A i \in 1..Len(f.refs) : f.refs[i] \in Page
      BY <1>1, LenProperties, ElementOfSeq
    <3>2. \A p \in Page : Reference(p) \in Frames(source)
      BY FreshFrame DEF Reference
    <3>3. fs = [i \in 1..Len(f.refs) |-> Reference(f.refs[i])]
      BY <2>2, <3>1 DEF FramesOf
    <3> HIDE DEF fs
    <3>4. fs \in [1..Len(f.refs) -> Frames(source)]  BY <3>1, <3>2, <3>3
    <3> QED  BY <3>1, <3>4, Listed
  <2> QED  BY <2>1, <2>2
<1> HIDE DEF fs
<1>4. yielded' \in Seq(Document)  BY <1>1, <1>2, YieldTypes
<1> QED  BY <1>2, <1>3, <1>4 DEF Goes, Read

LEMMA GetBlocksGoes == ASSUME WalkAssumption, TypesInv, GetBlocks PROVE Goes
<1>1. outcome = "walking" /\ Top.op = "blocks"  BY DEF GetBlocks, Asking, Walking
<1>2. Top.page \in Page /\ Top \in Frames(source)  BY <1>1, TopFrame
<1>3. source = "notion"  BY <1>1, <1>2 DEF Frames
<1> DEFINE left == IF Top.rest = None THEN items[Top.page] ELSE Top.rest
           batch == Answer(left)
           rest == SubSeq(left, Len(batch) + 1, Len(left))
           refs == Top.refs \o But(batch, Text)
           text == Top.text \/ Text \in Range(batch)
           next == [Top EXCEPT !.rest = rest, !.refs = refs, !.text = text]
<1>4. IF rest = <<>> THEN Finished(next, TRUE) ELSE Continue(<<next>>) /\ UNCHANGED yielded
  BY DEF GetBlocks
<1>5. left \in Seq(Item)
  BY <1>2 DEF Frames, TypesInv
<1> HIDE DEF left
<1>6. batch \in Seq(Item) /\ Len(batch) + 1 \in Nat \ {0}
  <2>1. batch \in Seq(Item) /\ Len(batch) \in Nat  BY <1>5, AnswerProperties
  <2> HIDE DEF batch
  <2> QED  BY <2>1
<1>7. rest \in Seq(Item)  BY <1>5, <1>6, AnswerProperties
<1> HIDE DEF batch, rest
<1>8. refs \in Seq(Page)
  <2>1. But(batch, Text) \in Seq(Item \ {Text})  BY <1>6, ButProperties
  <2>2. Item \ {Text} \subseteq Page  BY DEF Item
  <2>3. But(batch, Text) \in Seq(Page)  BY <2>1, <2>2, SeqMonotonic
  <2>4. Top.refs \in Seq(Page)  BY <1>2 DEF Frames
  <2> QED  BY <2>3, <2>4, ConcatProperties
<1>9. text \in BOOLEAN  BY <1>2 DEF Frames
<1> HIDE DEF refs, text
<1>10. next \in Frames("notion")
  BY <1>1, <1>2, <1>3, <1>7, <1>8, <1>9 DEF Frames
<1> HIDE DEF next
<1>11. CASE rest = <<>>
  BY <1>1, <1>3, <1>4, <1>10, <1>11, FinishedGoes
<1>12. CASE rest # <<>>
  <2>1. Continue(<<next>>) /\ yielded' = yielded  BY <1>4, <1>12
  <2>2. <<next>> \in Seq(Frames(source))  BY <1>3, <1>10
  <2> QED  BY <1>3, <2>1, <2>2 DEF Goes, Read, TypesInv
<1> QED  BY <1>11, <1>12

LEMMA QueryGoes == ASSUME WalkAssumption, TypesInv, Query PROVE Goes
<1>1. outcome = "walking" /\ Top.op = "query"  BY DEF Query, Asking, Walking
<1>2. Top.page \in Page /\ Top \in Frames(source)  BY <1>1, TopFrame
<1>3. source = "notion"  BY <1>1, <1>2 DEF Frames
<1> DEFINE left == IF Top.rest = None THEN Children(Top.page) ELSE Top.rest
           batch == Answer(left)
           rest == SubSeq(left, Len(batch) + 1, Len(left))
           entry(p) == [Frame("blocks", p) EXCEPT !.entry = TRUE]
           first == FramesOf(batch, entry)
           more == IF rest = <<>> THEN <<>> ELSE <<[Top EXCEPT !.rest = rest]>>
<1>4. Continue(first \o more) /\ yielded' = yielded
  BY DEF Query
<1>5. left \in Seq(Page)
  <2>1. items[Top.page] \in Seq(Item)  BY <1>2 DEF TypesInv
  <2>2. Children(Top.page) \in Seq(Item \ {Text})  BY <2>1, ButProperties DEF Children
  <2>3. Item \ {Text} \subseteq Page  BY DEF Item
  <2>4. Children(Top.page) \in Seq(Page)  BY <2>2, <2>3, SeqMonotonic
  <2> QED  BY <1>1, <1>2, <2>4 DEF Frames
<1> HIDE DEF left
<1>6. batch \in Seq(Page) /\ Len(batch) + 1 \in Nat \ {0}
  <2>1. batch \in Seq(Page) /\ Len(batch) \in Nat  BY <1>5, AnswerProperties
  <2> HIDE DEF batch
  <2> QED  BY <2>1
<1>7. rest \in Seq(Page)  BY <1>5, <1>6, AnswerProperties
<1> HIDE DEF batch, rest
<1>8. first \in Seq(Frames(source))
  <2>1. Len(batch) \in Nat /\ DOMAIN batch = 1..Len(batch)
        /\ \A i \in 1..Len(batch) : batch[i] \in Page
    BY <1>6, LenProperties, ElementOfSeq
  <2>2. \A p \in Page : entry(p) \in Frames(source)
    BY <1>3, EmptySeq DEF Frame, Frames
  <2>3. first = [i \in 1..Len(batch) |-> entry(batch[i])]
    BY <2>1 DEF FramesOf
  <2> HIDE DEF entry, first
  <2>4. first \in [1..Len(batch) -> Frames(source)]  BY <2>1, <2>2, <2>3
  <2> QED  BY <2>1, <2>4, Listed
<1>9. more \in Seq(Frames(source))
  <2>1. CASE rest = <<>>  BY <2>1, EmptySeq
  <2>2. CASE rest # <<>>
    <3> DEFINE f == [Top EXCEPT !.rest = rest]
    <3>1. rest \in Seq(Item)  BY <1>7, SeqMonotonic DEF Item
    <3>2. f \in Frames(source)  BY <1>1, <1>2, <1>7, <3>1 DEF Frames
    <3> HIDE DEF f
    <3>3. <<f>> \in Seq(Frames(source))  BY <3>2
    <3> QED  BY <2>2, <3>3 DEF f
  <2> QED  BY <2>1, <2>2
<1> HIDE DEF first, more
<1>10. first \o more \in Seq(Frames(source))  BY <1>8, <1>9, ConcatProperties
<1> QED  BY <1>3, <1>4, <1>10 DEF Goes, Read, TypesInv

LEMMA ListChildrenGoes == ASSUME WalkAssumption, TypesInv, ListChildren PROVE Goes
<1>1. outcome = "walking" /\ Top.op = "children"  BY DEF ListChildren, Asking, Walking
<1>2. Top.page \in Page /\ Top \in Frames(source) /\ Top.start \in Nat
  BY <1>1, TopFrame DEF Frames
<1>3. source \in {"confluence", "space"}  BY <1>1, <1>2 DEF Frames, TypesInv
<1> DEFINE all == Children(Top.page)
           left == SubSeq(all, Top.start + 1, Len(all))
           batch == Answer(left)
           child(p) == [Frame("child", p) EXCEPT !.text = HasText(p)]
           first == FramesOf(batch, child)
           again == [Top EXCEPT !.start = @ + Len(batch)]
           more == IF Len(batch) < Limit THEN <<>> ELSE <<again>>
<1>4. Continue(first \o more) /\ yielded' = yielded
  BY DEF ListChildren
<1>5. all \in Seq(Page)
  <2>1. items[Top.page] \in Seq(Item)  BY <1>2 DEF TypesInv
  <2>2. all \in Seq(Item \ {Text})  BY <2>1, ButProperties DEF Children
  <2>3. Item \ {Text} \subseteq Page  BY DEF Item
  <2> QED  BY <2>2, <2>3, SeqMonotonic
<1> HIDE DEF all
<1>6. left \in Seq(Page)
  <2>1. Top.start + 1 \in Nat \ {0}  BY <1>2
  <2> QED  BY <1>5, <2>1, AnswerProperties
<1> HIDE DEF left
<1>7. batch \in Seq(Page) /\ Len(batch) \in Nat  BY <1>6, AnswerProperties
<1> HIDE DEF batch
<1>8. /\ first \in Seq(Frames(source))
      /\ \A i \in 1..Len(first) : first[i].op # "page"
  <2>1. DOMAIN batch = 1..Len(batch) /\ \A i \in 1..Len(batch) : batch[i] \in Page
    BY <1>7, LenProperties, ElementOfSeq
  <2>2. \A p \in Page : child(p) \in Frames(source) /\ child(p).op = "child"
    <3> SUFFICES ASSUME NEW p \in Page
                 PROVE  child(p) \in Frames(source) /\ child(p).op = "child"
      OBVIOUS
    <3> DEFINE text == HasText(p)
               f == Frame("child", p)
    <3>1. f \in Frames(source) /\ f.op = "child"  BY <1>3, FreshFrame
    <3>2. text \in BOOLEAN  BY DEF HasText
    <3> HIDE DEF text, f
    <3>3. [f EXCEPT !.text = text] \in Frames(source) /\ [f EXCEPT !.text = text].op = "child"
      BY <3>1, <3>2 DEF Frames
    <3> QED  BY <3>3 DEF text, f
  <2>3. first = [i \in 1..Len(batch) |-> child(batch[i])]
    BY <2>1 DEF FramesOf
  <2> HIDE DEF child, first
  <2>4. first \in [1..Len(batch) -> Frames(source)]  BY <2>1, <2>2, <2>3
  <2>5. first \in Seq(Frames(source))  BY <1>7, <2>4, Listed
  <2>6. 1..Len(first) = 1..Len(batch)  BY <2>4, <2>5, LenProperties
  <2> QED  BY <2>1, <2>2, <2>3, <2>5, <2>6
<1>9. /\ more \in Seq(Frames(source))
      /\ \A i \in 1..Len(more) : more[i].op # "page"
  <2>1. again \in Frames(source) /\ again.op = "children"
    <3> DEFINE start == Top.start + Len(batch)
    <3>1. start \in Nat  BY <1>2, <1>7
    <3> HIDE DEF start
    <3>2. [Top EXCEPT !.start = start] \in Frames(source)
          /\ [Top EXCEPT !.start = start].op = "children"
      BY <1>1, <1>2, <3>1 DEF Frames
    <3> QED  BY <3>2 DEF start
  <2> HIDE DEF again
  <2>2. CASE Len(batch) < Limit  BY <2>2, EmptySeq
  <2>3. CASE ~(Len(batch) < Limit)
    <3>1. <<again>> \in Seq(Frames(source)) /\ Len(<<again>>) = 1 /\ <<again>>[1] = again
      BY <2>1
    <3> QED  BY <2>1, <2>3, <3>1
  <2> QED  BY <2>2, <2>3
<1> HIDE DEF first, more
<1>10. /\ first \o more \in Seq(Frames(source)) /\ Len(first \o more) = Len(first) + Len(more)
       /\ Len(first) \in Nat /\ Len(more) \in Nat
       /\ \A i \in 1..Len(first) + Len(more) :
            (first \o more)[i] = IF i <= Len(first) THEN first[i] ELSE more[i - Len(first)]
  BY <1>8, <1>9, ConcatProperties, LenProperties
<1>11. ASSUME NEW i \in 1..Len(first \o more)  PROVE (first \o more)[i].op # "page"
  <2>1. CASE i <= Len(first)
    <3>1. i \in 1..Len(first)  BY <1>10, <2>1
    <3> QED  BY <1>8, <1>10, <2>1, <3>1
  <2>2. CASE ~(i <= Len(first))
    <3>1. i - Len(first) \in 1..Len(more)  BY <1>10, <2>2
    <3> QED  BY <1>9, <1>10, <2>2, <3>1
  <2> QED  BY <2>1, <2>2
<1>12. Read(first \o more)  BY <1>11 DEF Read
<1> QED  BY <1>4, <1>10, <1>12 DEF Goes, TypesInv

(* A failed request is skipped or raises.                                   *)
LEMMA FailedGoes ==
  ASSUME WalkAssumption, TypesInv, outcome = "walking", Failed
  PROVE  \/ Goes /\ (source # "notion" => Top.op = "page" /\ Continue(<<>>) /\ yielded' = yielded)
         \/ Raise
<1>1. Top \in Frames(source)  BY TopFrame
<1>2. CASE Top.op = "page"
  <2>1. Continue(<<>>) /\ yielded' = yielded  BY <1>2 DEF Failed
  <2>2. <<>> \in Seq(Frames(source)) /\ Len(<<>>) = 0  BY EmptySeq
  <2>3. Read(<<>>)  BY <2>2 DEF Read
  <2> QED  BY <1>2, <2>1, <2>2, <2>3 DEF Goes, TypesInv
<1>3. CASE Top.op = "blocks"
  <2>1. source = "notion"  BY <1>1, <1>3 DEF Frames
  <2>2. Finished(Top, FALSE)  BY <1>3 DEF Failed
  <2>3. Goes  BY <1>1, <2>1, <2>2, FinishedGoes
  <2> QED  BY <2>1, <2>3
<1>4. CASE Top.op \notin {"page", "blocks"}
  BY <1>4 DEF Failed
<1> QED  BY <1>2, <1>3, <1>4

-------------------------------------------------------------------------------
(* The types are kept.                                                      *)

LEMMA GoesTypes ==
  ASSUME WalkAssumption, TypesInv, outcome = "walking", Goes,
         lost' \subseteq Page, errors' \in 0..MaxErrors
  PROVE  TypesInv'
<1>1. PICK fs \in Seq(Frames(source)) : Continue(fs)  BY DEF Goes
<1>2. /\ stack' = fs \o Tail(stack) /\ tries' = 0
      /\ outcome' = IF stack' = <<>> THEN "returned" ELSE "walking"
      /\ UNCHANGED <<source, items, moved, grown, shrunk>>
  BY <1>1 DEF Continue, tree
<1>3. Tail(stack) \in Seq(Frames(source))  BY TopFrame
<1>4. stack' \in Seq(Frames(source))  BY <1>2, <1>3, ConcatProperties
<1>5. 0 \in 0..(MaxRetries - 1)  BY DEF WalkAssumption
<1>6. yielded' \in Seq(Document)  BY DEF Goes
<1>7. OneParent'  BY <1>2 DEF TypesInv, OneParent
<1>8. outcome' \in {"walking", "returned", "raised"} /\ (outcome' = "walking" <=> stack' # <<>>)
  BY <1>2
<1> QED  BY <1>2, <1>4, <1>5, <1>6, <1>7, <1>8 DEF TypesInv

LEMMA RaiseTypes ==
  ASSUME WalkAssumption, TypesInv, Raise, lost' \subseteq Page, errors' \in 0..MaxErrors
  PROVE  TypesInv'
<1>1. <<>> \in Seq(Frames(source))  BY EmptySeq
<1>2. 0 \in 0..(MaxRetries - 1)  BY DEF WalkAssumption
<1>3. OneParent'  BY DEF Raise, tree, TypesInv, OneParent
<1> QED  BY <1>1, <1>2, <1>3 DEF Raise, tree, TypesInv

(* A page that moves is taken from where it was before it is put anywhere.  *)
LEMMA MoveTypes ==
  ASSUME WalkAssumption, TypesInv, NEW p \in Page, Move(p)
  PROVE  TypesInv'
<1> DEFINE without == Without(p)
<1>1. p # Text  BY DEF WalkAssumption
<1>2. /\ without \in [Page -> Seq(Item)]
      /\ \A q \in Page : Range(without[q]) = Range(items[q]) \ {p}
  <2>1. ASSUME NEW q \in Page
        PROVE  But(items[q], p) \in Seq(Item) /\ Range(But(items[q], p)) = Range(items[q]) \ {p}
    <3>1. items[q] \in Seq(Item)  BY DEF TypesInv
    <3>2. But(items[q], p) \in Seq(Item \ {p})  BY <3>1, ButProperties
    <3>3. But(items[q], p) \in Seq(Item)  BY <3>2, SeqMonotonic
    <3> QED  BY <3>1, <3>3, ButProperties
  <2>2. without = [q \in Page |-> But(items[q], p)]  BY DEF Without
  <2> HIDE DEF without
  <2> QED  BY <2>1, <2>2
<1>3. \/ items' = without
      \/ \E q \in Page, first \in BOOLEAN :
           items' = [without EXCEPT ![q] = Insert(without[q], p, first)]
  <2>1. CASE items' = without  BY <2>1
  <2>2. CASE items' # without
    <3>1. PICK q \in Under({Root}) \ Under({p}), first \in BOOLEAN :
            items' = [without EXCEPT ![q] = Insert(@, p, first)]
      BY <2>2 DEF Move
    <3>2. CASE q \in Page  BY <3>1, <3>2
    <3>3. CASE q \notin Page
      <4>1. items' = without
        BY <1>2, <3>1, <3>3
      <4> QED  BY <4>1
    <3> QED  BY <3>2, <3>3
  <2> QED  BY <2>1, <2>2
<1> HIDE DEF without
<1>4. ASSUME NEW q \in Page, NEW first \in BOOLEAN
      PROVE  /\ Insert(without[q], p, first) \in Seq(Item)
             /\ Range(Insert(without[q], p, first)) = Range(without[q]) \cup {p}
  <2> DEFINE s == without[q]
  <2>1. s \in Seq(Item) /\ p \in Item  BY <1>2 DEF Item
  <2> HIDE DEF s
  <2> DEFINE one == <<p>>
  <2>2. /\ one \in Seq(Item) /\ Len(one) = 1 /\ one[1] = p /\ DOMAIN one = {1}
    BY <2>1
  <2>3. Range(one) = {p}  BY <2>2 DEF Range
  <2>4. Append(s, p) = s \o one  BY <2>1, AppendIsConcat
  <2> HIDE DEF one
  <2>5. one \o s \in Seq(Item) /\ s \o one \in Seq(Item)
    BY <2>1, <2>2, ConcatProperties
  <2>6. Range(one \o s) = {p} \cup Range(s) /\ Range(s \o one) = Range(s) \cup {p}
    BY <2>1, <2>2, <2>3, RangeConcatenation
  <2> QED  BY <2>4, <2>5, <2>6 DEF Insert, s, one
<1>5. items' \in [Page -> Seq(Item)]
  <2>1. CASE items' = without  BY <1>2, <2>1
  <2>2. ASSUME NEW q \in Page, NEW first \in BOOLEAN,
               items' = [without EXCEPT ![q] = Insert(without[q], p, first)]
        PROVE  items' \in [Page -> Seq(Item)]
    <3> DEFINE new == Insert(without[q], p, first)
    <3>1. new \in Seq(Item)  BY <1>4
    <3> HIDE DEF new
    <3> QED  BY <1>2, <2>2, <3>1 DEF new
  <2> QED  BY <1>3, <2>1, <2>2
<1>6. OneParent'
  <2>1. \A q, r \in Page : q # r =>
          (Range(items[q]) \ {p}) \cap (Range(items[r]) \ {p}) \subseteq {Text}
    BY DEF TypesInv, OneParent
  <2>2. CASE items' = without
    BY <1>2, <2>1, <2>2 DEF OneParent
  <2>3. ASSUME NEW q \in Page, NEW first \in BOOLEAN,
               items' = [without EXCEPT ![q] = Insert(without[q], p, first)]
        PROVE  OneParent'
    <3>1. \A y : y \in Range(items'[q]) <=> y \in Range(items[q]) \/ y = p
      BY <1>2, <1>4, <2>3
    <3>2. \A r \in Page \ {q} : \A y : y \in Range(items'[r]) <=> y \in Range(items[r]) /\ y # p
      BY <1>2, <2>3
    <3>3. ASSUME NEW r \in Page, NEW t \in Page, r # t,
                 NEW y \in Range(items'[r]), y \in Range(items'[t])
          PROVE  y = Text
      <4>1. y # p
        <5>1. r # q \/ t # q  BY <3>3
        <5> QED  BY <3>2, <3>3, <5>1
      <4>2. y \in Range(items[r]) /\ y \in Range(items[t])  BY <3>1, <3>2, <3>3, <4>1
      <4> QED  BY <3>3, <4>2 DEF TypesInv, OneParent
    <3> QED  BY <3>3 DEF OneParent
  <2> QED  BY <1>3, <2>2, <2>3
<1>7. moved' \cup grown' \cup shrunk' \subseteq Page  BY DEF Move, TypesInv
<1>8. UNCHANGED <<source, stack, yielded, outcome, tries, lost, errors>>  BY DEF Move
<1> QED  BY <1>5, <1>6, <1>7, <1>8 DEF TypesInv

(* The steps that take a frame off: all but refusals, moves and what raises. *)
LEMMA StepsGo ==
  ASSUME WalkAssumption, TypesInv, GetPage \/ GetBlocks \/ Query \/ ListChildren \/ Child
  PROVE  Goes /\ outcome = "walking" /\ UNCHANGED <<lost, errors>>
<1>1. outcome = "walking" /\ UNCHANGED <<lost, errors>>
  BY DEF GetPage, GetBlocks, Query, ListChildren, Child, Asking, Walking
<1> QED  BY <1>1, GetPageGoes, GetBlocksGoes, QueryGoes, ListChildrenGoes, ChildGoes

LEMMA NextTypes == ASSUME WalkAssumption, TypesInv, [Next]_vars PROVE TypesInv'
<1>1. CASE GetPage \/ GetBlocks \/ Query \/ ListChildren \/ Child
  BY <1>1, StepsGo, GoesTypes DEF TypesInv
<1>2. CASE Refused
  <2>1. tries + 1 \in 0..(MaxRetries - 1)
    BY <1>2 DEF Refused, TypesInv, WalkAssumption
  <2>2. OneParent'  BY <1>2 DEF Refused, tree, TypesInv, OneParent
  <2> QED  BY <1>2, <2>1, <2>2 DEF Refused, tree, TypesInv
<1>3. CASE Gone
  <2>1. outcome = "walking" /\ Failed /\ lost' = lost \cup {Top.page} /\ errors' = errors
    BY <1>3 DEF Gone
  <2>2. lost' \subseteq Page /\ errors' \in 0..MaxErrors
    BY <2>1, TopFrame DEF TypesInv
  <2> QED  BY <2>1, <2>2, FailedGoes, GoesTypes, RaiseTypes
<1>4. CASE Error
  <2>1. /\ outcome = "walking" /\ (Failed \/ Raise)
        /\ lost' = lost \cup {Top.page} /\ errors' = errors + 1 /\ errors < MaxErrors
    BY <1>4 DEF Error
  <2>a. Top.page \in Page  BY <2>1, TopFrame
  <2>2. lost' \subseteq Page  BY <2>1, <2>a DEF TypesInv
  <2>3. errors' \in 0..MaxErrors  BY <2>1 DEF TypesInv, WalkAssumption
  <2> QED  BY <2>1, <2>2, <2>3, FailedGoes, GoesTypes, RaiseTypes
<1>5. ASSUME NEW p \in Page, Move(p)  PROVE TypesInv'
  BY <1>5, MoveTypes
<1>6. CASE UNCHANGED vars
  BY <1>6 DEF vars, tree, TypesInv, OneParent
<1> QED  BY <1>1, <1>2, <1>3, <1>4, <1>5, <1>6 DEF Next, Step

LEMMA TypesHold == Spec => []TypesInv
<1> USE WalkAssumption
<1>1. Init => TypesInv  BY InitTypes
<1>2. TypesInv /\ [Next]_vars => TypesInv'  BY NextTypes
<1> QED  BY <1>1, <1>2, PTL DEF Spec

(* Every variable of a walk keeps its type, every page lies under one page  *)
(* at most however authors move them, and a walk is over when its stack is  *)
(* empty (fetch_documents of both sources).                                 *)
THEOREM TypeCorrect == Spec => []TypeOK
  BY TypesHold, TypesInvTypeOK, PTL

-------------------------------------------------------------------------------
(* Failures of a Confluence walk.                                           *)

(* Only its first request may be skipped, and nothing was yielded before.   *)
RootFirst ==
  source # "notion" =>
    /\ \A i \in 1..Len(stack) : stack[i].op = "page" =>
         Len(stack) = 1 /\ stack[i].page = Root /\ yielded = <<>>
    /\ outcome = "walking" => lost = {}
    /\ outcome = "returned" => lost = {} \/ (lost = {Root} /\ yielded = <<>>)

LEMMA GoesRootFirst ==
  ASSUME TypesInv, RootFirst, outcome = "walking", source # "notion", Goes, UNCHANGED lost
  PROVE  RootFirst'
<1>1. PICK fs \in Seq(Frames(source)) : Continue(fs) /\ Read(fs)  BY DEF Goes
<1>2. stack' = fs \o Tail(stack) /\ source' = source
  BY <1>1 DEF Continue
<1>3. /\ stack \in Seq(Frames(source)) /\ stack # <<>> /\ Len(stack) \in Nat \ {0}
      /\ Tail(stack) \in Seq(Frames(source))
  BY TopFrame
<1>4. /\ Len(Tail(stack)) = Len(stack) - 1
      /\ \A i \in 1..Len(Tail(stack)) : Tail(stack)[i] = stack[i + 1]
  BY <1>3, HeadTailProperties
<1> DEFINE t == Tail(stack)
<1>5. /\ Len(fs) \in Nat /\ Len(t) \in Nat /\ Len(fs \o t) = Len(fs) + Len(t)
      /\ \A i \in 1..Len(fs) + Len(t) : (fs \o t)[i] = IF i <= Len(fs) THEN fs[i] ELSE t[i - Len(fs)]
  BY <1>3, ConcatProperties, LenProperties
<1>6. \A i \in 1..Len(t) : t[i].op # "page"
  <2> SUFFICES ASSUME NEW i \in 1..Len(t), t[i].op = "page"  PROVE FALSE
    OBVIOUS
  <2>1. i + 1 \in 1..Len(stack) /\ stack[i + 1].op = "page"  BY <1>3, <1>4, <1>5
  <2>2. Len(stack) = 1  BY <2>1 DEF RootFirst
  <2>3. Len(t) = 0  BY <1>4, <2>2
  <2> HIDE DEF t
  <2> QED  BY <2>3
<1> HIDE DEF t
<1>7. ASSUME NEW i \in 1..Len(fs \o t)  PROVE (fs \o t)[i].op # "page"
  <2>1. CASE i <= Len(fs)
    <3>1. i \in 1..Len(fs)  BY <1>5, <2>1
    <3> QED  BY <1>1, <1>5, <2>1, <3>1 DEF Read
  <2>2. CASE ~(i <= Len(fs))
    <3>1. i - Len(fs) \in 1..Len(t)  BY <1>5, <2>2
    <3> QED  BY <1>5, <1>6, <2>2, <3>1
  <2> QED  BY <2>1, <2>2
<1>8. stack' = fs \o t  BY <1>2 DEF t
<1> QED  BY <1>2, <1>7, <1>8 DEF RootFirst

LEMMA FailureRootFirst ==
  ASSUME WalkAssumption, TypesInv, RootFirst, outcome = "walking", source # "notion",
         Failed \/ Raise, lost' = lost \cup {Top.page}
  PROVE  RootFirst'
<1>1. CASE Raise
  <2>1. stack' = <<>> /\ outcome' = "raised"  BY <1>1 DEF Raise
  <2>2. Len(<<>>) = 0  OBVIOUS
  <2> QED  BY <2>1, <2>2 DEF RootFirst
<1>2. CASE Failed /\ ~Raise
  <2>1. Top.op = "page" /\ Continue(<<>>) /\ yielded' = yielded
    BY <1>2, FailedGoes
  <2>2. /\ stack \in Seq(Frames(source)) /\ stack # <<>> /\ Len(stack) \in Nat \ {0}
        /\ Top = stack[1]
    BY TopFrame
  <2>3. Len(stack) = 1 /\ Top.page = Root /\ yielded = <<>> /\ lost = {}
    BY <2>1, <2>2 DEF RootFirst
  <2>4. Tail(stack) = <<>>
    <3>1. Tail(stack) \in Seq(Frames(source)) /\ Len(Tail(stack)) = 0
      BY <2>2, <2>3, HeadTailProperties
    <3> QED  BY <3>1, EmptySeq
  <2>5. stack' = <<>>
    <3>1. stack' = <<>> \o <<>>  BY <2>1, <2>4 DEF Continue
    <3> QED  BY <3>1, ConcatEmptySeq, EmptySeq
  <2>6. outcome' = "returned"  BY <2>1, <2>5 DEF Continue
  <2>7. lost' = {Root} /\ yielded' = <<>>  BY <2>1, <2>3
  <2>8. Len(<<>>) = 0  OBVIOUS
  <2> QED  BY <2>5, <2>6, <2>7, <2>8 DEF RootFirst
<1> QED  BY <1>1, <1>2

LEMMA NextRootFirst ==
  ASSUME WalkAssumption, TypesInv, RootFirst, [Next]_vars  PROVE RootFirst'
<1>1. source' = source
  BY DEF Next, Step, GetPage, GetBlocks, Query, ListChildren, Child, Refused, Gone, Error, Move,
         Failed, Finished, Continue, Raise, vars
<1> SUFFICES ASSUME source # "notion"  PROVE RootFirst'
  BY <1>1 DEF RootFirst
<1>2. CASE GetPage \/ GetBlocks \/ Query \/ ListChildren \/ Child
  BY <1>2, StepsGo, GoesRootFirst
<1>3. CASE Refused
  BY <1>3 DEF Refused, tree, RootFirst
<1>4. CASE Gone
  BY <1>4, FailureRootFirst DEF Gone
<1>5. CASE Error
  BY <1>5, FailureRootFirst DEF Error
<1>6. ASSUME NEW p \in Page, Move(p)  PROVE RootFirst'
  BY <1>6 DEF Move, RootFirst
<1>7. CASE UNCHANGED vars
  BY <1>7 DEF vars, RootFirst
<1> QED  BY <1>2, <1>3, <1>4, <1>5, <1>6, <1>7 DEF Next, Step

(* A Confluence walk that returns has read all it asked for, or could not   *)
(* read its root and yielded nothing, whatever is moved and whichever       *)
(* requests fail (confluence.py, _fetch_page_tree and _fetch_children).     *)
THEOREM FailuresStayContained == Spec => []FailuresAreContained
<1> USE WalkAssumption
<1>1. Init => RootFirst
  <2> SUFFICES ASSUME Init  PROVE RootFirst
    OBVIOUS
  <2> DEFINE f == Frame(IF source = "space" THEN "children" ELSE "page", Root)
  <2>1. stack = <<f>> /\ f.page = Root /\ yielded = <<>> /\ lost = {} /\ outcome = "walking"
    BY DEF Init, Frame
  <2> HIDE DEF f
  <2>2. Len(stack) = 1 /\ stack[1] = f  BY <2>1
  <2> QED  BY <2>1, <2>2 DEF RootFirst
<1>2. TypesInv /\ RootFirst /\ [Next]_vars => RootFirst'  BY NextRootFirst
<1>3. RootFirst => FailuresAreContained  BY DEF RootFirst, FailuresAreContained
<1> QED  BY <1>1, <1>2, <1>3, TypesHold, PTL DEF Spec
===============================================================================
