--------------------------- MODULE ScanOrder_proofs ---------------------------
(***************************************************************************)
(* The order in which documents were fetched only breaks ties: what each   *)
(* analyzer, the classifier and the passes make of the same documents in   *)
(* another order.  The lemmas are about any order; the property is about   *)
(* the reverse.                                                            *)
(***************************************************************************)
EXTENDS ScanAnalysis_proofs, SequenceTheorems

Fetched == [id : Page, page : Contents]
Versions(d) == <<d.page.title.base, VersionOf(d)>>

(* No two documents of one page, as new, or of one version.                 *)
Untied(docs) ==
  \A i, j \in DOMAIN docs : i # j =>
    /\ docs[i].id # docs[j].id /\ docs[i].page.modified # docs[j].page.modified
    /\ Versions(docs[i]) # Versions(docs[j])

(* The documents of docs, each at the position to which to takes it.        *)
Reordered(docs, others, to) ==
  /\ docs \in Seq(Fetched) /\ others \in Seq(Fetched)
  /\ to \in [DOMAIN docs -> DOMAIN others]
  /\ \A i, j \in DOMAIN docs : to[i] = to[j] => i = j
  /\ \A k \in DOMAIN others : \E i \in DOMAIN docs : k = to[i]
  /\ \A i \in DOMAIN docs : others[to[i]] = docs[i]
  /\ Untied(docs)

Moved(to, I) == {to[i] : i \in I}

LEMMA ReorderedUntied ==
  ASSUME NEW docs, NEW others, NEW to, Reordered(docs, others, to)
  PROVE  Untied(others)
<1> SUFFICES ASSUME NEW k \in DOMAIN others, NEW l \in DOMAIN others, k # l
             PROVE  /\ others[k].id # others[l].id
                    /\ others[k].page.modified # others[l].page.modified
                    /\ Versions(others[k]) # Versions(others[l])
  BY DEF Untied
<1>1. PICK i \in DOMAIN docs : k = to[i]  BY DEF Reordered
<1>2. PICK j \in DOMAIN docs : l = to[j]  BY DEF Reordered
<1>3. i # j /\ others[k] = docs[i] /\ others[l] = docs[j]  BY <1>1, <1>2 DEF Reordered
<1> QED  BY <1>3 DEF Reordered, Untied

(* A set of positions that holds the new position of what another holds.    *)
LEMMA MovedSet ==
  ASSUME NEW docs, NEW others, NEW to, Reordered(docs, others, to),
         NEW I, I \subseteq DOMAIN docs, NEW J, J \subseteq DOMAIN others,
         \A i \in DOMAIN docs : i \in I <=> to[i] \in J
  PROVE  J = Moved(to, I)
BY DEF Reordered, Moved

LEMMA MovedMember ==
  ASSUME NEW docs, NEW others, NEW to, Reordered(docs, others, to),
         NEW I, I \subseteq DOMAIN docs
  PROVE  /\ Moved(to, I) \subseteq DOMAIN others
         /\ \A i \in DOMAIN docs : i \in I <=> to[i] \in Moved(to, I)
         /\ \A i \in I : others[to[i]] = docs[i]
         /\ \A k \in Moved(to, I) : \E i \in I : k = to[i] /\ others[k] = docs[i]
BY DEF Reordered, Moved

LEMMA MovedSize ==
  ASSUME NEW docs, NEW others, NEW to, Reordered(docs, others, to),
         NEW I, I \subseteq DOMAIN docs
  PROVE  /\ I = {} <=> Moved(to, I) = {}
         /\ Cardinality(Moved(to, I)) = Cardinality(I)
<1> DEFINE f == [i \in I |-> to[i]]
<1>1. f \in Bijection(I, Moved(to, I))
  BY DEF Reordered, Moved, Bijection, Injection, Surjection, IsInjective
<1>2. IsFiniteSet(I)
  <2>1. Len(docs) \in Nat /\ DOMAIN docs = 1..Len(docs)  BY DEF Reordered
  <2>2. IsFiniteSet(1..Len(docs))  BY <2>1, FS_Interval
  <2> QED  BY <2>1, <2>2, FS_Subset
<1>3. I = {} <=> Moved(to, I) = {}  BY DEF Moved
<1> QED  BY <1>1, <1>2, <1>3, FS_Bijection DEF ExistsBijection

LEMMA FetchedTypes ==
  ASSUME AnalysisAssumption, NEW docs \in Seq(Fetched), NEW i \in DOMAIN docs
  PROVE  /\ docs[i] \in Fetched /\ docs[i].id \in Page /\ docs[i].page \in Content
         /\ docs[i].page.modified \in Nat /\ VersionOf(docs[i]) \in Nat
<1>1. docs[i] \in Fetched  BY ElementsOf
<1>2. docs[i].id \in Page /\ docs[i].page \in Content
  BY <1>1 DEF Fetched, AnalysisAssumption
<1>3. docs[i].page.modified \in Nat /\ docs[i].page.body \in Body /\ docs[i].page.title \in Title
  BY <1>2 DEF Content
<1>4. docs[i].page.body.version \in Nat /\ docs[i].page.title.version \in Nat
  BY <1>3 DEF Body, Title
<1>5. VersionOf(docs[i]) \in Nat
  BY <1>4 DEF VersionOf, IsYear
<1> QED  BY <1>1, <1>2, <1>3, <1>5

LEMMA OneById ==
  ASSUME NEW docs \in Seq(Fetched), Untied(docs), NEW i \in DOMAIN docs
  PROVE  ById(docs, docs[i].id) = {i}
BY DEF Untied, ById

LEMMA ByIdMoved ==
  ASSUME NEW docs, NEW others, NEW to, Reordered(docs, others, to), NEW p
  PROVE  /\ ById(others, p) = Moved(to, ById(docs, p))
         /\ Others(others, p) = Moved(to, Others(docs, p))
<1>1. \A i \in DOMAIN docs : others[to[i]] = docs[i] /\ to[i] \in DOMAIN others
  BY DEF Reordered
<1>2. \A i \in DOMAIN docs : /\ i \in ById(docs, p) <=> to[i] \in ById(others, p)
                             /\ i \in Others(docs, p) <=> to[i] \in Others(others, p)
  BY <1>1 DEF ById, Others
<1>3. /\ ById(docs, p) \subseteq DOMAIN docs /\ ById(others, p) \subseteq DOMAIN others
      /\ Others(docs, p) \subseteq DOMAIN docs /\ Others(others, p) \subseteq DOMAIN others
  BY DEF ById, Others
<1> QED  BY <1>2, <1>3, MovedSet

LEMMA IdsMoved ==
  ASSUME NEW docs, NEW others, NEW to, Reordered(docs, others, to)
  PROVE  Ids(others) = Ids(docs)
BY DEF Reordered, Ids

LEMMA DocMoved ==
  ASSUME NEW docs, NEW others, NEW to, Reordered(docs, others, to), NEW p \in Ids(docs)
  PROVE  Doc(others, p) = Doc(docs, p)
<1>1. PICK i \in DOMAIN docs : Doc(docs, p) = docs[i] /\ docs[i].id = p
  BY DocIsOne DEF Reordered
<1>a. p \in Ids(others) /\ others \in Seq(Fetched)  BY IdsMoved DEF Reordered
<1>2. PICK k \in DOMAIN others : Doc(others, p) = others[k] /\ others[k].id = p
  BY <1>a, DocIsOne
<1>3. others[to[i]] = docs[i] /\ to[i] \in DOMAIN others  BY DEF Reordered
<1>4. k = to[i]  BY <1>1, <1>2, <1>3, ReorderedUntied DEF Untied
<1> QED  BY <1>1, <1>2, <1>3, <1>4

-------------------------------------------------------------------------------
(* SimilarityAnalyzer.                                                      *)

LEMMA NewestIsLatest ==
  ASSUME AnalysisAssumption, NEW docs \in Seq(Fetched), Untied(docs),
         NEW I, I \subseteq DOMAIN docs, I # {}
  PROVE  /\ Newest(docs, I) \in I
         /\ \A j \in I \ {Newest(docs, I)} :
              docs[Newest(docs, I)].page.modified > docs[j].page.modified
<1> DEFINE f == [i \in DOMAIN docs |-> docs[i].page.modified]
           isNewest(i) == \A j \in I \ {i} :
                          \/ docs[i].page.modified > docs[j].page.modified
                          \/ docs[i].page.modified = docs[j].page.modified /\ i < j
<1>1. \A i \in DOMAIN docs : docs[i].page.modified \in Nat  BY FetchedTypes
<1>2. \A i, j \in DOMAIN docs : i # j => docs[i].page.modified # docs[j].page.modified
  BY DEF Untied
<1>3. \E i \in I : \A j \in I : f[j] <= f[i]
  <2>1. Len(docs) \in Nat /\ I \subseteq 1..Len(docs)  OBVIOUS
  <2>2. \A i \in I : f[i] \in Nat  BY <1>1
  <2> HIDE DEF f
  <2> QED  BY <2>1, <2>2, HighestOf
<1>4. PICK i \in I : \A j \in I : docs[j].page.modified <= docs[i].page.modified
  BY <1>3
<1>5. isNewest(i)
  BY <1>1, <1>2, <1>4
<1>6. Newest(docs, I) \in I /\ isNewest(Newest(docs, I))
  BY <1>5 DEF Newest
<1> QED  BY <1>2, <1>6

LEMMA NewestMoved ==
  ASSUME AnalysisAssumption, NEW docs, NEW others, NEW to, Reordered(docs, others, to),
         NEW I, I \subseteq DOMAIN docs, I # {}
  PROVE  Newest(others, Moved(to, I)) = to[Newest(docs, I)] /\ Newest(docs, I) \in I
<1> DEFINE x == Newest(docs, I)
           y == Newest(others, Moved(to, I))
<1>1. docs \in Seq(Fetched) /\ others \in Seq(Fetched) /\ Untied(docs) /\ Untied(others)
  BY ReorderedUntied DEF Reordered
<1>2. Moved(to, I) \subseteq DOMAIN others /\ Moved(to, I) # {}
  BY MovedMember, MovedSize
<1>3. x \in I /\ \A j \in I \ {x} : docs[x].page.modified > docs[j].page.modified
  BY <1>1, NewestIsLatest
<1>4. /\ y \in Moved(to, I)
      /\ \A j \in Moved(to, I) \ {y} : others[y].page.modified > others[j].page.modified
  BY <1>1, <1>2, NewestIsLatest
<1>5. PICK i \in I : y = to[i] /\ others[y] = docs[i]
  BY <1>4, MovedMember
<1>6. others[to[x]] = docs[x] /\ to[x] \in Moved(to, I)
  BY <1>3, MovedMember
<1>7. docs[x].page.modified \in Nat /\ docs[i].page.modified \in Nat
  BY <1>1, <1>3, FetchedTypes
<1> HIDE DEF x, y
<1>8. x = i
  BY <1>3, <1>4, <1>5, <1>6, <1>7
<1> QED  BY <1>3, <1>5, <1>8 DEF x, y

LEMMA OriginalsMoved ==
  ASSUME AnalysisAssumption, NEW docs, NEW others, NEW to, Reordered(docs, others, to),
         NEW i \in DOMAIN docs
  PROVE  /\ Originals(docs, i) \subseteq DOMAIN docs
         /\ Originals(others, to[i]) = Moved(to, Originals(docs, i))
<1>1. \A j \in DOMAIN docs : others[to[j]] = docs[j] /\ to[j] \in DOMAIN others
  BY DEF Reordered
<1>2. Twins(others, to[i]) = Moved(to, Twins(docs, i))
  <2>1. \A j \in DOMAIN docs : j \in Twins(docs, i) <=> to[j] \in Twins(others, to[i])
    BY <1>1 DEF Twins
  <2>2. Twins(docs, i) \subseteq DOMAIN docs /\ Twins(others, to[i]) \subseteq DOMAIN others
    BY DEF Twins
  <2> QED  BY <2>1, <2>2, MovedSet
<1>3. Twins(docs, i) \subseteq DOMAIN docs /\ i \in Twins(docs, i)
  BY DEF Twins
<1>4. /\ Newest(others, Twins(others, to[i])) = to[Newest(docs, Twins(docs, i))]
      /\ Newest(docs, Twins(docs, i)) \in Twins(docs, i)
  BY <1>2, <1>3, NewestMoved
<1>5. \A j \in DOMAIN docs : to[j] = to[i] => j = i  BY DEF Reordered
<1> QED  BY <1>3, <1>4, <1>5 DEF Originals, Moved

LEMMA SuccessorsMoved ==
  ASSUME AnalysisAssumption, NEW docs, NEW others, NEW to, Reordered(docs, others, to),
         NEW i \in DOMAIN docs
  PROVE  /\ Successors(docs, i) \subseteq DOMAIN docs
         /\ Successors(others, to[i]) = Moved(to, Successors(docs, i))
         /\ \A j, k \in Successors(docs, i) : j = k
<1>1. \A j \in DOMAIN docs : others[to[j]] = docs[j] /\ to[j] \in DOMAIN others
  BY DEF Reordered
<1> DEFINE base == docs[i].page.title.base
           G == Versioned(docs, base)
           H == Versioned(others, base)
           ahead(j) == \A k \in G \ {j} : VersionOf(docs[j]) > VersionOf(docs[k])
           aheadThere(l) == \A k \in H \ {l} : VersionOf(others[l]) > VersionOf(others[k])
           eligible == \A k \in ById(docs, docs[i].id) : Originals(docs, k) = {}
           eligibleThere == \A k \in ById(others, docs[i].id) : Originals(others, k) = {}
<1>2. H = Moved(to, G) /\ G \subseteq DOMAIN docs /\ H \subseteq DOMAIN others
  <2>1. \A j \in DOMAIN docs : j \in G <=> to[j] \in H
    BY <1>1 DEF Versioned
  <2>2. G \subseteq DOMAIN docs /\ H \subseteq DOMAIN others
    BY DEF Versioned
  <2> HIDE DEF G, H
  <2> QED  BY <2>1, <2>2, MovedSet
<1>3. ASSUME NEW ds \in Seq(Fetched), Untied(ds), NEW x \in DOMAIN ds,
             ds[x].page.title.base = base
      PROVE  Successors(ds, x) =
               IF x \in Versioned(ds, base) /\ \A k \in ById(ds, ds[x].id) : Originals(ds, k) = {}
               THEN {j \in Versioned(ds, base) :
                       /\ \A k \in Versioned(ds, base) \ {j} : VersionOf(ds[j]) > VersionOf(ds[k])
                       /\ VersionOf(ds[x]) < VersionOf(ds[j])}
               ELSE {}
  <2>1. \A j \in Versioned(ds, base) :
          j \in DOMAIN ds /\ ds[j].page.title.base = base /\ VersionOf(ds[j]) \in Nat
    BY <1>3, FetchedTypes DEF Versioned
  <2>2. \A j, k \in Versioned(ds, base) : j # k => VersionOf(ds[j]) # VersionOf(ds[k])
    BY <1>3, <2>1 DEF Untied, Versions
  <2>3. \A j \in Versioned(ds, base) :
          (\A k \in Versioned(ds, base) \ {j} :
             \/ VersionOf(ds[j]) > VersionOf(ds[k])
             \/ VersionOf(ds[j]) = VersionOf(ds[k]) /\ j < k)
          <=> (\A k \in Versioned(ds, base) \ {j} : VersionOf(ds[j]) > VersionOf(ds[k]))
    BY <2>1, <2>2
  <2>4. Leader(ds, x) =
          IF x \in Versioned(ds, base)
          THEN {j \in Versioned(ds, base) :
                  /\ \A k \in Versioned(ds, base) \ {j} : VersionOf(ds[j]) > VersionOf(ds[k])
                  /\ VersionOf(ds[x]) < VersionOf(ds[j])}
          ELSE {}
    BY <1>3, <2>3 DEF Leader
  <2>5. ~BaseMetBefore(ds, x, x)
    <3>1. \A m \in Versioned(ds, base) : m \in Nat  BY <1>3, <2>1
    <3>2. \A m \in Versioned(ds, base) : ~(m < m)  BY <3>1
    <3> QED  BY <1>3, <3>2 DEF BaseMetBefore
  <2>6. Successors(ds, x) =
          IF \A k \in ById(ds, ds[x].id) : Originals(ds, k) = {} THEN Leader(ds, x) ELSE {}
    <3>1. ById(ds, ds[x].id) = {x}  BY <1>3, OneById
    <3> QED  BY <2>5, <3>1 DEF Successors
  <2> QED  BY <2>4, <2>6
<1>4. docs \in Seq(Fetched) /\ others \in Seq(Fetched) /\ Untied(docs) /\ Untied(others)
  BY ReorderedUntied DEF Reordered
<1>5. others[to[i]] = docs[i] /\ to[i] \in DOMAIN others  BY <1>1
<1>6. Successors(docs, i) =
        IF i \in G /\ eligible
        THEN {j \in G : ahead(j) /\ VersionOf(docs[i]) < VersionOf(docs[j])} ELSE {}
  BY <1>3, <1>4
<1>7. Successors(others, to[i]) =
        IF to[i] \in H /\ eligibleThere
        THEN {j \in H : aheadThere(j) /\ VersionOf(docs[i]) < VersionOf(others[j])} ELSE {}
  BY <1>3, <1>4, <1>5
<1>8. i \in G <=> to[i] \in H
  BY <1>5 DEF Versioned
<1>9. eligible <=> eligibleThere
  <2>1. ById(docs, docs[i].id) = {i} /\ ById(others, docs[i].id) = {to[i]}
    <3>1. ById(others, others[to[i]].id) = {to[i]}  BY <1>4, <1>5, OneById
    <3> QED  BY <1>4, <1>5, <3>1, OneById
  <2>2. Originals(docs, i) = {} <=> Originals(others, to[i]) = {}
    BY OriginalsMoved, MovedSize
  <2> QED  BY <2>1, <2>2
<1>10. ASSUME NEW j \in G  PROVE ahead(j) <=> aheadThere(to[j])
  <2>1. \A k \in G : to[k] = to[j] <=> k = j  BY <1>2 DEF Reordered
  <2>2. \A k \in G : others[to[k]] = docs[k] /\ to[k] \in H
    BY <1>1, <1>2 DEF Moved
  <2>3. \A l \in H : \E k \in G : l = to[k]  BY <1>2 DEF Moved
  <2> HIDE DEF G, H
  <2> QED  BY <2>1, <2>2, <2>3
<1>11. ASSUME NEW j \in DOMAIN docs
       PROVE  j \in Successors(docs, i) <=> to[j] \in Successors(others, to[i])
  <2>1. j \in G <=> to[j] \in H  BY <1>1 DEF Versioned
  <2> HIDE DEF G, H, ahead, aheadThere, eligible, eligibleThere
  <2> QED  BY <1>1, <1>6, <1>7, <1>8, <1>9, <1>10, <2>1
<1>12. Successors(docs, i) \subseteq DOMAIN docs /\ Successors(others, to[i]) \subseteq DOMAIN others
  <2> HIDE DEF G, H, ahead, aheadThere, eligible, eligibleThere
  <2> QED  BY <1>2, <1>6, <1>7
<1>13. ASSUME NEW j \in Successors(docs, i), NEW k \in Successors(docs, i), j # k  PROVE FALSE
  <2>1. j \in G /\ ahead(j) /\ k \in G /\ ahead(k)
    <3> HIDE DEF G, H, ahead, eligible
    <3> QED  BY <1>6, <1>13
  <2>2. VersionOf(docs[j]) > VersionOf(docs[k]) /\ VersionOf(docs[k]) > VersionOf(docs[j])
    BY <1>13, <2>1
  <2>3. VersionOf(docs[j]) \in Nat /\ VersionOf(docs[k]) \in Nat
    BY <1>2, <1>4, <2>1, FetchedTypes
  <2> QED  BY <2>2, <2>3
<1> QED  BY <1>11, <1>12, <1>13, MovedSet

LEMMA LookalikesOf ==
  ASSUME AnalysisAssumption, NEW docs \in Seq(Fetched), Untied(docs), NEW i \in DOMAIN docs
  PROVE  Lookalikes(docs, i) =
           {j \in DOMAIN docs \ {i} :
              /\ docs[j].page.body.words = docs[i].page.body.words
              /\ docs[j].page.body # docs[i].page.body
              /\ docs[i].page.modified < docs[j].page.modified}
<1> DEFINE exact(j) == \E k \in ById(docs, docs[i].id) : \E l \in ById(docs, docs[j].id) \ {k} :
                         docs[k].page.body = docs[l].page.body
<1>1. ASSUME NEW j \in DOMAIN docs \ {i}
      PROVE  exact(j) <=> docs[j].page.body = docs[i].page.body
  <2>1. ById(docs, docs[i].id) = {i} /\ ById(docs, docs[j].id) = {j}  BY OneById
  <2> QED  BY <2>1
<1>2. \A j \in DOMAIN docs \ {i} : docs[i].page.modified # docs[j].page.modified
  BY DEF Untied
<1> QED  BY <1>1, <1>2 DEF Lookalikes

LEMMA LookalikesMoved ==
  ASSUME AnalysisAssumption, NEW docs, NEW others, NEW to, Reordered(docs, others, to),
         NEW i \in DOMAIN docs
  PROVE  /\ Lookalikes(docs, i) \subseteq DOMAIN docs
         /\ Lookalikes(others, to[i]) = Moved(to, Lookalikes(docs, i))
<1>1. \A j \in DOMAIN docs : /\ others[to[j]] = docs[j] /\ to[j] \in DOMAIN others
                             /\ to[j] = to[i] <=> j = i
  BY DEF Reordered
<1>2. docs \in Seq(Fetched) /\ others \in Seq(Fetched) /\ Untied(docs) /\ Untied(others)
  BY ReorderedUntied DEF Reordered
<1> DEFINE I == Lookalikes(docs, i)
           J == Lookalikes(others, to[i])
<1>3. /\ I = {j \in DOMAIN docs \ {i} :
                /\ docs[j].page.body.words = docs[i].page.body.words
                /\ docs[j].page.body # docs[i].page.body
                /\ docs[i].page.modified < docs[j].page.modified}
      /\ J = {j \in DOMAIN others \ {to[i]} :
                /\ others[j].page.body.words = others[to[i]].page.body.words
                /\ others[j].page.body # others[to[i]].page.body
                /\ others[to[i]].page.modified < others[j].page.modified}
  BY <1>1, <1>2, LookalikesOf
<1> HIDE DEF I, J
<1>4. \A j \in DOMAIN docs : j \in I <=> to[j] \in J
  BY <1>1, <1>3
<1>5. I \subseteq DOMAIN docs /\ J \subseteq DOMAIN others
  BY <1>3
<1>6. J = Moved(to, I)
  BY <1>4, <1>5, MovedSet
<1> QED  BY <1>5, <1>6 DEF I, J

LEMMA SimilarityMoved ==
  ASSUME AnalysisAssumption, NEW docs, NEW others, NEW to, Reordered(docs, others, to),
         NEW i \in DOMAIN docs
  PROVE  SimilaritySignals(others, to[i]) = SimilaritySignals(docs, i)
<1>1. ASSUME NEW I, I \subseteq DOMAIN docs, NEW type
      PROVE  {Signal(type, others[j].id) : j \in Moved(to, I)} = {Signal(type, docs[j].id) : j \in I}
  <2>1. \A j \in I : to[j] \in Moved(to, I) /\ others[to[j]] = docs[j]
    BY <1>1, MovedMember DEF Moved
  <2>2. \A k \in Moved(to, I) : \E j \in I : others[k] = docs[j]
    BY <1>1, MovedMember
  <2> QED  BY <2>1, <2>2
<1>2. {Signal("duplicate", others[j].id) : j \in Originals(others, to[i])}
        = {Signal("duplicate", docs[j].id) : j \in Originals(docs, i)}
  <2>1. /\ Originals(docs, i) \subseteq DOMAIN docs
        /\ Originals(others, to[i]) = Moved(to, Originals(docs, i))
    BY OriginalsMoved
  <2> QED  BY <1>1, <2>1
<1>3. {Signal("version_marker", others[j].id) : j \in Successors(others, to[i])}
        = {Signal("version_marker", docs[j].id) : j \in Successors(docs, i)}
  <2>1. /\ Successors(docs, i) \subseteq DOMAIN docs
        /\ Successors(others, to[i]) = Moved(to, Successors(docs, i))
    BY SuccessorsMoved
  <2> QED  BY <1>1, <2>1
<1>4. {Signal("near_duplicate", others[j].id) : j \in Lookalikes(others, to[i])}
        = {Signal("near_duplicate", docs[j].id) : j \in Lookalikes(docs, i)}
  <2>1. /\ Lookalikes(docs, i) \subseteq DOMAIN docs
        /\ Lookalikes(others, to[i]) = Moved(to, Lookalikes(docs, i))
    BY LookalikesMoved
  <2> QED  BY <1>1, <2>1
<1> QED  BY <1>2, <1>3, <1>4, Zenon DEF SimilaritySignals

-------------------------------------------------------------------------------
(* ReferenceAnalyzer, InternalLinkAnalyzer and the siblings of a document.  *)

LEMMA TitledMoved ==
  ASSUME NEW docs, NEW others, NEW to, Reordered(docs, others, to), NEW p, NEW t
  PROVE  /\ BaseTitled(docs, p, t) \subseteq DOMAIN docs
         /\ BaseTitled(others, p, t) = Moved(to, BaseTitled(docs, p, t))
         /\ Matches(docs, p, t) \subseteq DOMAIN docs
         /\ Matches(others, p, t) = Moved(to, Matches(docs, p, t))
<1>1. /\ Others(docs, p) \subseteq DOMAIN docs
      /\ \A i \in DOMAIN docs : /\ others[to[i]] = docs[i] /\ to[i] \in DOMAIN others
                                /\ i \in Others(docs, p) <=> to[i] \in Others(others, p)
  BY DEF Reordered, Others
<1>2. Others(others, p) \subseteq DOMAIN others  BY DEF Others
<1>3. /\ BaseTitled(docs, p, t) \subseteq DOMAIN docs /\ Titled(docs, p, t) \subseteq DOMAIN docs
      /\ BaseTitled(others, p, t) \subseteq DOMAIN others
      /\ Titled(others, p, t) \subseteq DOMAIN others
  BY <1>1, <1>2 DEF BaseTitled, Titled
<1>4. BaseTitled(others, p, t) = Moved(to, BaseTitled(docs, p, t))
  <2> DEFINE I == BaseTitled(docs, p, t)
             J == BaseTitled(others, p, t)
  <2>1. \A i \in DOMAIN docs : i \in I <=> to[i] \in J
    BY <1>1 DEF BaseTitled
  <2>2. I \subseteq DOMAIN docs /\ J \subseteq DOMAIN others
    BY <1>3
  <2> HIDE DEF I, J
  <2>3. J = Moved(to, I)  BY <2>1, <2>2, MovedSet
  <2> QED  BY <2>3 DEF I, J
<1>5. Titled(others, p, t) = Moved(to, Titled(docs, p, t))
  <2>1. \A i \in DOMAIN docs : i \in Titled(docs, p, t) <=> to[i] \in Titled(others, p, t)
    BY <1>1 DEF Titled
  <2> QED  BY <1>3, <2>1, MovedSet
<1>6. Titled(docs, p, t) = {} <=> Titled(others, p, t) = {}
  BY <1>3, <1>5, MovedSize
<1> QED  BY <1>3, <1>4, <1>5, <1>6 DEF Matches

LEMMA SiblingsMoved ==
  ASSUME NEW docs, NEW others, NEW to, Reordered(docs, others, to), NEW d
  PROVE  Siblings(others, d) = Siblings(docs, d)
<1>1. ASSUME NEW ds \in Seq(Fetched), Untied(ds)
      PROVE  Siblings(ds, d) = {ds[i] : i \in BaseTitled(ds, d.id, d.page.title)}
  <2>1. ASSUME NEW j \in BaseTitled(ds, d.id, d.page.title)
        PROVE  \A k \in ById(ds, ds[j].id) : k <= j
    <3>1. j \in DOMAIN ds  BY DEF BaseTitled, Others
    <3>2. j \in Nat  BY <1>1, <3>1
    <3>3. ById(ds, ds[j].id) = {j}  BY <1>1, <3>1, OneById
    <3> QED  BY <3>2, <3>3
  <2> QED  BY <2>1 DEF Siblings
<1>2. docs \in Seq(Fetched) /\ others \in Seq(Fetched) /\ Untied(docs) /\ Untied(others)
  BY ReorderedUntied DEF Reordered
<1> DEFINE I == BaseTitled(docs, d.id, d.page.title)
<1>3. /\ I \subseteq DOMAIN docs
      /\ BaseTitled(others, d.id, d.page.title) = Moved(to, I)
  BY TitledMoved
<1>4. {others[k] : k \in Moved(to, I)} = {docs[i] : i \in I}
  <2>1. \A i \in I : to[i] \in Moved(to, I) /\ others[to[i]] = docs[i]
    BY <1>3, MovedMember DEF Moved
  <2>2. \A k \in Moved(to, I) : \E i \in I : others[k] = docs[i]
    BY <1>3, MovedMember
  <2> HIDE DEF I
  <2> QED  BY <2>1, <2>2
<1> QED  BY <1>1, <1>2, <1>3, <1>4

LEMMA ResolvedMoved ==
  ASSUME NEW docs, NEW others, NEW to, Reordered(docs, others, to),
         NEW I, I \subseteq DOMAIN docs, NEW one, NEW many, NEW none
  PROVE  Resolved(others, Moved(to, I), one, many, none) = Resolved(docs, I, one, many, none)
<1>1. {Signal(one, others[k].id) : k \in Moved(to, I)} = {Signal(one, docs[i].id) : i \in I}
  <2>1. \A i \in I : to[i] \in Moved(to, I) /\ others[to[i]] = docs[i]
    BY MovedMember DEF Moved
  <2>2. \A k \in Moved(to, I) : \E i \in I : others[k] = docs[i]
    BY MovedMember
  <2> QED  BY <2>1, <2>2
<1>2. I = {} <=> Moved(to, I) = {}  BY MovedSize
<1>3. Cardinality(Moved(to, I)) = Cardinality(I)  BY MovedSize
<1> QED  BY <1>1, <1>2, <1>3, Zenon DEF Resolved

LEMMA CandidatesMoved ==
  ASSUME NEW docs, NEW others, NEW to, Reordered(docs, others, to), NEW d, NEW l
  PROVE  /\ Candidates(docs, d, l) \subseteq DOMAIN docs
         /\ Candidates(others, d, l) = Moved(to, Candidates(docs, d, l))
<1>1. docs \in Seq(Fetched) /\ others \in Seq(Fetched) /\ Untied(docs) /\ Untied(others)
  BY ReorderedUntied DEF Reordered
<1>2. ById(others, l.id) = Moved(to, ById(docs, l.id)) /\ ById(docs, l.id) \subseteq DOMAIN docs
  BY ByIdMoved DEF ById
<1> DEFINE last(ds) == CHOOSE i \in ById(ds, l.id) : \A j \in ById(ds, l.id) : j <= i
<1>3. CASE l.id \notin {None, d.id} /\ ById(docs, l.id) # {}
  <2>1. PICK i \in DOMAIN docs : docs[i].id = l.id
    BY <1>3 DEF ById
  <2>2. ById(docs, l.id) = {i}
    BY <1>1, <2>1, OneById
  <2>3. ById(others, l.id) = {to[i]}
    BY <1>2, <2>2 DEF Moved
  <2>4. i \in Nat /\ to[i] \in Nat
    BY <2>1, <1>1 DEF Reordered
  <2>5. last(docs) = i /\ last(others) = to[i]
    BY <2>2, <2>3, <2>4
  <2>6. Candidates(docs, d, l) = {i} /\ Candidates(others, d, l) = {to[i]}
    BY <1>3, <2>3, <2>5 DEF Candidates
  <2> QED  BY <2>1, <2>6 DEF Moved
<1>4. CASE ~(l.id \notin {None, d.id} /\ ById(docs, l.id) # {})
  <2>1. ~(l.id \notin {None, d.id} /\ ById(others, l.id) # {})
    BY <1>2, <1>4, MovedSize
  <2>2. /\ Candidates(docs, d, l) = IF l.title = None THEN {} ELSE Matches(docs, d.id, l.title)
        /\ Candidates(others, d, l) = IF l.title = None THEN {} ELSE Matches(others, d.id, l.title)
    BY <1>4, <2>1 DEF Candidates
  <2>3. {} = Moved(to, {})  BY DEF Moved
  <2>4. /\ Matches(docs, d.id, l.title) \subseteq DOMAIN docs
        /\ Matches(others, d.id, l.title) = Moved(to, Matches(docs, d.id, l.title))
    BY TitledMoved
  <2> QED  BY <2>2, <2>3, <2>4
<1> QED  BY <1>3, <1>4

Replacements(docs, d) ==
  UNION {C \in {Candidates(docs, d, l) : l \in {k \in d.page.links : k.wording = "replacement"}} :
           Cardinality(C) = 1}

LEMMA ReplacementsMoved ==
  ASSUME NEW docs, NEW others, NEW to, Reordered(docs, others, to), NEW d
  PROVE  /\ Replacements(docs, d) \subseteq DOMAIN docs
         /\ Replacements(others, d) = Moved(to, Replacements(docs, d))
<1> DEFINE L == {k \in d.page.links : k.wording = "replacement"}
<1>1. ASSUME NEW ds, NEW k
      PROVE  k \in Replacements(ds, d) <=>
               \E l \in L : k \in Candidates(ds, d, l) /\ Cardinality(Candidates(ds, d, l)) = 1
  BY DEF Replacements
<1> HIDE DEF L
<1>2. ASSUME NEW l
      PROVE  /\ Candidates(docs, d, l) \subseteq DOMAIN docs
             /\ Candidates(others, d, l) \subseteq DOMAIN others
             /\ \A k \in DOMAIN docs : k \in Candidates(docs, d, l) <=> to[k] \in Candidates(others, d, l)
             /\ Cardinality(Candidates(others, d, l)) = Cardinality(Candidates(docs, d, l))
  <2> DEFINE I == Candidates(docs, d, l)
  <2>1. I \subseteq DOMAIN docs /\ Candidates(others, d, l) = Moved(to, I)
    BY CandidatesMoved
  <2> HIDE DEF I
  <2>2. Moved(to, I) \subseteq DOMAIN others /\ \A k \in DOMAIN docs : k \in I <=> to[k] \in Moved(to, I)
    BY <2>1, MovedMember
  <2>3. Cardinality(Moved(to, I)) = Cardinality(I)
    BY <2>1, MovedSize
  <2> QED  BY <2>1, <2>2, <2>3 DEF I
<1>3. Replacements(docs, d) \subseteq DOMAIN docs /\ Replacements(others, d) \subseteq DOMAIN others
  BY <1>1, <1>2
<1>4. \A k \in DOMAIN docs : k \in Replacements(docs, d) <=> to[k] \in Replacements(others, d)
  BY <1>1, <1>2
<1> QED  BY <1>3, <1>4, MovedSet

(* The titles that stale reasons quote are the same in any order.           *)
LEMMA QuotedMoved ==
  ASSUME AnalysisAssumption, NEW docs, NEW others, NEW to, Reordered(docs, others, to), NEW p
  PROVE  QuotedTitles(others, p) = QuotedTitles(docs, p)
<1> DEFINE named(ds, i) == Originals(ds, i) \cup Successors(ds, i) \cup Replacements(ds, ds[i])
<1>1. ASSUME NEW ds, NEW t
      PROVE  t \in QuotedTitles(ds, p) <=>
               \E i \in ById(ds, p) : \E k \in named(ds, i) : t = ds[k].page.title
  BY DEF QuotedTitles, Replacements
<1>2. ASSUME NEW i \in DOMAIN docs
      PROVE  named(docs, i) \subseteq DOMAIN docs /\ named(others, to[i]) = Moved(to, named(docs, i))
  <2>1. others[to[i]] = docs[i]  BY DEF Reordered
  <2>2. /\ Originals(docs, i) \subseteq DOMAIN docs
        /\ Originals(others, to[i]) = Moved(to, Originals(docs, i))
    BY OriginalsMoved
  <2>3. /\ Successors(docs, i) \subseteq DOMAIN docs
        /\ Successors(others, to[i]) = Moved(to, Successors(docs, i))
    BY SuccessorsMoved
  <2>4. /\ Replacements(docs, docs[i]) \subseteq DOMAIN docs
        /\ Replacements(others, docs[i]) = Moved(to, Replacements(docs, docs[i]))
    BY ReplacementsMoved
  <2>5. \A I, J, K : Moved(to, I \cup J \cup K) = Moved(to, I) \cup Moved(to, J) \cup Moved(to, K)
    BY DEF Moved
  <2>6. named(docs, i) \subseteq DOMAIN docs
    BY <2>2, <2>3, <2>4
  <2>7. named(others, to[i]) = Moved(to, named(docs, i))
    <3> DEFINE A == Originals(docs, i)
               B == Successors(docs, i)
               C == Replacements(docs, docs[i])
    <3>1. named(others, to[i]) = Moved(to, A) \cup Moved(to, B) \cup Moved(to, C)
      BY <2>1, <2>2, <2>3, <2>4
    <3> HIDE DEF named, A, B, C
    <3>2. Moved(to, A \cup B \cup C) = Moved(to, A) \cup Moved(to, B) \cup Moved(to, C)
      BY <2>5
    <3> QED  BY <3>1, <3>2 DEF named, A, B, C
  <2> QED  BY <2>6, <2>7
<1> HIDE DEF named
<1>3. ASSUME NEW i \in DOMAIN docs
      PROVE  /\ \A k \in named(docs, i) : to[k] \in named(others, to[i]) /\ others[to[k]] = docs[k]
             /\ \A k \in named(others, to[i]) : \E j \in named(docs, i) : others[k] = docs[j]
  <2>1. \A k \in named(docs, i) : to[k] \in Moved(to, named(docs, i))  BY DEF Moved
  <2> QED  BY <1>2, <2>1, MovedMember
<1>4. /\ ById(docs, p) \subseteq DOMAIN docs
      /\ \A i \in ById(docs, p) : to[i] \in ById(others, p)
      /\ \A k \in ById(others, p) : \E i \in ById(docs, p) : k = to[i]
  BY ByIdMoved DEF ById, Moved
<1>5. \A t : t \in QuotedTitles(others, p) <=> t \in QuotedTitles(docs, p)
  <2>1. ASSUME NEW t \in QuotedTitles(docs, p)  PROVE t \in QuotedTitles(others, p)
    <3>1. PICK i \in ById(docs, p) : \E k \in named(docs, i) : t = docs[k].page.title
      BY <1>1
    <3> QED  BY <1>1, <1>3, <1>4, <3>1
  <2>2. ASSUME NEW t \in QuotedTitles(others, p)  PROVE t \in QuotedTitles(docs, p)
    <3>1. PICK l \in ById(others, p) : \E k \in named(others, l) : t = others[k].page.title
      BY <1>1
    <3>2. PICK i \in ById(docs, p) : l = to[i]
      BY <1>4
    <3> QED  BY <1>1, <1>3, <1>4, <3>1, <3>2
  <2> QED  BY <2>1, <2>2
<1>6. \A I, J : (\A t : t \in I <=> t \in J) => I = J  OBVIOUS
<1> QED  BY <1>5, <1>6

LEMMA ReferencesMoved ==
  ASSUME NEW docs, NEW others, NEW to, Reordered(docs, others, to), NEW d
  PROVE  /\ ReferenceSignals(others, d) = ReferenceSignals(docs, d)
         /\ LinkSignals(others, d) = LinkSignals(docs, d)
<1>1. ASSUME NEW t, NEW none
      PROVE  Resolved(others, Matches(others, d.id, t),
                      "resolved_reference", "ambiguous_reference", none)
               = Resolved(docs, Matches(docs, d.id, t),
                          "resolved_reference", "ambiguous_reference", none)
  BY TitledMoved, ResolvedMoved
<1>2. ReferenceSignals(others, d) = ReferenceSignals(docs, d)
  BY <1>1 DEF ReferenceSignals
<1>3. ASSUME NEW l, NEW one, NEW none
      PROVE  Resolved(others, Candidates(others, d, l), one, "ambiguous_internal_link", none)
               = Resolved(docs, Candidates(docs, d, l), one, "ambiguous_internal_link", none)
  BY CandidatesMoved, ResolvedMoved
<1>4. LinkSignals(others, d) = LinkSignals(docs, d)
  <2> DEFINE one(l) == CASE l.wording = "replacement" -> "replacement_link"
                         [] l.wording = "backlink" -> "backlink_from_successor"
                         [] OTHER -> "resolved_internal_link"
             none(l) == IF l.id = None /\ l.title = None THEN {}
                        ELSE {Signal("broken_internal_link", None)}
             all(ds) == UNION {Resolved(ds, Candidates(ds, d, l), one(l), "ambiguous_internal_link",
                                        none(l)) : l \in d.page.links}
  <2>1. LinkSignals(others, d) = all(others) /\ LinkSignals(docs, d) = all(docs)
    BY Zenon DEF LinkSignals
  <2> HIDE DEF one, none
  <2>2. all(others) = all(docs)  BY <1>3
  <2> QED  BY <2>1, <2>2
<1> QED  BY <1>2, <1>4

LEMMA AgeOfOne ==
  ASSUME NEW docs, NEW p, NEW i \in Nat, ById(docs, p) = {i}
  PROVE  AgeSignals(docs, p) = AgeOf(docs[i])
<1>1. CASE AgeOf(docs[i]) = {}
  <2>1. {k \in ById(docs, p) : AgeOf(docs[k]) # {}} = {}  BY <1>1
  <2> QED  BY <1>1, <2>1 DEF AgeSignals
<1>2. CASE AgeOf(docs[i]) # {}
  <2>1. {k \in ById(docs, p) : AgeOf(docs[k]) # {}} = {i}  BY <1>2
  <2>2. {k \in {i} : \A j \in {i} : j <= k} = {i}  OBVIOUS
  <2> QED  BY <2>1, <2>2 DEF AgeSignals
<1> QED  BY <1>1, <1>2

(* The analyzers find the same in any order.                                *)
LEMMA SignalsMoved ==
  ASSUME AnalysisAssumption, NEW docs, NEW others, NEW to, Reordered(docs, others, to), NEW dead
  PROVE  Signals(others, dead) = Signals(docs, dead)
<1>1. Ids(others) = Ids(docs)  BY IdsMoved
<1>2. ASSUME NEW p \in Ids(docs)
      PROVE  SignalsOf(others, p, dead) = SignalsOf(docs, p, dead)
  <2>1. PICK i \in DOMAIN docs : docs[i].id = p  BY DEF Ids
  <2>2. docs \in Seq(Fetched) /\ Untied(docs) /\ others[to[i]] = docs[i]  BY DEF Reordered
  <2>3. ById(docs, p) = {i}  BY <2>1, <2>2, OneById
  <2>4. ById(others, p) = {to[i]}
    <3>1. ById(others, p) = Moved(to, {i})  BY <2>3, ByIdMoved
    <3> QED  BY <3>1 DEF Moved
  <2>5. SimilaritySignals(others, to[i]) = SimilaritySignals(docs, i)  BY SimilarityMoved
  <2>6. /\ ReferenceSignals(others, docs[i]) = ReferenceSignals(docs, docs[i])
        /\ LinkSignals(others, docs[i]) = LinkSignals(docs, docs[i])
    BY ReferencesMoved
  <2>7. SignalsOf(docs, p, dead) =
          AgeOf(docs[i]) \cup VersionRefSignals(docs[i])
            \cup BrokenLinkSignals(docs[i], dead) \cup SimilaritySignals(docs, i)
            \cup ReferenceSignals(docs, docs[i]) \cup LinkSignals(docs, docs[i])
    <3>1. AgeSignals(docs, p) = AgeOf(docs[i])  BY <2>2, <2>3, AgeOfOne
    <3> QED  BY <2>3, <3>1 DEF SignalsOf
  <2>8. SignalsOf(others, p, dead) =
          AgeOf(others[to[i]]) \cup VersionRefSignals(others[to[i]])
            \cup BrokenLinkSignals(others[to[i]], dead) \cup SimilaritySignals(others, to[i])
            \cup ReferenceSignals(others, others[to[i]]) \cup LinkSignals(others, others[to[i]])
    <3>1. to[i] \in Nat  BY DEF Reordered
    <3>2. AgeSignals(others, p) = AgeOf(others[to[i]])  BY <2>4, <3>1, AgeOfOne
    <3> QED  BY <2>4, <3>2 DEF SignalsOf
  <2> QED  BY <2>2, <2>5, <2>6, <2>7, <2>8
<1> QED  BY <1>1, <1>2 DEF Signals

-------------------------------------------------------------------------------
(* The classifier and the passes, given the signals.                        *)

(* Of the siblings of a document, one was fetched first.                    *)
LEMMA FirstSibling ==
  ASSUME NEW docs \in Seq(Fetched), Untied(docs), NEW d, Siblings(docs, d) # {}
  PROVE  \E e \in Siblings(docs, d) : \A f \in Siblings(docs, d) \ {e} :
           \E i \in ById(docs, e.id) : \A j \in ById(docs, f.id) : i < j
<1> DEFINE I == {j \in BaseTitled(docs, d.id, d.page.title) :
                   \A k \in ById(docs, docs[j].id) : k <= j}
<1>1. Siblings(docs, d) = {docs[i] : i \in I}  BY DEF Siblings
<1>2. I \subseteq DOMAIN docs /\ I \subseteq Nat
  <2>1. I \subseteq DOMAIN docs  BY DEF BaseTitled, Others
  <2> HIDE DEF I
  <2> QED  BY <2>1
<1> HIDE DEF I
<1>3. PICK i \in I : \A j \in I : i <= j
  BY <1>1, <1>2, LeastElement
<1>4. ASSUME NEW f \in Siblings(docs, d) \ {docs[i]}
      PROVE  \A j \in ById(docs, f.id) : i < j
  <2>1. PICK j \in I : f = docs[j]  BY <1>1
  <2>2. ById(docs, f.id) = {j}  BY <1>2, <2>1, OneById
  <2>3. i <= j /\ i # j /\ i \in Nat /\ j \in Nat  BY <1>2, <1>3, <1>4, <2>1
  <2> QED  BY <2>2, <2>3
<1>5. docs[i] \in Siblings(docs, d) /\ i \in ById(docs, docs[i].id)
  BY <1>1, <1>2 DEF ById
<1> QED  BY <1>4, <1>5

(* What a suffix reason says does not depend on the sibling it quotes when  *)
(* they are all of one kind.                                                *)
LEMMA SuffixOfAgreeing ==
  ASSUME NEW docs \in Seq(Fetched), Untied(docs), NEW d, Siblings(docs, d) # {},
         d.page.title.mark # "draft", NEW e \in Siblings(docs, d),
         \A f \in Siblings(docs, d) : f.page.title.mark = "draft" <=> e.page.title.mark = "draft"
  PROVE  SuffixSaysDraft(docs, d) <=> e.page.title.mark = "draft"
BY FirstSibling DEF SuffixSaysDraft

Doubtful(docs, d, lifecycle) ==
  /\ d.page.title.mark \in StaleSuffix \ {"draft"} /\ lifecycle \in Tentative
  /\ \E e, f \in Siblings(docs, d) : e.page.title.mark = "draft" /\ f.page.title.mark # "draft"

LEMMA PolicyMoved ==
  ASSUME NEW docs, NEW others, NEW d, NEW lifecycle, NEW stale, NEW trust,
         lifecycle \in Tentative /\ "suffix" \in stale =>
           (SuffixSaysDraft(others, d) <=> SuffixSaysDraft(docs, d))
  PROVE  Policy(others, d, lifecycle, stale, trust) = Policy(docs, d, lifecycle, stale, trust)
<1> DEFINE explicit == stale \ {"inferred"}
           left(ds) == explicit \ (IF SuffixSaysDraft(ds, d) THEN {"suffix"} ELSE {})
           outcome(S, risk, contradicts) ==
             [stale |-> S, risk |-> IF risk THEN {"lifecycle"} ELSE {}, contradicts |-> contradicts]
           policy(L) ==
             CASE lifecycle \in Negative -> outcome(stale, FALSE, trust # {})
               [] lifecycle \in Tentative -> outcome(L, L = {}, FALSE)
               [] lifecycle = "supported" -> outcome(explicit, FALSE, explicit # stale)
               [] lifecycle = "current" -> outcome(explicit, stale # {} /\ explicit = {}, FALSE)
               [] OTHER -> outcome(stale, FALSE, FALSE)
<1>1. \A ds : Policy(ds, d, lifecycle, stale, trust) = policy(left(ds))
  BY Zenon DEF Policy
<1>2. CASE lifecycle \in Tentative
  <2>1. left(others) = left(docs)
    BY <1>2
  <2> HIDE DEF left
  <2> QED  BY <1>1, <2>1
<1>3. CASE lifecycle \notin Tentative
  <2> DEFINE plain == outcome(stale, FALSE, trust # {})
             supported == outcome(explicit, FALSE, explicit # stale)
             current == outcome(explicit, stale # {} /\ explicit = {}, FALSE)
             other == outcome(stale, FALSE, FALSE)
             tentative(L) == outcome(L, L = {}, FALSE)
  <2>0. \A L : policy(L) = CASE lifecycle \in Negative -> plain
                            [] lifecycle \in Tentative -> tentative(L)
                            [] lifecycle = "supported" -> supported
                            [] lifecycle = "current" -> current
                            [] OTHER -> other
    BY Zenon
  <2> HIDE DEF explicit, outcome, left, plain, supported, current, other, tentative, policy
  <2>1. ASSUME NEW L, NEW M  PROVE policy(L) = policy(M)
    BY <1>3, <2>0
  <2> HIDE DEF policy
  <2> QED  BY <1>1, <2>1
<1> QED  BY <1>2, <1>3

LEMMA ClassifyMoved ==
  ASSUME AnalysisAssumption, NEW docs, NEW others, NEW to, Reordered(docs, others, to),
         NEW d, NEW sigs, NEW incoming,
         ~Doubtful(docs, d, Classify(docs, d, sigs, incoming).lifecycle)
  PROVE  Classify(others, d, sigs, incoming) = Classify(docs, d, sigs, incoming)
<1> DEFINE trust == TrustEvidence(d, incoming)
           all == StaleEvidence(d, sigs) \cup ScanSupersession(docs, d)
           lifecycle == LifecycleOf(docs, d, all)
<1>1. Siblings(others, d) = Siblings(docs, d)  BY SiblingsMoved
<1>2. ScanSupersession(others, d) = ScanSupersession(docs, d)
  BY <1>1 DEF ScanSupersession
<1>3. \A stale : LifecycleOf(others, d, stale) = LifecycleOf(docs, d, stale)
  <2>1. QuotedTitles(others, d.id) = QuotedTitles(docs, d.id)  BY QuotedMoved
  <2> QED  BY <2>1 DEF LifecycleOf
<1>4. Classify(docs, d, sigs, incoming).lifecycle = lifecycle
  BY DEF Classify, Verdict
<1>5. ASSUME lifecycle \in Tentative, "suffix" \in all
      PROVE  SuffixSaysDraft(others, d) <=> SuffixSaysDraft(docs, d)
  <2>1. d.page.title.mark \in StaleSuffix /\ Siblings(docs, d) # {}
    <3>1. "suffix" \in ScanSupersession(docs, d)  BY <1>5, StaleEvidenceKinds
    <3> QED  BY <3>1 DEF ScanSupersession
  <2>2. CASE d.page.title.mark = "draft"
    BY <2>2 DEF SuffixSaysDraft
  <2>3. CASE d.page.title.mark # "draft"
    <3>1. PICK e \in Siblings(docs, d) : TRUE
      BY <2>1
    <3>2. \A f \in Siblings(docs, d) : f.page.title.mark = "draft" <=> e.page.title.mark = "draft"
      BY <1>4, <1>5, <2>1, <2>3 DEF Doubtful
    <3>3. docs \in Seq(Fetched) /\ Untied(docs) /\ others \in Seq(Fetched) /\ Untied(others)
      BY ReorderedUntied DEF Reordered
    <3>4. SuffixSaysDraft(docs, d) <=> e.page.title.mark = "draft"
      BY <2>3, <3>2, <3>3, SuffixOfAgreeing
    <3>5. SuffixSaysDraft(others, d) <=> e.page.title.mark = "draft"
      BY <1>1, <2>3, <3>2, <3>3, SuffixOfAgreeing
    <3> QED  BY <3>4, <3>5
  <2> QED  BY <2>2, <2>3
<1>6. Policy(others, d, lifecycle, all, trust) = Policy(docs, d, lifecycle, all, trust)
  <2> HIDE DEF lifecycle, all, trust
  <2> QED  BY <1>5, PolicyMoved
<1> QED  BY <1>2, <1>3, <1>6 DEF Classify

LEMMA ClassifiedMoved ==
  ASSUME AnalysisAssumption, NEW docs, NEW others, NEW to, Reordered(docs, others, to), NEW sigs,
         \A p \in Ids(docs) : ~Doubtful(docs, Doc(docs, p), Classified(docs, sigs)[p].lifecycle)
  PROVE  Classified(others, sigs) = Classified(docs, sigs)
<1>1. ASSUME NEW p \in Ids(docs)
      PROVE  Classify(others, Doc(others, p), sigs[p], Incoming(sigs, p))
               = Classify(docs, Doc(docs, p), sigs[p], Incoming(sigs, p))
  <2>1. Doc(others, p) = Doc(docs, p)  BY DocMoved
  <2>2. Classified(docs, sigs)[p] = Classify(docs, Doc(docs, p), sigs[p], Incoming(sigs, p))
    BY DEF Classified
  <2> QED  BY <2>1, <2>2, ClassifyMoved
<1>2. Ids(others) = Ids(docs)  BY IdsMoved
<1> QED  BY <1>1, <1>2 DEF Classified

LEMMA DowngradedMoved ==
  ASSUME NEW docs, NEW others, NEW to, Reordered(docs, others, to), NEW sigs,
         NEW vs, DOMAIN vs = Ids(docs)
  PROVE  Downgraded(others, sigs, vs) = Downgraded(docs, sigs, vs)
<1>1. ASSUME NEW p \in DOMAIN vs
      PROVE  LosesReferrers(others, sigs, vs, p) <=> LosesReferrers(docs, sigs, vs, p)
  <2>1. Doc(others, p) = Doc(docs, p)  BY DocMoved
  <2> QED  BY <2>1 DEF LosesReferrers
<1> QED  BY <1>1 DEF Downgraded

Kinds == <<"duplicate", "version_marker", "near_duplicate">>

(* Document q names at most one document with signals of one kind.          *)
OneTarget(docs, sigs, q) ==
  \A n \in 1..3 : \A x, y \in Ids(docs) :
    Signal(Kinds[n], x) \in sigs[q] /\ Signal(Kinds[n], y) \in sigs[q] => x = y

LEMMA SupersedesMoved ==
  ASSUME NEW docs, NEW others, NEW to, Reordered(docs, others, to), NEW sigs, NEW p, NEW q,
         OneTarget(docs, sigs, q)
  PROVE  Supersedes(others, sigs, p, q) <=> Supersedes(docs, sigs, p, q)
<1> DEFINE named(t) == {x \in Ids(docs) : Signal(t, x) \in sigs[q]}
           I == {n \in 1..Len(Kinds) : named(Kinds[n]) # {}}
           kind == IF I # {} THEN Min(I) ELSE 0
           first(ds) == ds[CHOOSE i \in DOMAIN ds : ds[i].id \in named(Kinds[kind]) /\
                             \A j \in 1..(i - 1) : ds[j].id \notin named(Kinds[kind])].id
<1>1. Supersedes(docs, sigs, p, q) <=> kind > 0 /\ p = first(docs)
  BY DEF Supersedes, SelectInSeq, Kinds
<1>2. Supersedes(others, sigs, p, q) <=> kind > 0 /\ p = first(others)
  <2>1. Ids(others) = Ids(docs)  BY IdsMoved
  <2> QED  BY <2>1 DEF Supersedes, SelectInSeq, Kinds
<1>3. CASE I = {}
  <2>1. kind = 0  BY <1>3
  <2> HIDE DEF first, kind
  <2>2. ~(kind > 0)  BY <2>1
  <2> QED  BY <1>1, <1>2, <2>2
<1>4. CASE I # {}
  <2>1. I \subseteq 1..3  BY DEF Kinds
  <2>2. kind \in I
    <3>1. \E n \in I : \A m \in I : n <= m  BY <1>4, <2>1, LeastElement
    <3> HIDE DEF I
    <3> QED  BY <1>4, <3>1 DEF Min
  <2>3. kind \in 1..3 /\ named(Kinds[kind]) # {}  BY <2>1, <2>2
  <2> HIDE DEF kind
  <2>4. PICK x \in Ids(docs) : named(Kinds[kind]) = {x}
    BY <2>3 DEF OneTarget
  <2>5. ASSUME NEW ds \in Seq(Fetched), Untied(ds), Ids(ds) = Ids(docs)  PROVE first(ds) = x
    <3>1. PICK i \in DOMAIN ds : ds[i].id = x  BY <2>5 DEF Ids
    <3>2. \A j \in DOMAIN ds : ds[j].id = x => j = i  BY <2>5, <3>1 DEF Untied
    <3>3. \A j \in 1..(i - 1) : j \in DOMAIN ds /\ j # i  BY <2>5, <3>1
    <3>4. ds[i].id \in {x} /\ \A j \in 1..(i - 1) : ds[j].id \notin {x}
      BY <3>1, <3>2, <3>3
    <3>5. \E k \in DOMAIN ds : ds[k].id \in {x} /\ \A j \in 1..(k - 1) : ds[j].id \notin {x}
      BY <3>4
    <3> QED  BY <2>4, <3>5
  <2>6. /\ docs \in Seq(Fetched) /\ Untied(docs) /\ others \in Seq(Fetched) /\ Untied(others)
        /\ Ids(others) = Ids(docs)
    BY ReorderedUntied, IdsMoved DEF Reordered
  <2>7. first(docs) = x  BY <2>5, <2>6
  <2>8. first(others) = x  BY <2>5, <2>6
  <2> HIDE DEF first
  <2> QED  BY <1>1, <1>2, <2>7, <2>8
<1> QED  BY <1>3, <1>4

LEMMA PromotedMoved ==
  ASSUME NEW docs, NEW others, NEW to, Reordered(docs, others, to), NEW sigs,
         NEW vs, DOMAIN vs = Ids(docs), \A q \in StaleIn(vs) : OneTarget(docs, sigs, q)
  PROVE  /\ \A p : Superseded(others, sigs, vs, p) = Superseded(docs, sigs, vs, p)
         /\ Promoted(others, sigs, vs) = Promoted(docs, sigs, vs)
         /\ Assessed(others, sigs, vs) = Assessed(docs, sigs, vs)
<1>1. \A p : Superseded(others, sigs, vs, p) = Superseded(docs, sigs, vs, p)
  BY SupersedesMoved DEF Superseded
<1>2. Promoted(others, sigs, vs) = Promoted(docs, sigs, vs)
  BY <1>1 DEF Promoted
<1>3. ASSUME NEW p \in DOMAIN vs
      PROVE  RequiresAudit(others, Doc(others, p), vs[p], sigs[p], Incoming(sigs, p),
                           Cardinality(Superseded(others, sigs, vs, p)))
               = RequiresAudit(docs, Doc(docs, p), vs[p], sigs[p], Incoming(sigs, p),
                               Cardinality(Superseded(docs, sigs, vs, p)))
  <2>1. Doc(others, p) = Doc(docs, p)  BY DocMoved
  <2>2. Siblings(others, Doc(docs, p)) = Siblings(docs, Doc(docs, p))  BY SiblingsMoved
  <2>3. ASSUME NEW d, NEW lifecycle, NEW incoming, NEW superseded,
               Siblings(others, d) = Siblings(docs, d)
        PROVE  Importance(others, d, lifecycle, incoming, superseded)
                 = Importance(docs, d, lifecycle, incoming, superseded)
    BY <2>3, Zenon DEF Importance
  <2>4. ASSUME NEW d, NEW v, NEW s, NEW incoming, NEW superseded,
               Siblings(others, d) = Siblings(docs, d)
        PROVE  RequiresAudit(others, d, v, s, incoming, superseded)
                 = RequiresAudit(docs, d, v, s, incoming, superseded)
    <3>1. Importance(others, d, v.lifecycle, incoming, superseded)
            = Importance(docs, d, v.lifecycle, incoming, superseded)
      BY <2>3, <2>4
    <3> QED  BY <3>1 DEF RequiresAudit
  <2>5. Superseded(others, sigs, vs, p) = Superseded(docs, sigs, vs, p)  BY <1>1
  <2> QED  BY <2>1, <2>2, <2>4, <2>5
<1>4. Assessed(others, sigs, vs) = Assessed(docs, sigs, vs)
  BY <1>3 DEF Assessed
<1> QED  BY <1>1, <1>2, <1>4

(* The passes keep the lifecycle that the classifier gave.                  *)
LEMMA LifecycleKept ==
  ASSUME NEW docs, NEW sigs, NEW p \in Ids(docs)
  PROVE  Outcome(docs, sigs)[p].lifecycle = Classified(docs, sigs)[p].lifecycle
<1> DEFINE vs == Classified(docs, sigs)
           ds == Downgraded(docs, sigs, vs)
           ps == Promoted(docs, sigs, ds)
<1>1. DOMAIN vs = Ids(docs) /\ \A q \in DOMAIN vs : Shaped(vs[q])
  BY LadderOf DEF Classified
<1> HIDE DEF vs
<1>2. /\ DOMAIN ds = Ids(docs) /\ \A q \in DOMAIN ds : Shaped(ds[q])
      /\ ds[p].lifecycle = vs[p].lifecycle
  BY <1>1, DowngradePass
<1> HIDE DEF ds
<1>3. /\ DOMAIN ps = Ids(docs) /\ \A q \in DOMAIN ps : Shaped(ps[q])
      /\ ps[p].lifecycle = ds[p].lifecycle
  BY <1>2, PromotionPass
<1> HIDE DEF ps
<1>4. Assessed(docs, sigs, ps)[p].lifecycle = ps[p].lifecycle
  BY <1>3, AssessmentPass
<1> QED  BY <1>2, <1>3, <1>4 DEF Outcome, ps, ds, vs

(* Reordering the documents does not change what the passes make of them.   *)
LEMMA OutcomeMoved ==
  ASSUME AnalysisAssumption, NEW docs, NEW others, NEW to, Reordered(docs, others, to), NEW sigs,
         \A q \in StaleIn(Outcome(docs, sigs)) : OneTarget(docs, sigs, q),
         \A p \in Ids(docs) : ~Doubtful(docs, Doc(docs, p), Outcome(docs, sigs)[p].lifecycle)
  PROVE  Outcome(others, sigs) = Outcome(docs, sigs)
<1> DEFINE vs == Classified(docs, sigs)
           ds == Downgraded(docs, sigs, vs)
           ps == Promoted(docs, sigs, ds)
           out == Assessed(docs, sigs, ps)
<1>1. DOMAIN vs = Ids(docs) /\ \A q \in DOMAIN vs : Shaped(vs[q])
  BY LadderOf DEF Classified
<1>2. Classified(others, sigs) = vs
  <2>1. \A p \in Ids(docs) : Outcome(docs, sigs)[p].lifecycle = vs[p].lifecycle
    BY LifecycleKept
  <2> QED  BY <2>1, ClassifiedMoved
<1> HIDE DEF vs
<1>3. DOMAIN ds = DOMAIN vs /\ \A q \in DOMAIN ds : Shaped(ds[q])
  BY <1>1, DowngradePass
<1>4. Downgraded(others, sigs, vs) = ds  BY <1>1, DowngradedMoved
<1> HIDE DEF ds
<1>5. DOMAIN ps = DOMAIN ds /\ StaleIn(ps) = StaleIn(ds) /\ \A q \in DOMAIN ps : Shaped(ps[q])
  BY <1>3, PromotionPass
<1>6. StaleIn(out) = StaleIn(ps)
  BY <1>5, AssessmentPass
<1>7. \A q \in StaleIn(ds) : OneTarget(docs, sigs, q)
  BY <1>5, <1>6 DEF Outcome, out, ps, ds, vs
<1>8. Promoted(others, sigs, ds) = ps
  BY <1>1, <1>3, <1>7, PromotedMoved
<1>9. StaleIn(ps) = StaleIn(ds) /\ DOMAIN ps = Ids(docs)
  BY <1>1, <1>3, <1>5
<1> HIDE DEF ps
<1>10. Assessed(others, sigs, ps) = out
  BY <1>7, <1>9, PromotedMoved
<1> QED  BY <1>2, <1>4, <1>8, <1>10 DEF Outcome, out, ps, ds, vs

(* What names another document is a signal of the similarity analyzer.      *)
LEMMA SimilarTargets ==
  ASSUME NEW docs, NEW dead, NEW i, NEW q, ById(docs, q) = {i},
         NEW type \in {"duplicate", "version_marker", "near_duplicate"}, NEW x,
         Signal(type, x) \in SignalsOf(docs, q, dead)
  PROVE  Signal(type, x) \in SimilaritySignals(docs, i)
<1> DEFINE s == Signal(type, x)
<1>1. s.type = type  BY DEF Signal
<1>2. ASSUME NEW d
      PROVE  \A e \in AgeOf(d) \cup VersionRefSignals(d) \cup BrokenLinkSignals(d, dead) :
               e.type # type
  BY DEF AgeOf, VersionRefSignals, BrokenLinkSignals, Signal
<1>a. \A e \in AgeSignals(docs, q) : e.type # type
  BY <1>2 DEF AgeSignals
<1>3. ASSUME NEW d  PROVE \A e \in ReferenceSignals(docs, d) : e.type # type
  BY DEF ReferenceSignals, Resolved, Signal
<1>4. ASSUME NEW d  PROVE \A e \in LinkSignals(docs, d) : e.type # type
  BY DEF LinkSignals, Resolved, Signal
<1>5. s \in AgeSignals(docs, q) \cup VersionRefSignals(docs[i])
              \cup BrokenLinkSignals(docs[i], dead) \cup SimilaritySignals(docs, i)
              \cup ReferenceSignals(docs, docs[i]) \cup LinkSignals(docs, docs[i])
  BY DEF SignalsOf
<1> HIDE DEF s
<1>6. s \in SimilaritySignals(docs, i)
  BY <1>1, <1>2, <1>a, <1>3, <1>4, <1>5
<1> QED  BY <1>6 DEF s

LEMMA SimilarRules ==
  ASSUME NEW docs, NEW i, NEW x
  PROVE  /\ Signal("duplicate", x) \in SimilaritySignals(docs, i) =>
              \E j \in Originals(docs, i) : x = docs[j].id
         /\ Signal("version_marker", x) \in SimilaritySignals(docs, i) =>
              \E j \in Successors(docs, i) : x = docs[j].id
<1>1. \A t, u : Signal(t, u).type = t /\ Signal(t, u).to = u  BY DEF Signal
<1> QED  BY <1>1 DEF SimilaritySignals

-------------------------------------------------------------------------------
(* The reverse order.                                                       *)

LEMMA DistinctValues ==
  ASSUME NEW n \in Nat, NEW f, Cardinality({f[i] : i \in 1..n}) = n
  PROVE  \A i, j \in 1..n : f[i] = f[j] => i = j
<1> DEFINE g == [i \in 1..n |-> f[i]]
           T == {f[i] : i \in 1..n}
<1>1. IsFiniteSet(1..n) /\ Cardinality(1..n) = n  BY FS_Interval
<1>2. g \in Surjection(1..n, T)  BY DEF Surjection
<1>3. g \in Injection(1..n, T)
  <2>1. Cardinality(T) = Cardinality(1..n)  BY <1>1
  <2> HIDE DEF g, T
  <2> QED  BY <1>1, <1>2, <2>1, FS_Surjection
<1>4. \A i, j \in 1..n : g[i] = g[j] => i = j
  BY <1>3 DEF Injection, IsInjective
<1> QED  BY <1>4

LEMMA ReverseReorders ==
  ASSUME NEW docs \in Seq(Fetched), Untied(docs)
  PROVE  Reordered(docs, Reverse(docs), [i \in DOMAIN docs |-> Len(docs) - i + 1])
<1> DEFINE n == Len(docs)
           others == Reverse(docs)
           to == [i \in DOMAIN docs |-> n - i + 1]
<1>1. n \in Nat /\ DOMAIN docs = 1..n  OBVIOUS
<1>2. others = [i \in 1..n |-> docs[(n - i) + 1]]  BY DEF Reverse
<1>3. \A i \in 1..n : n - i + 1 \in 1..n /\ n - (n - i + 1) + 1 = i  BY <1>1
<1>4. \A i \in 1..n : docs[i] \in Fetched  BY ElementsOf
<1>5. others \in [1..n -> Fetched]
  <2>1. \A i \in 1..n : docs[(n - i) + 1] \in Fetched  BY <1>3, <1>4
  <2> HIDE DEF n
  <2> QED  BY <1>2, <2>1
<1>6. others \in Seq(Fetched) /\ DOMAIN others = 1..n
  BY <1>1, <1>5, SeqDef
<1>7. \A i \in 1..n : to[i] = n - i + 1  BY <1>1
<1> HIDE DEF n, others, to
<1>8. \A i \in 1..n : others[to[i]] = docs[i]
  BY <1>2, <1>3, <1>7
<1>9. to \in [DOMAIN docs -> DOMAIN others]
  BY <1>1, <1>3, <1>6 DEF to
<1>10. \A i, j \in 1..n : to[i] = to[j] => i = j
  BY <1>1, <1>7
<1>11. \A k \in 1..n : \E i \in 1..n : k = to[i]
  BY <1>3, <1>7
<1>12. Reordered(docs, others, to)
  BY <1>1, <1>6, <1>8, <1>9, <1>10, <1>11 DEF Reordered
<1> QED  BY <1>12 DEF others, to, n

(* The pages whose links were found broken give the same signals as those   *)
(* whose links were broken.                                                 *)
LEMMA FoundBroken ==
  ASSUME NEW docs \in Seq(Fetched), Untied(docs), NEW broken, NEW dead,
         dead = {p \in Ids(docs) : Signal("broken_link", None) \in Signals(docs, broken)[p]}
  PROVE  Signals(docs, dead) = Signals(docs, broken)
<1>1. ASSUME NEW p \in Ids(docs)  PROVE SignalsOf(docs, p, dead) = SignalsOf(docs, p, broken)
  <2>1. PICK i \in DOMAIN docs : docs[i].id = p  BY DEF Ids
  <2>2. ById(docs, p) = {i}  BY <2>1, OneById
  <2> DEFINE all(D) == AgeSignals(docs, p) \cup VersionRefSignals(docs[i])
                         \cup BrokenLinkSignals(docs[i], D) \cup SimilaritySignals(docs, i)
                         \cup ReferenceSignals(docs, docs[i]) \cup LinkSignals(docs, docs[i])
             b == Signal("broken_link", None)
  <2>3. ASSUME NEW D  PROVE SignalsOf(docs, p, D) = all(D)
    BY <2>2 DEF SignalsOf
  <2>a. b.type = "broken_link"  BY DEF Signal
  <2>4. \A s \in AgeSignals(docs, p) \cup VersionRefSignals(docs[i]) : s.type # "broken_link"
    <3>1. \A d : \A s \in AgeOf(d) \cup VersionRefSignals(d) : s.type # "broken_link"
      BY DEF AgeOf, VersionRefSignals, Signal
    <3> QED  BY <3>1 DEF AgeSignals
  <2>5. \A s \in SimilaritySignals(docs, i) : s.type # "broken_link"
    BY DEF SimilaritySignals, Signal
  <2>6. ASSUME NEW d  PROVE \A s \in ReferenceSignals(docs, d) : s.type # "broken_link"
    BY DEF ReferenceSignals, Resolved, Signal
  <2>7. ASSUME NEW d  PROVE \A s \in LinkSignals(docs, d) : s.type # "broken_link"
    BY DEF LinkSignals, Resolved, Signal
  <2>8. b \in all(broken) <=> docs[i].page.body.url /\ p \in broken
    <3>1. b \in all(broken) <=> b \in BrokenLinkSignals(docs[i], broken)
      <4> HIDE DEF b
      <4> QED  BY <2>a, <2>4, <2>5, <2>6, <2>7
    <3> QED  BY <2>1, <3>1 DEF BrokenLinkSignals
  <2>9. p \in dead <=> b \in all(broken)
    BY <2>3 DEF Signals
  <2>10. BrokenLinkSignals(docs[i], dead) = BrokenLinkSignals(docs[i], broken)
    <3> HIDE DEF all, b
    <3> QED  BY <2>1, <2>8, <2>9, Zenon DEF BrokenLinkSignals
  <2> QED  BY <2>3, <2>10
<1> QED  BY <1>1 DEF Signals

LEMMA TargetsAreSingle ==
  ASSUME AnalysisAssumption, NEW docs \in Seq(Fetched), Untied(docs), NEW dead, NEW q \in Ids(docs),
         NEW sigs, sigs = Signals(docs, dead),
         Cardinality({x \in Ids(docs) : Signal("near_duplicate", x) \in sigs[q]}) <= 1
  PROVE  OneTarget(docs, sigs, q)
<1> SUFFICES ASSUME NEW n \in 1..3, NEW x \in Ids(docs), NEW y \in Ids(docs),
                    Signal(Kinds[n], x) \in sigs[q], Signal(Kinds[n], y) \in sigs[q]
             PROVE  x = y
  BY DEF OneTarget
<1>1. PICK i \in DOMAIN docs : docs[i].id = q  BY DEF Ids
<1>2. ById(docs, q) = {i} /\ sigs[q] = SignalsOf(docs, q, dead)
  BY <1>1, OneById DEF Signals
<1>3. CASE n = 1
  <2>1. Kinds[n] = "duplicate"  BY <1>3 DEF Kinds
  <2>2. /\ Signal("duplicate", x) \in SimilaritySignals(docs, i)
        /\ Signal("duplicate", y) \in SimilaritySignals(docs, i)
    BY <1>2, <2>1, SimilarTargets
  <2>3. /\ \E j \in Originals(docs, i) : x = docs[j].id
        /\ \E j \in Originals(docs, i) : y = docs[j].id
    BY <2>2, SimilarRules
  <2> QED  BY <2>3 DEF Originals
<1>4. CASE n = 2
  <2>1. Kinds[n] = "version_marker"  BY <1>4 DEF Kinds
  <2>2. /\ Signal("version_marker", x) \in SimilaritySignals(docs, i)
        /\ Signal("version_marker", y) \in SimilaritySignals(docs, i)
    BY <1>2, <2>1, SimilarTargets
  <2>3. /\ \E j \in Successors(docs, i) : x = docs[j].id
        /\ \E j \in Successors(docs, i) : y = docs[j].id
    BY <2>2, SimilarRules
  <2>4. \A j, k \in Successors(docs, i) : j = k
    BY ReverseReorders, SuccessorsMoved
  <2> QED  BY <2>3, <2>4
<1>5. CASE n = 3
  <2> DEFINE T == {z \in Ids(docs) : Signal("near_duplicate", z) \in sigs[q]}
  <2>1. x \in T /\ y \in T  BY <1>5 DEF Kinds
  <2>2. IsFiniteSet(T)
    <3>1. IsFiniteSet(Ids(docs))  BY FinitelyManyDocuments
    <3> QED  BY <3>1, FS_Subset
  <2>3. Cardinality(T) <= 1  OBVIOUS
  <2> HIDE DEF T
  <2>4. Cardinality(T) \in Nat /\ Cardinality(T) # 0  BY <2>1, <2>2, FS_CardinalityType, FS_EmptySet
  <2>5. Cardinality(T) = 1  BY <2>3, <2>4
  <2>6. PICK z : T = {z}  BY <2>2, <2>5, FS_Singleton
  <2> QED  BY <2>1, <2>6
<1> QED  BY <1>3, <1>4, <1>5

(* Where no two documents are as new, none two of one version, no stale     *)
(* page is similar to two newer ones, and the suffix of no tentative page   *)
(* hangs on which sibling came first, the verdicts do not depend on the     *)
(* order of the documents: the reverse order gives the same (auditor.py,    *)
(* run; analyzers/similarity.py, whose sorts are stable; trust.py, whose    *)
(* suffix reason quotes the first sibling).                                 *)
THEOREM OrderOnlyBreaksTiesAlways == Spec => []OrderOnlyBreaksTies
<1>1. PassesInv /\ StoreInv /\ TypesInv => OrderOnlyBreaksTies
  <2> DEFINE n == Len(documents)
             backwards == Reverse(documents)
             dead == {p \in Judged : Signal("broken_link", None) \in signals[p]}
             to == [i \in DOMAIN documents |-> Len(documents) - i + 1]
  <2> SUFFICES ASSUME PassesInv, StoreInv, TypesInv, phase = "assessed", Cardinality(Judged) = n,
                      Cardinality({documents[i].page.modified : i \in 1..n}) = n,
                      Cardinality({Versions(documents[i]) : i \in 1..n}) = n,
                      \A p \in With("stale") :
                        Cardinality({q \in Judged : Signal("near_duplicate", q) \in signals[p]}) <= 1,
                      \A p \in Judged : ~SuffixInDoubt(p)
               PROVE  verdicts = Outcome(backwards, Signals(backwards, dead))
    BY DEF OrderOnlyBreaksTies, Versions
  <2>1. /\ verdicts = Outcome(documents, signals) /\ Judged = Ids(documents)
        /\ documents \in Seq(Fetched) /\ n \in Nat /\ DOMAIN documents = 1..n
    BY OutcomeDomain DEF Judged, PassesInv, StoreInv, Fetched
  <2>2. PICK broken : signals = Signals(documents, broken)
    BY DEF TypesInv, AnalyzedInv
  <2>3. Untied(documents)
    <3> DEFINE f == [i \in 1..n |-> documents[i].page.modified]
               g == [i \in 1..n |-> Versions(documents[i])]
    <3>1. \A i, j \in 1..n : documents[i].id = documents[j].id => i = j
      BY <2>1, DistinctIds
    <3>2. \A i, j \in 1..n : f[i] = f[j] => i = j
      <4>1. {f[i] : i \in 1..n} = {documents[i].page.modified : i \in 1..n}  OBVIOUS
      <4> HIDE DEF f
      <4> QED  BY <2>1, <4>1, DistinctValues
    <3>3. \A i, j \in 1..n : g[i] = g[j] => i = j
      <4>1. {g[i] : i \in 1..n} = {Versions(documents[i]) : i \in 1..n}  OBVIOUS
      <4> HIDE DEF g
      <4> QED  BY <2>1, <4>1, DistinctValues
    <3> QED  BY <2>1, <3>1, <3>2, <3>3 DEF Untied
  <2>4. Reordered(documents, backwards, to)
    BY <2>1, <2>3, ReverseReorders
  <2>5. Signals(backwards, dead) = signals
    <3>1. Signals(backwards, dead) = Signals(documents, dead)
      BY <2>4, AnalysisAssumption, SignalsMoved
    <3>2. Signals(documents, dead) = Signals(documents, broken)
      BY <2>1, <2>2, <2>3, FoundBroken
    <3> QED  BY <2>2, <3>1, <3>2
  <2>6. ASSUME NEW q \in StaleIn(Outcome(documents, signals))
        PROVE  OneTarget(documents, signals, q)
    <3>1. q \in Ids(documents) /\ q \in With("stale")
      BY <2>1 DEF StaleIn, With, Judged
    <3>2. Cardinality({x \in Ids(documents) : Signal("near_duplicate", x) \in signals[q]}) <= 1
      BY <2>1, <3>1
    <3> QED  BY <2>1, <2>2, <2>3, <3>1, <3>2, AnalysisAssumption, TargetsAreSingle
  <2>7. Outcome(backwards, signals) = Outcome(documents, signals)
    <3>1. \A p \in Ids(documents) :
            ~Doubtful(documents, Doc(documents, p), Outcome(documents, signals)[p].lifecycle)
      BY <2>1 DEF SuffixInDoubt, Doubtful
    <3> QED  BY <2>4, <2>6, <3>1, AnalysisAssumption, OutcomeMoved
  <2> QED  BY <2>1, <2>5, <2>7
<1> QED  BY <1>1, PassesInOrder, StoreStands, TypesStand, PTL
===============================================================================
