--------------------------- MODULE WalkTrees_proofs ---------------------------
(***************************************************************************)
(* The trees of SourceWalk: what lies under a page, the line of pages      *)
(* above it, and what a move leaves as it was.                             *)
(***************************************************************************)
EXTENDS SourceWalk_proofs, WellFoundedInduction

-------------------------------------------------------------------------------
(* The pages under a page.                                                  *)

LEMMA LeastOf ==
  ASSUME NEW T, T \subseteq Nat, T # {}
  PROVE  \E x \in T : \A y \in T : x <= y
<1>1. \E x \in T : \A y \in T : ~(<<y, x>> \in OpToRel(<, Nat))
  BY NatLessThanWellFounded, WFMin
<1>2. \A x, y \in Nat : <<x, y>> \in OpToRel(<, Nat) <=> x < y
  BY DEF OpToRel
<1>3. PICK x \in T : \A y \in T : ~(<<y, x>> \in OpToRel(<, Nat))  BY <1>1
<1>4. \A y \in T : ~(y < x)  BY <1>2, <1>3
<1>5. \A y \in T : x <= y  BY <1>4
<1> QED  BY <1>5

(* The function that Under defines: S, and again and again what lies below. *)
Steps(S, k, g) == g = [n \in 0..k |-> IF n = 0 THEN S ELSE Below(g[n - 1])]

LEMMA StepsExist ==
  ASSUME NEW S, NEW k \in Nat
  PROVE  \E g : Steps(S, k, g)
<1> DEFINE bad == {m \in Nat : ~\E g : Steps(S, m, g)}
<1>1. SUFFICES ASSUME bad # {}  PROVE FALSE
  OBVIOUS
<1>2. PICK m \in bad : \A l \in bad : m <= l  BY <1>1, LeastOf
<1>3. CASE m = 0
  <2> DEFINE g == [n \in 0..0 |-> S]
  <2>1. g = [n \in 0..0 |-> IF n = 0 THEN S ELSE Below(g[n - 1])]  OBVIOUS
  <2> HIDE DEF g
  <2>2. Steps(S, m, g)  BY <1>3, <2>1 DEF Steps
  <2> QED  BY <2>2
<1>4. CASE m # 0
  <2>1. m - 1 \in Nat /\ m - 1 \notin bad  BY <1>2, <1>4
  <2>2. PICK g : Steps(S, m - 1, g)  BY <2>1
  <2> DEFINE h == [n \in 0..m |-> IF n = m THEN Below(g[m - 1]) ELSE g[n]]
  <2>3. g = [n \in 0..(m - 1) |-> IF n = 0 THEN S ELSE Below(g[n - 1])]  BY <2>2 DEF Steps
  <2>4. \A n \in 0..(m - 1) : g[n] = IF n = 0 THEN S ELSE Below(g[n - 1])  BY <2>3
  <2>5. ASSUME NEW n \in 0..m  PROVE h[n] = IF n = 0 THEN S ELSE Below(h[n - 1])
    <3>1. CASE n = 0  BY <1>2, <1>4, <2>4, <3>1
    <3>2. CASE n # 0
      <4>1. n - 1 \in 0..m /\ n - 1 # m /\ m - 1 \in 0..m  BY <1>2, <3>2
      <4>2. h[n - 1] = g[n - 1]  BY <4>1
      <4>3. CASE n = m  BY <3>2, <4>2, <4>3
      <4>4. CASE n # m
        <5>1. n \in 0..(m - 1)  BY <1>2, <4>4
        <5> QED  BY <2>4, <3>2, <4>2, <4>4, <5>1
      <4> QED  BY <4>3, <4>4
    <3> QED  BY <3>1, <3>2
  <2>6. h = [n \in 0..m |-> h[n]]  OBVIOUS
  <2> HIDE DEF h
  <2>7. h = [n \in 0..m |-> IF n = 0 THEN S ELSE Below(h[n - 1])]
    BY <2>5, <2>6
  <2>8. Steps(S, m, h)  BY <2>7 DEF Steps
  <2> QED  BY <2>8
<1> QED  BY <1>3, <1>4

LEMMA UnderSteps ==
  ASSUME NEW S, Cardinality(Page) \in Nat
  PROVE  \E g : Steps(S, Cardinality(Page), g) /\ Under(S) = g[Cardinality(Page)]
<1> DEFINE g == CHOOSE g : g = [n \in 0..Cardinality(Page) |-> IF n = 0 THEN S ELSE Below(g[n - 1])]
<1>1. \E h : h = [n \in 0..Cardinality(Page) |-> IF n = 0 THEN S ELSE Below(h[n - 1])]
  BY StepsExist DEF Steps
<1>2. g = [n \in 0..Cardinality(Page) |-> IF n = 0 THEN S ELSE Below(g[n - 1])]
  BY <1>1
<1>3. Under(S) = g[Cardinality(Page)]
  BY DEF Under
<1> HIDE DEF g
<1> QED  BY <1>2, <1>3 DEF Steps

LEMMA BelowGrows ==
  ASSUME NEW S, NEW T, S \subseteq T
  PROVE  S \subseteq Below(S) /\ Below(S) \subseteq Below(T)
BY DEF Below

LEMMA BelowHolds ==
  ASSUME NEW S, NEW x \in S, NEW y \in Range(items[x]), y # Text
  PROVE  y \in Below(S)
BY DEF Below

LEMMA UnderIsLeast ==
  ASSUME IsFiniteSet(Page), NEW S, NEW T, S \subseteq T, Below(T) \subseteq T
  PROVE  Under(S) \subseteq T
<1> DEFINE k == Cardinality(Page)
<1>1. k \in Nat  BY FS_CardinalityType
<1>2. PICK g : Steps(S, k, g) /\ Under(S) = g[k]  BY <1>1, UnderSteps
<1> HIDE DEF k
<1>3. \A n \in 0..k : g[n] = IF n = 0 THEN S ELSE Below(g[n - 1])  BY <1>2 DEF Steps
<1> DEFINE bad == {n \in 0..k : ~(g[n] \subseteq T)}
<1>4. ASSUME bad # {}  PROVE FALSE
  <2>1. bad \subseteq Nat  BY <1>1
  <2>2. PICK m \in bad : \A n \in bad : m <= n
    <3> HIDE DEF bad
    <3> QED  BY <1>4, <2>1, LeastOf
  <2>3. m # 0  BY <1>3, <2>2
  <2>4. m - 1 \in 0..k /\ m - 1 \notin bad /\ m \in 0..k  BY <1>1, <2>2, <2>3
  <2>5. g[m] = Below(g[m - 1]) /\ g[m - 1] \subseteq T  BY <1>3, <2>3, <2>4
  <2>6. g[m] \subseteq T  BY <2>5, BelowGrows
  <2> QED  BY <2>2, <2>6
<1> QED  BY <1>1, <1>2, <1>4

(* Closed after as many steps as there are pages: each of them adds one.    *)
LEMMA UnderIsClosed ==
  ASSUME IsFiniteSet(Page), items \in [Page -> Seq(Item)], NEW S, S \subseteq Page
  PROVE  /\ S \subseteq Under(S) /\ Under(S) \subseteq Page
         /\ Below(Under(S)) \subseteq Under(S)
<1> DEFINE k == Cardinality(Page)
<1>1. k \in Nat  BY FS_CardinalityType
<1>2. PICK g : Steps(S, k, g) /\ Under(S) = g[k]  BY <1>1, UnderSteps
<1>3. Below(Page) \subseteq Page
  <2>1. \A p \in Page : Range(items[p]) \subseteq Item  BY RangeOfSeq
  <2> QED  BY <2>1 DEF Below, Item
<1>4. Cardinality(Page) = k  OBVIOUS
<1> HIDE DEF k
<1>5. \A n \in 0..k : g[n] = IF n = 0 THEN S ELSE Below(g[n - 1])  BY <1>2 DEF Steps
<1>6. ASSUME NEW n \in 0..k  PROVE g[n] \subseteq Page /\ S \subseteq g[n]
  <2> DEFINE bad == {m \in 0..k : ~(g[m] \subseteq Page /\ S \subseteq g[m])}
  <2>1. ASSUME bad # {}  PROVE FALSE
    <3>1. bad \subseteq Nat  BY <1>1
    <3>2. PICK m \in bad : \A l \in bad : m <= l
      <4> HIDE DEF bad
      <4> QED  BY <2>1, <3>1, LeastOf
    <3>3. m # 0  BY <1>5, <3>2
    <3>4. m - 1 \in 0..k /\ m - 1 \notin bad /\ m \in 0..k  BY <1>1, <3>2, <3>3
    <3>5. g[m] = Below(g[m - 1]) /\ g[m - 1] \subseteq Page /\ S \subseteq g[m - 1]
      BY <1>5, <3>3, <3>4
    <3>6. g[m] \subseteq Page /\ S \subseteq g[m]  BY <1>3, <3>5, BelowGrows
    <3> QED  BY <3>2, <3>6
  <2> QED  BY <2>1
<1>7. \A n \in 0..k : g[n] \subseteq Below(g[n])  BY BelowGrows
<1>8. ASSUME Below(g[k]) # g[k]  PROVE FALSE
  <2>1. ASSUME NEW n \in 0..k, Below(g[n]) = g[n]  PROVE FALSE
    <3> DEFINE T == {m \in Nat : m <= k /\ Below(g[k - m]) = g[k - m]}
    <3>1. k - n \in T
      <4>1. k - n \in Nat /\ k - n <= k /\ k - (k - n) = n  BY <1>1
      <4> QED  BY <2>1, <4>1
    <3>2. PICK m \in T : \A l \in T : m <= l
      <4>1. T \subseteq Nat /\ T # {}  BY <3>1
      <4> HIDE DEF T
      <4> QED  BY <4>1, LeastOf
    <3>3. m # 0  BY <1>1, <1>8, <3>2
    <3>4. m - 1 \in Nat /\ m - 1 <= k /\ k - (m - 1) \in 0..k /\ k - (m - 1) # 0
          /\ (k - (m - 1)) - 1 = k - m
      BY <1>1, <3>2, <3>3
    <3>5. g[k - (m - 1)] = Below(g[k - m])  BY <1>5, <3>4
    <3>6. Below(g[k - (m - 1)]) = g[k - (m - 1)]  BY <3>2, <3>5
    <3>7. m - 1 \in T  BY <3>4, <3>6
    <3> QED  BY <3>2, <3>7
  <2> DEFINE small == {n \in 0..k : ~(Cardinality(g[n]) >= n)}
  <2>2. \A n \in 0..k : IsFiniteSet(g[n]) /\ Cardinality(g[n]) \in Nat
    BY <1>6, FS_Subset, FS_CardinalityType
  <2>3. ASSUME small # {}  PROVE FALSE
    <3>1. small \subseteq Nat  BY <1>1
    <3>2. PICK m \in small : \A l \in small : m <= l
      <4> HIDE DEF small
      <4> QED  BY <2>3, <3>1, LeastOf
    <3>3. m # 0  BY <2>2, <3>2
    <3>4. m - 1 \in 0..k /\ m - 1 \notin small /\ m \in 0..k  BY <1>1, <3>2, <3>3
    <3>5. g[m] = Below(g[m - 1]) /\ Cardinality(g[m - 1]) >= m - 1  BY <1>5, <3>3, <3>4
    <3>6. g[m - 1] \subseteq g[m] /\ g[m - 1] # g[m]  BY <1>7, <2>1, <3>4, <3>5
    <3>7. Cardinality(g[m - 1]) <= Cardinality(g[m]) /\ Cardinality(g[m - 1]) # Cardinality(g[m])
      BY <2>2, <3>4, <3>6, FS_Subset
    <3>8. Cardinality(g[m]) >= m  BY <2>2, <3>4, <3>5, <3>7
    <3> QED  BY <3>2, <3>8
  <2>4. Cardinality(g[k]) >= k /\ k \in 0..k  BY <1>1, <2>3
  <2>5. g[k] \subseteq Page /\ Cardinality(g[k]) <= k
    BY <1>4, <1>6, <2>4, FS_Subset
  <2>6. g[k] = Page
    <3>1. Cardinality(g[k]) = Cardinality(Page)  BY <1>1, <1>4, <2>2, <2>4, <2>5
    <3> QED  BY <2>5, <3>1, FS_Subset
  <2> QED  BY <1>3, <1>7, <1>8, <2>4, <2>6
<1> QED  BY <1>1, <1>2, <1>6, <1>8

-------------------------------------------------------------------------------
(* The line of pages from the top of the tree its down to a page: the least *)
(* set that holds the page, and the page that lists any it holds.           *)

Up(its, T) == \A x, y \in Page : y \in T /\ y \in Range(its[x]) => x \in T
Chain(its, p) == {x \in Page : \A T \in SUBSET Page : p \in T /\ Up(its, T) => x \in T}

LEMMA ChainUp ==
  ASSUME NEW its, NEW p \in Page
  PROVE  p \in Chain(its, p) /\ Chain(its, p) \subseteq Page /\ Up(its, Chain(its, p))
<1>1. p \in Chain(its, p) /\ Chain(its, p) \subseteq Page  BY DEF Chain
<1>2. ASSUME NEW x \in Page, NEW y \in Page, y \in Chain(its, p), y \in Range(its[x])
      PROVE  x \in Chain(its, p)
  <2>1. ASSUME NEW T \in SUBSET Page, p \in T, Up(its, T)  PROVE x \in T
    <3>1. y \in T  BY <1>2, <2>1 DEF Chain
    <3> QED  BY <1>2, <2>1, <3>1 DEF Up
  <2> QED  BY <2>1 DEF Chain
<1> QED  BY <1>1, <1>2 DEF Up

LEMMA ChainLeast ==
  ASSUME NEW its, NEW p, NEW T \in SUBSET Page, p \in T, Up(its, T)
  PROVE  Chain(its, p) \subseteq T
BY DEF Chain

LEMMA ChainOfChain ==
  ASSUME NEW its, NEW p \in Page, NEW x \in Chain(its, p)
  PROVE  Chain(its, x) \subseteq Chain(its, p)
BY ChainUp, ChainLeast

(* The line goes on, below any page of it, to the page that it ends with.   *)
LEMMA ChainDown ==
  ASSUME NEW its, NEW p \in Page, NEW x \in Chain(its, p), x # p
  PROVE  \E y \in Chain(its, p) : y \in Range(its[x])
<1> SUFFICES ASSUME \A y \in Chain(its, p) : y \notin Range(its[x])  PROVE FALSE
  OBVIOUS
<1> DEFINE T == Chain(its, p) \ {x}
<1>1. T \in SUBSET Page /\ p \in T  BY ChainUp
<1>2. Up(its, T)  BY ChainUp DEF Up
<1> HIDE DEF T
<1>3. x \in T  BY <1>1, <1>2, ChainLeast
<1> QED  BY <1>3 DEF T

(* Trees: a page is listed once, under one page, and not on the line above. *)
Distinct(s) == \A i, j \in DOMAIN s : s[i] = s[j] => i = j \/ s[i] = Text

Tree(its) ==
  /\ its \in [Page -> Seq(Item)]
  /\ \A x, y \in Page : x # y => Range(its[x]) \cap Range(its[y]) \subseteq {Text}
  /\ \A x \in Page : Distinct(its[x])
  /\ \A x, y \in Page : y \in Range(its[x]) => y \notin Chain(its, x)
  /\ \A x \in Database : Text \notin Range(its[x])

LEMMA ChainStep ==
  ASSUME WalkAssumption, NEW its, Tree(its), NEW x \in Page, NEW y \in Page, y \in Range(its[x])
  PROVE  \A z : z \in Chain(its, y) <=> z \in Chain(its, x) \/ z = y
<1>1. x \in Chain(its, y) /\ y \in Chain(its, y)  BY ChainUp DEF Up
<1>2. Chain(its, x) \subseteq Chain(its, y)  BY <1>1, ChainOfChain
<1> DEFINE T == Chain(its, x) \cup {y}
<1>3. T \in SUBSET Page /\ y \in T  BY ChainUp
<1>4. ASSUME NEW u \in Page, NEW v \in Page, v \in T, v \in Range(its[u])  PROVE u \in T
  <2>1. CASE v \in Chain(its, x)  BY <1>4, <2>1, ChainUp DEF Up
  <2>2. CASE v = y
    <3>1. v # Text  BY DEF WalkAssumption
    <3>2. u = x  BY <1>4, <2>2, <3>1 DEF Tree
    <3> QED  BY <3>2, ChainUp
  <2> QED  BY <1>4, <2>1, <2>2
<1>5. Up(its, T)  BY <1>4 DEF Up
<1>6. Chain(its, y) \subseteq T
  <2> HIDE DEF T
  <2> QED  BY <1>3, <1>5, ChainLeast
<1> QED  BY <1>1, <1>2, <1>6

(* Of the pages listed under a page, one at most is on the line.            *)
LEMMA OneOfLine ==
  ASSUME WalkAssumption, NEW its, Tree(its), NEW p \in Page, NEW x \in Page,
         NEW c \in Chain(its, p), NEW d \in Chain(its, p),
         c \in Range(its[x]), d \in Range(its[x])
  PROVE  c = d
<1> SUFFICES ASSUME c # d  PROVE FALSE
  OBVIOUS
<1>0. c \in Page /\ d \in Page  BY ChainUp
<1> DEFINE W == {y \in Page : c \in Chain(its, y) /\ d \in Chain(its, y)}
<1>1. W \in SUBSET Page /\ p \in W  OBVIOUS
<1>2. c \notin Chain(its, x) /\ d \notin Chain(its, x)  BY <1>0 DEF Tree
<1>3. \A z : /\ z \in Chain(its, c) <=> z \in Chain(its, x) \/ z = c
             /\ z \in Chain(its, d) <=> z \in Chain(its, x) \/ z = d
  BY <1>0, ChainStep
<1>4. ASSUME NEW u \in Page, NEW v \in Page, v \in W, v \in Range(its[u])  PROVE u \in W
  <2>1. \A z : z \in Chain(its, v) <=> z \in Chain(its, u) \/ z = v
    BY <1>4, ChainStep
  <2>2. v # c /\ v # d  BY <1>2, <1>3, <1>4
  <2> QED  BY <1>4, <2>1, <2>2
<1>5. Up(its, W)  BY <1>4 DEF Up
<1>6. Chain(its, p) \subseteq W
  <2> HIDE DEF W
  <2> QED  BY <1>1, <1>5, ChainLeast
<1>7. x \in Chain(its, p)  BY <1>0, ChainUp DEF Up
<1> QED  BY <1>2, <1>6, <1>7

LEMMA NotAboveItself ==
  ASSUME NEW its, Tree(its), NEW p \in Page, NEW c \in Chain(its, p)
  PROVE  c \notin Range(its[p])
BY ChainUp DEF Tree

(* Line, Ancestors and Exists of SourceWalk are about that line.            *)
LEMMA LineIsChain ==
  ASSUME WalkAssumption, items \in [Page -> Seq(Item)], NEW p \in Page, NEW x \in Page
  PROVE  p \in Under({x}) <=> x \in Chain(items, p)
<1>0. IsFiniteSet(Page)  BY DEF WalkAssumption
<1>1. ASSUME p \in Under({x})  PROVE x \in Chain(items, p)
  <2> SUFFICES ASSUME NEW T \in SUBSET Page, p \in T, Up(items, T), x \notin T  PROVE FALSE
    BY DEF Chain
  <2> DEFINE D == Page \ T
  <2>1. {x} \subseteq D  OBVIOUS
  <2>2. Below(D) \subseteq D
    <3>1. ASSUME NEW z \in D, NEW y \in Range(items[z]) \ {Text}  PROVE y \in D
      <4>1. Range(items[z]) \subseteq Item  BY RangeOfSeq
      <4>2. y \in Page  BY <4>1 DEF Item
      <4> QED  BY <4>2 DEF Up
    <3> QED  BY <3>1 DEF Below
  <2>3. Under({x}) \subseteq D
    <3> HIDE DEF D
    <3> QED  BY <1>0, <2>1, <2>2, UnderIsLeast
  <2> QED  BY <1>1, <2>3
<1>2. ASSUME x \in Chain(items, p), p \notin Under({x})  PROVE FALSE
  <2>1. x \in Under({x}) /\ Below(Under({x})) \subseteq Under({x})
    <3>1. {x} \subseteq Page  OBVIOUS
    <3>2. {x} \subseteq Under({x}) /\ Below(Under({x})) \subseteq Under({x})
      BY <1>0, <3>1, UnderIsClosed
    <3> QED  BY <3>2
  <2> DEFINE T == Page \ Under({x})
  <2>2. T \in SUBSET Page /\ p \in T  BY <1>2
  <2>3. ASSUME NEW z \in Page, NEW y \in Page, y \in T, y \in Range(items[z])  PROVE z \in T
    <3>1. y # Text  BY DEF WalkAssumption
    <3>2. z \in Under({x}) => y \in Below(Under({x}))
      <4> HIDE DEF T
      <4> QED  BY <2>3, <3>1, BelowHolds
    <3> QED  BY <2>1, <2>3, <3>2
  <2>4. Up(items, T)  BY <2>3 DEF Up
  <2>5. x \in T
    <3> HIDE DEF T
    <3> QED  BY <1>2, <2>2, <2>4, ChainLeast
  <2> QED  BY <2>1, <2>5
<1> QED  BY <1>1, <1>2

-------------------------------------------------------------------------------
(* Listings without an item: how far down a page is in them.                *)

LEMMA PlacesIncrease ==
  ASSUME NEW S, NEW s \in Seq(S), NEW x, NEW at, Places(s, x, at)
  PROVE  /\ \A m, n \in DOMAIN But(s, x) : m < n => at[m] < at[n]
         /\ \A m, n \in DOMAIN But(s, x) : at[m] = at[n] => m = n
         /\ \A n \in DOMAIN But(s, x) : n \in Nat \ {0} /\ at[n] \in 1..Len(s)
<1> DEFINE low(k) == {j \in DOMAIN s : s[j] # x /\ j <= k}
<1>1. Len(s) \in Nat /\ DOMAIN s = 1..Len(s)  BY LenProperties
<1>2. \A n \in DOMAIN But(s, x) : n \in Nat \ {0}
  <2>1. But(s, x) \in Seq(S \ {x})  BY ButPositions
  <2>2. DOMAIN But(s, x) = 1..Len(But(s, x)) /\ Len(But(s, x)) \in Nat  BY <2>1, LenProperties
  <2> QED  BY <2>2
<1>3. \A n \in DOMAIN But(s, x) : at[n] \in 1..Len(s) /\ n = Cardinality(low(at[n]))
  BY <1>1 DEF Places
<1>4. IsFiniteSet(1..Len(s))  BY <1>1, FS_Interval
<1>5. \A k \in 1..Len(s) : low(k) \in SUBSET (1..Len(s))  BY <1>1
<1>6. \A k \in 1..Len(s) : IsFiniteSet(low(k))
  <2> HIDE DEF low
  <2> QED  BY <1>4, <1>5, FS_Subset
<1>7. ASSUME NEW m \in DOMAIN But(s, x), NEW n \in DOMAIN But(s, x), m < n
      PROVE  at[m] < at[n]
  <2> SUFFICES ASSUME ~(at[m] < at[n])  PROVE FALSE
    OBVIOUS
  <2>0. \A k, l \in 1..Len(s) : k <= l => low(k) \in SUBSET low(l)  BY <1>1
  <2>a. at[m] \in 1..Len(s) /\ at[n] \in 1..Len(s)  BY <1>3
  <2>1. at[n] <= at[m]
    <3> HIDE DEF low
    <3> QED  BY <1>1, <2>a
  <2>2. low(at[n]) \in SUBSET low(at[m])  BY <2>0, <2>1, <2>a
  <2>3. Cardinality(low(at[n])) <= Cardinality(low(at[m]))
    <3> HIDE DEF low
    <3> QED  BY <1>3, <1>6, <2>2, FS_Subset
  <2> HIDE DEF low
  <2> QED  BY <1>2, <1>3, <1>7, <2>3
<1> HIDE DEF low
<1>8. \A m, n \in DOMAIN But(s, x) : at[m] = at[n] => m = n  BY <1>3
<1> QED  BY <1>2, <1>3, <1>7, <1>8

(* What goes down in a sequence goes down among the items but x, or stays.  *)
Embeds(s, t, e) ==
  /\ e \in [DOMAIN s -> DOMAIN t]
  /\ \A i \in DOMAIN s : t[e[i]] = s[i]
  /\ \A i, j \in DOMAIN s : i < j => e[i] < e[j]

LEMMA ButLifts ==
  ASSUME NEW S, NEW s \in Seq(S), NEW t \in Seq(S), NEW x, NEW e, Embeds(s, t, e),
         NEW n \in DOMAIN But(s, x)
  PROVE  \E m \in DOMAIN But(t, x) : m >= n /\ But(t, x)[m] = But(s, x)[n]
<1>1. PICK at : Places(s, x, at)  BY ButPositions
<1>2. PICK to : Places(t, x, to)  BY ButPositions
<1>3. /\ Len(s) \in Nat /\ DOMAIN s = 1..Len(s) /\ Len(t) \in Nat /\ DOMAIN t = 1..Len(t)
  BY LenProperties
<1> DEFINE i == at[n]
           k == e[i]
<1>4. i \in DOMAIN s /\ s[i] = But(s, x)[n] /\ s[i] # x
  BY <1>1 DEF Places
<1>5. k \in DOMAIN t /\ t[k] = s[i]  BY <1>4 DEF Embeds
<1>6. PICK m \in DOMAIN But(t, x) : to[m] = k
  <2> HIDE DEF i, k
  <2> QED  BY <1>2, <1>4, <1>5 DEF Places
<1> DEFINE I == {j \in DOMAIN s : s[j] # x /\ j <= i}
           J == {j \in DOMAIN t : t[j] # x /\ j <= k}
           f == [j \in I |-> e[j]]
<1>7. n = Cardinality(I)  BY <1>1 DEF Places
<1>8. m = Cardinality(J) /\ But(t, x)[m] = t[k]
  <2>1. m = Cardinality({j \in DOMAIN t : t[j] # x /\ j <= to[m]}) /\ But(t, x)[m] = t[to[m]]
    BY <1>2 DEF Places
  <2> HIDE DEF k
  <2> QED  BY <1>6, <2>1
<1>9. f \in [I -> J]
  <2>1. ASSUME NEW j \in I  PROVE e[j] \in J
    <3>1. j \in DOMAIN s /\ s[j] # x /\ j <= i  OBVIOUS
    <3> HIDE DEF i
    <3>2. e[j] \in DOMAIN t /\ t[e[j]] = s[j]  BY <3>1 DEF Embeds
    <3>3. j = i \/ j < i  BY <1>3, <1>4, <3>1
    <3>4. j < i => e[j] < k  BY <1>4, <3>1 DEF Embeds
    <3>5. e[j] <= k  BY <1>3, <1>5, <3>2, <3>3, <3>4
    <3> QED  BY <3>1, <3>2, <3>5
  <2> HIDE DEF I, J
  <2> QED  BY <2>1
<1>10. \A j, l \in I : f[j] = f[l] => j = l
  <2>1. \A j, l \in DOMAIN s : e[j] = e[l] => j = l
    <3>1. \A j \in DOMAIN s : e[j] \in DOMAIN t  BY DEF Embeds
    <3>2. \A j, l \in DOMAIN s : j < l => e[j] < e[l]  BY DEF Embeds
    <3>3. \A j, l \in DOMAIN s : j = l \/ j < l \/ l < j  BY <1>3
    <3>4. \A j, l \in DOMAIN s : j < l => e[j] # e[l]  BY <1>3, <3>1, <3>2
    <3> QED  BY <3>3, <3>4
  <2>2. \A j \in I : j \in DOMAIN s /\ f[j] = e[j]  OBVIOUS
  <2> HIDE DEF I, f
  <2> QED  BY <2>1, <2>2
<1>11. IsFiniteSet(J)
  <2>1. IsFiniteSet(1..Len(t))  BY <1>3, FS_Interval
  <2>2. J \in SUBSET (1..Len(t))  BY <1>3
  <2> HIDE DEF J
  <2> QED  BY <2>1, <2>2, FS_Subset
<1> HIDE DEF I, J, f
<1>12. f \in Injection(I, J)  BY <1>9, <1>10 DEF Injection, IsInjective
<1>13. Cardinality(I) <= Cardinality(J)  BY <1>11, <1>12, FS_Injection
<1>14. Cardinality(I) \in Nat /\ Cardinality(J) \in Nat
  BY <1>11, <1>12, FS_Injection, FS_CardinalityType
<1> HIDE DEF i, k
<1>15. m >= n  BY <1>7, <1>8, <1>13, <1>14
<1> QED  BY <1>4, <1>5, <1>8, <1>15

LEMMA ButDistinct ==
  ASSUME NEW S, NEW s \in Seq(S), NEW x, Distinct(s)
  PROVE  Distinct(But(s, x))
<1>1. PICK at : Places(s, x, at)  BY ButPositions
<1>2. \A m, n \in DOMAIN But(s, x) : at[m] = at[n] => m = n  BY <1>1, PlacesIncrease
<1>3. \A n \in DOMAIN But(s, x) : at[n] \in DOMAIN s /\ But(s, x)[n] = s[at[n]]
  BY <1>1 DEF Places
<1> QED  BY <1>2, <1>3 DEF Distinct

LEMMA ButNothing ==
  ASSUME NEW S, NEW s \in Seq(S), NEW x, x \notin Range(s)
  PROVE  But(s, x) = s
<1> DEFINE b == But(s, x)
<1>1. PICK at : Places(s, x, at)  BY ButPositions
<1>2. Len(s) \in Nat /\ DOMAIN s = 1..Len(s) /\ \A i \in DOMAIN s : s[i] # x
  BY LenProperties DEF Range
<1>3. ASSUME NEW n \in DOMAIN b  PROVE at[n] = n /\ n \in DOMAIN s /\ b[n] = s[n]
  <2>1. at[n] \in 1..Len(s) /\ b[n] = s[at[n]]
        /\ n = Cardinality({j \in DOMAIN s : s[j] # x /\ j <= at[n]})
    BY <1>1, <1>2 DEF Places
  <2>2. \A k \in 1..Len(s) : {j \in DOMAIN s : s[j] # x /\ j <= k} = 1..k
    BY <1>2
  <2>3. \A k \in 1..Len(s) : Cardinality(1..k) = k
    <3> SUFFICES ASSUME NEW k \in 1..Len(s)  PROVE Cardinality(1..k) = k
      OBVIOUS
    <3>1. k \in Nat /\ k >= 1  BY <1>2
    <3>2. Cardinality(1..k) = IF 1 <= k THEN k - 1 + 1 ELSE 0  BY <3>1, FS_Interval
    <3> QED  BY <3>1, <3>2
  <2> QED  BY <1>2, <2>1, <2>2, <2>3
<1>4. \A i \in DOMAIN s : \E n \in DOMAIN b : at[n] = i
  BY <1>1, <1>2 DEF Places
<1>5. b \in Seq(S \ {x})  BY ButPositions
<1> HIDE DEF b
<1>6. DOMAIN b = DOMAIN s  BY <1>3, <1>4
<1>7. b = [n \in DOMAIN b |-> b[n]] /\ s = [n \in DOMAIN s |-> s[n]]
  <2>1. b \in [1..Len(b) -> S \ {x}] /\ s \in [1..Len(s) -> S]  BY <1>5, LenProperties
  <2> QED  BY <2>1
<1>8. b = s  BY <1>3, <1>6, <1>7
<1> QED  BY <1>8 DEF b

-------------------------------------------------------------------------------
(* A page p that moves: from any listing, into one or none.                 *)

Relisted(s, t, p) == t = But(s, p) \/ \E first \in BOOLEAN : t = Insert(But(s, p), p, first)

LEMMA InsertProperties ==
  ASSUME NEW S, NEW s \in Seq(S), NEW p \in S, NEW first \in BOOLEAN
  PROVE  /\ Insert(s, p, first) \in Seq(S)
         /\ \A y : y \in Range(Insert(s, p, first)) <=> y \in Range(s) \/ y = p
         /\ Embeds(s, Insert(s, p, first), [i \in DOMAIN s |-> IF first THEN i + 1 ELSE i])
         /\ p \notin Range(s) /\ Distinct(s) => Distinct(Insert(s, p, first))
<1> DEFINE e == [i \in DOMAIN s |-> IF first THEN i + 1 ELSE i]
           t == Insert(s, p, first)
           one == <<p>>
<1>1. Len(s) \in Nat /\ DOMAIN s = 1..Len(s)  BY LenProperties
<1>2. one \in Seq(S) /\ Len(one) = 1 /\ one[1] = p /\ Range(one) = {p}
  <2>1. one \in Seq(S) /\ Len(one) = 1 /\ one[1] = p /\ DOMAIN one = {1}  OBVIOUS
  <2> HIDE DEF one
  <2> QED  BY <2>1 DEF Range
<1>3. Append(s, p) = s \o one  BY AppendIsConcat
<1> HIDE DEF one
<1>4. t = IF first THEN one \o s ELSE s \o one  BY <1>3 DEF Insert, one
<1> HIDE DEF t
<1>5. t \in Seq(S) /\ \A y : y \in Range(t) <=> y \in Range(s) \/ y = p
  <2>1. one \o s \in Seq(S) /\ s \o one \in Seq(S)  BY <1>2, ConcatProperties
  <2>2. Range(one \o s) = Range(one) \cup Range(s) /\ Range(s \o one) = Range(s) \cup Range(one)
    BY <1>2, RangeConcatenation
  <2> QED  BY <1>2, <1>4, <2>1, <2>2
<1>6. /\ Len(t) = Len(s) + 1 /\ DOMAIN t = 1..(Len(s) + 1)
      /\ \A i \in 1..Len(s) : t[IF first THEN i + 1 ELSE i] = s[i]
      /\ t[IF first THEN 1 ELSE Len(s) + 1] = p
  <2>1. CASE first
    <3>1. /\ Len(one \o s) = 1 + Len(s)
          /\ \A i \in 1..(1 + Len(s)) : (one \o s)[i] = IF i <= 1 THEN one[i] ELSE s[i - 1]
      <4>1. /\ Len(one \o s) = Len(one) + Len(s)
            /\ \A i \in 1..(Len(one) + Len(s)) :
                 (one \o s)[i] = IF i <= Len(one) THEN one[i] ELSE s[i - Len(one)]
        BY <1>2, ConcatProperties
      <4> QED  BY <1>2, <4>1
    <3>2. \A i \in 1..Len(s) : i + 1 \in 1..(1 + Len(s)) /\ ~(i + 1 <= 1) /\ (i + 1) - 1 = i
      BY <1>1
    <3>3. 1 \in 1..(1 + Len(s)) /\ 1 <= 1 /\ Len(s) + 1 = 1 + Len(s)  BY <1>1
    <3>4. t = one \o s  BY <1>4, <2>1
    <3>5. DOMAIN t = 1..Len(t)  BY <1>5, LenProperties
    <3> QED  BY <1>2, <2>1, <3>1, <3>2, <3>3, <3>4, <3>5
  <2>2. CASE ~first
    <3>1. /\ Len(s \o one) = Len(s) + 1
          /\ \A i \in 1..(Len(s) + 1) :
               (s \o one)[i] = IF i <= Len(s) THEN s[i] ELSE one[i - Len(s)]
      BY <1>2, ConcatProperties
    <3>2. /\ \A i \in 1..Len(s) : i \in 1..(Len(s) + 1) /\ i <= Len(s)
          /\ Len(s) + 1 \in 1..(Len(s) + 1) /\ ~(Len(s) + 1 <= Len(s)) /\ (Len(s) + 1) - Len(s) = 1
      BY <1>1
    <3>4. t = s \o one  BY <1>4, <2>2
    <3>5. DOMAIN t = 1..Len(t)  BY <1>5, LenProperties
    <3> QED  BY <1>2, <2>2, <3>1, <3>2, <3>4, <3>5
  <2> QED  BY <2>1, <2>2
<1>7. Embeds(s, t, e)
  <2>1. \A i \in 1..Len(s) : e[i] = IF first THEN i + 1 ELSE i  BY <1>1
  <2>2. e \in [DOMAIN s -> DOMAIN t]  BY <1>1, <1>6
  <2>3. \A i, j \in 1..Len(s) : i < j => e[i] < e[j]  BY <1>1, <2>1
  <2> HIDE DEF e
  <2> QED  BY <1>1, <1>6, <2>1, <2>2, <2>3 DEF Embeds
<1>8. ASSUME p \notin Range(s), Distinct(s)  PROVE Distinct(t)
  <2> DEFINE d == IF first THEN 1 ELSE 0
             at == IF first THEN 1 ELSE Len(s) + 1
  <2>1. d \in {0, 1} /\ at \in 1..(Len(s) + 1)  BY <1>1
  <2>2. \A i \in 1..(Len(s) + 1) : i # at => i - d \in 1..Len(s) /\ t[i] = s[i - d]
    <3> SUFFICES ASSUME NEW i \in 1..(Len(s) + 1), i # at
                 PROVE  i - d \in 1..Len(s) /\ t[i] = s[i - d]
      OBVIOUS
    <3>1. i - d \in 1..Len(s)  BY <1>1
    <3>2. i = IF first THEN (i - d) + 1 ELSE i - d  BY <1>1
    <3> HIDE DEF d
    <3>3. t[IF first THEN (i - d) + 1 ELSE i - d] = s[i - d]  BY <1>6, <3>1
    <3> QED  BY <3>1, <3>2, <3>3
  <2>3. t[at] = p  BY <1>6
  <2> HIDE DEF d, at
  <2>4. \A i \in 1..Len(s) : s[i] # p  BY <1>1, <1>8 DEF Range
  <2>5. ASSUME NEW i \in 1..(Len(s) + 1), NEW j \in 1..(Len(s) + 1), t[i] = t[j]
        PROVE  i = j \/ t[i] = Text
    <3>1. CASE i = at \/ j = at  BY <2>2, <2>3, <2>4, <2>5, <3>1
    <3>2. CASE i # at /\ j # at
      <4>1. /\ i - d \in 1..Len(s) /\ t[i] = s[i - d]
            /\ j - d \in 1..Len(s) /\ t[j] = s[j - d]
        BY <2>2, <3>2
      <4>2. i - d = j - d \/ t[i] = Text  BY <1>1, <1>8, <2>5, <4>1 DEF Distinct
      <4> QED  BY <1>1, <2>1, <4>2
    <3> QED  BY <3>1, <3>2
  <2> QED  BY <1>6, <2>5 DEF Distinct
<1> QED  BY <1>5, <1>7, <1>8 DEF t, e

LEMMA InsertRange ==
  ASSUME NEW S, NEW s \in Seq(S), NEW p \in S, NEW first \in BOOLEAN, NEW y
  PROVE  y \in Range(Insert(s, p, first)) <=> y \in Range(s) \/ y = p
BY InsertProperties

LEMMA ButEmbeds ==
  ASSUME NEW S, NEW s \in Seq(S), NEW x
  PROVE  \E e : Embeds(But(s, x), s, e)
<1>1. PICK at : Places(s, x, at)  BY ButPositions
<1>2. \A m, n \in DOMAIN But(s, x) : m < n => at[m] < at[n]  BY <1>1, PlacesIncrease
<1>3. Embeds(But(s, x), s, at)  BY <1>1, <1>2 DEF Places, Embeds
<1> QED  BY <1>3

LEMMA RelistedProperties ==
  ASSUME WalkAssumption, NEW p \in Page, NEW s \in Seq(Item), NEW t, Relisted(s, t, p)
  PROVE  /\ t \in Seq(Item)
         /\ \A y : y # p => (y \in Range(t) <=> y \in Range(s))
         /\ Distinct(s) => Distinct(t)
         /\ p \notin Range(t) => t = But(s, p)
         /\ p \notin Range(s) => t = s \/ \E first \in BOOLEAN : t = Insert(s, p, first)
<1> DEFINE b == But(s, p)
<1>1. b \in Seq(Item) /\ Range(b) = Range(s) \ {p}
  <2>1. b \in Seq(Item \ {p})  BY ButProperties
  <2> QED  BY <2>1, SeqMonotonic, ButProperties
<1>2. Distinct(s) => Distinct(b)  BY ButDistinct
<1>3. p \notin Range(s) => b = s  BY ButNothing
<1>4. t = b \/ \E first \in BOOLEAN : t = Insert(b, p, first)  BY DEF Relisted
<1> HIDE DEF b
<1>5. ASSUME t # b
      PROVE  /\ t \in Seq(Item) /\ \A y : y \in Range(t) <=> y \in Range(b) \/ y = p
             /\ Distinct(b) => Distinct(t)
  <2>1. PICK first \in BOOLEAN : t = Insert(b, p, first)  BY <1>4, <1>5
  <2>2. p \in Item /\ p \notin Range(b)  BY <1>1 DEF Item
  <2>3. Insert(b, p, first) \in Seq(Item)  BY <1>1, <2>2, InsertProperties
  <2>4. \A y : y \in Range(Insert(b, p, first)) <=> y \in Range(b) \/ y = p
    BY <1>1, <2>2, InsertRange
  <2>5. Distinct(b) => Distinct(Insert(b, p, first))  BY <1>1, <2>2, InsertProperties
  <2> QED  BY <2>1, <2>3, <2>4, <2>5
<1>6. t \in Seq(Item)  BY <1>1, <1>5
<1>7. \A y : y # p => (y \in Range(t) <=> y \in Range(s))
  <2>1. CASE t = b  BY <1>1, <2>1
  <2>2. CASE t # b  BY <1>1, <1>5, <2>2
  <2> QED  BY <2>1, <2>2
<1>8. Distinct(s) => Distinct(t)
  <2>1. CASE t = b  BY <1>2, <2>1
  <2>2. CASE t # b  BY <1>2, <1>5, <2>2
  <2> QED  BY <2>1, <2>2
<1>9. p \notin Range(t) => t = b  BY <1>5
<1>10. p \notin Range(s) => t = s \/ \E first \in BOOLEAN : t = Insert(s, p, first)
  BY <1>3, <1>4
<1> QED  BY <1>6, <1>7, <1>8, <1>9, <1>10 DEF b

LEMMA RelistedRange ==
  ASSUME WalkAssumption, NEW p \in Page, NEW s \in Seq(Item), NEW t, Relisted(s, t, p), NEW y, y # p
  PROVE  y \in Range(t) <=> y \in Range(s)
BY RelistedProperties

LEMMA RelistedDistinct ==
  ASSUME WalkAssumption, NEW p \in Page, NEW s \in Seq(Item), NEW t, Relisted(s, t, p), Distinct(s)
  PROVE  Distinct(t)
BY RelistedProperties

(* The child pages listed in s are listed in t, none of them further up.    *)
Lifts(s, t) ==
  \A n \in DOMAIN But(s, Text) :
    \E m \in DOMAIN But(t, Text) : m >= n /\ But(t, Text)[m] = But(s, Text)[n]

(* What the listing of child pages loses moves up, what it gains moves down *)
(* the rest.                                                                *)
LEMMA RelistedLifts ==
  ASSUME WalkAssumption, NEW p \in Page, NEW s \in Seq(Item), NEW t, Relisted(s, t, p)
  PROVE  /\ p \notin Range(t) => Lifts(t, s)
         /\ p \notin Range(s) => Lifts(s, t)
<1>1. t \in Seq(Item)  BY RelistedProperties
<1>2. ASSUME p \notin Range(t), NEW n \in DOMAIN But(t, Text)
      PROVE  \E m \in DOMAIN But(s, Text) : m >= n /\ But(s, Text)[m] = But(t, Text)[n]
  <2>1. t = But(s, p)  BY <1>2, RelistedProperties
  <2>2. PICK e : Embeds(t, s, e)  BY <2>1, ButEmbeds
  <2> QED  BY <1>1, <2>2, ButLifts
<1>3. ASSUME p \notin Range(s), NEW n \in DOMAIN But(s, Text)
      PROVE  \E m \in DOMAIN But(t, Text) : m >= n /\ But(t, Text)[m] = But(s, Text)[n]
  <2>1. t = s \/ \E first \in BOOLEAN : t = Insert(s, p, first)
    BY <1>3, RelistedProperties
  <2>2. CASE t = s
    <3>1. But(s, Text) \in Seq(Item \ {Text})  BY ButProperties
    <3>2. n \in Nat  BY <3>1, LenProperties
    <3>3. n >= n  BY <3>2
    <3> QED  BY <2>2, <3>3
  <2>3. CASE \E first \in BOOLEAN : t = Insert(s, p, first)
    <3>1. \E e : Embeds(s, t, e)
      <4>1. p \in Item  BY DEF Item
      <4>2. PICK first \in BOOLEAN : t = Insert(s, p, first)  BY <2>3
      <4> QED  BY <4>1, <4>2, InsertProperties
    <3> QED  BY <1>1, <3>1, ButLifts
  <2> QED  BY <2>1, <2>2, <2>3
<1> QED  BY <1>2, <1>3 DEF Lifts

(* A move of p, from the tree its to the tree jts: p gets no place below    *)
(* itself.                                                                  *)
Moves(its, jts, p) ==
  /\ jts \in [Page -> Seq(Item)]
  /\ \A x \in Page : Relisted(its[x], jts[x], p)
  /\ \A x, y \in Page : p \in Range(jts[x]) => p \notin Chain(its, x) /\ (p \in Range(jts[y]) => x = y)

LEMMA MoveMoves ==
  ASSUME WalkAssumption, TypesInv, NEW p \in Page, Move(p)
  PROVE  Moves(items, items', p) /\ p # Root
<1> DEFINE without == Without(p)
<1>1. items \in [Page -> Seq(Item)] /\ IsFiniteSet(Page)  BY DEF TypesInv, WalkAssumption
<1>2. without = [x \in Page |-> But(items[x], p)]  BY DEF Without
<1>t. items' \in [Page -> Seq(Item)]  BY MoveTypes DEF TypesInv
<1>3. \A x \in Page : p \notin Range(But(items[x], p))
  <2>1. \A x \in Page : items[x] \in Seq(Item)  BY <1>1
  <2> QED  BY <2>1, ButProperties
<1>4. CASE items' = without
  <2>1. \A x \in Page : items'[x] = But(items[x], p)
    BY <1>2, <1>4
  <2>2. \A x \in Page : Relisted(items[x], items'[x], p)  BY <2>1 DEF Relisted
  <2> QED  BY <1>3, <1>t, <2>1, <2>2 DEF Moves, Move
<1>5. CASE items' # without
  <2>1. PICK q \in Under({Root}) \ Under({p}), first \in BOOLEAN :
          items' = [without EXCEPT ![q] = Insert(@, p, first)]
    BY <1>5 DEF Move
  <2>2. q \in Page
    <3>1. {Root} \subseteq Page  BY DEF WalkAssumption
    <3>2. Under({Root}) \subseteq Page  BY <1>1, <3>1, UnderIsClosed
    <3> QED  BY <3>2
  <2>3. p \notin Chain(items, q)  BY <1>1, <2>1, <2>2, LineIsChain
  <2>4. /\ items'[q] = Insert(But(items[q], p), p, first)
        /\ \A x \in Page \ {q} : items'[x] = But(items[x], p)
    BY <1>2, <2>1, <2>2
  <2>5. \A x \in Page : Relisted(items[x], items'[x], p)  BY <2>4 DEF Relisted
  <2>6. \A x \in Page : p \in Range(items'[x]) => x = q  BY <1>3, <2>4
  <2> QED  BY <1>t, <2>3, <2>4, <2>5, <2>6 DEF Moves, Move
<1> QED  BY <1>4, <1>5

LEMMA MovedItems ==
  ASSUME WalkAssumption, NEW p \in Page, NEW its \in [Page -> Seq(Item)], NEW jts, Moves(its, jts, p)
  PROVE  /\ \A x \in Page : jts[x] \in Seq(Item)
         /\ \A x \in Page : \A y : y # p => (y \in Range(jts[x]) <=> y \in Range(its[x]))
         /\ \A x \in Page : Distinct(its[x]) => Distinct(jts[x])
<1> SUFFICES ASSUME NEW x \in Page
             PROVE  /\ jts[x] \in Seq(Item)
                    /\ \A y : y # p => (y \in Range(jts[x]) <=> y \in Range(its[x]))
                    /\ Distinct(its[x]) => Distinct(jts[x])
  OBVIOUS
<1>1. its[x] \in Seq(Item) /\ Relisted(its[x], jts[x], p)  BY DEF Moves
<1>2. jts[x] \in Seq(Item)  BY <1>1, RelistedProperties
<1>3. \A y : y # p => (y \in Range(jts[x]) <=> y \in Range(its[x]))  BY <1>1, RelistedRange
<1>4. Distinct(its[x]) => Distinct(jts[x])  BY <1>1, RelistedDistinct
<1> QED  BY <1>2, <1>3, <1>4

AlikeBut(its, jts, p) ==
  \A x \in Page : \A y : y # p => (y \in Range(jts[x]) <=> y \in Range(its[x]))

(* A line that p is not on stays as it is, and is the only such line.       *)
LEMMA LineStays ==
  ASSUME NEW p, NEW its, NEW jts, NEW x \in Page, p \notin Chain(its, x), AlikeBut(its, jts, p)
  PROVE  Chain(jts, x) = Chain(its, x)
<1> DEFINE S == Chain(its, x)
           T == Chain(jts, x)
<1>1. S \in SUBSET Page /\ x \in S /\ Up(its, S) /\ T \in SUBSET Page /\ x \in T /\ Up(jts, T)
  BY ChainUp
<1>2. p \notin S  OBVIOUS
<1> HIDE DEF S, T
<1>3. Up(jts, S)  BY <1>1, <1>2 DEF Up, AlikeBut
<1>4. T \subseteq S  BY <1>1, <1>3, ChainLeast DEF T
<1>5. Up(its, T)  BY <1>1, <1>2, <1>4 DEF Up, AlikeBut
<1>6. S \subseteq T  BY <1>1, <1>5, ChainLeast DEF S
<1> QED  BY <1>4, <1>6 DEF S, T

LEMMA TreeMoved ==
  ASSUME WalkAssumption, NEW p \in Page, NEW its, Tree(its), NEW jts, Moves(its, jts, p)
  PROVE  Tree(jts)
<1>1. its \in [Page -> Seq(Item)]  BY DEF Tree
<1>2. /\ \A x \in Page : jts[x] \in Seq(Item)
      /\ \A x \in Page : \A y : y # p => (y \in Range(jts[x]) <=> y \in Range(its[x]))
      /\ \A x \in Page : Distinct(its[x]) => Distinct(jts[x])
  BY <1>1, MovedItems
<1>3. p # Text  BY DEF WalkAssumption
<1>4. ASSUME NEW x \in Page, NEW y \in Page, y \in Range(jts[x])  PROVE y \notin Chain(jts, x)
  <2> DEFINE A == Chain(its, x)
  <2>1. A \in SUBSET Page /\ x \in A /\ Up(its, A)  BY ChainUp
  <2>2. CASE p \notin A
    <3>1. Chain(jts, x) = A
      <4>1. AlikeBut(its, jts, p)  BY <1>2 DEF AlikeBut
      <4> QED  BY <2>2, <4>1, LineStays
    <3>2. y = p \/ y \notin A  BY <1>2, <1>4 DEF Tree
    <3> QED  BY <2>2, <3>1, <3>2
  <2>3. CASE p \in A
    <3>1. y # p /\ y \in Range(its[x])  BY <1>2, <1>4, <2>3 DEF Moves
    <3>2. y \notin A  BY <1>4, <3>1 DEF Tree
    <3>3. \A z : z \in Chain(its, y) <=> z \in A \/ z = y  BY <1>4, <3>1, ChainStep
    <3>4. CASE \A q \in Page : p \notin Range(jts[q])
      <4>1. Up(jts, A)
        <5> HIDE DEF A
        <5>1. ASSUME NEW u \in Page, NEW v \in Page, v \in A, v \in Range(jts[u])  PROVE u \in A
          <6>1. v # p  BY <3>4, <5>1
          <6>2. v \in Range(its[u])  BY <1>2, <5>1, <6>1
          <6> QED  BY <2>1, <5>1, <6>2 DEF Up
        <5> QED  BY <5>1 DEF Up
      <4>2. Chain(jts, x) \subseteq A  BY <2>1, <4>1, ChainLeast
      <4> QED  BY <3>2, <4>2
    <3>5. ASSUME NEW q \in Page, p \in Range(jts[q])  PROVE y \notin Chain(jts, x)
      <4> DEFINE B == Chain(its, q)
                 T == A \cup B
      <4>1. B \in SUBSET Page /\ q \in B /\ Up(its, B) /\ p \notin B
        BY <3>5, ChainUp DEF Moves
      <4>2. y \notin B
        <5> SUFFICES ASSUME y \in B  PROVE FALSE
          OBVIOUS
        <5>1. Chain(its, y) \subseteq B  BY <3>5, ChainOfChain
        <5>2. p \in Chain(its, y)  BY <2>3, <3>3
        <5> QED  BY <4>1, <5>1, <5>2
      <4> HIDE DEF A, B
      <4>3. ASSUME NEW u \in Page, NEW v \in Page, v \in T, v \in Range(jts[u])  PROVE u \in T
        <5>1. CASE v = p
          <6>1. u = q  BY <3>5, <4>3, <5>1 DEF Moves
          <6> QED  BY <4>1, <6>1
        <5>2. CASE v # p
          <6>1. v \in Range(its[u])  BY <1>2, <4>3, <5>2
          <6> QED  BY <2>1, <4>1, <4>3, <6>1 DEF Up
        <5> QED  BY <5>1, <5>2
      <4>4. Up(jts, T)  BY <4>3 DEF Up
      <4>5. T \in SUBSET Page /\ x \in T  BY <2>1, <4>1
      <4>6. y \notin T  BY <3>2, <4>2
      <4> HIDE DEF T
      <4>7. Chain(jts, x) \subseteq T  BY <4>4, <4>5, ChainLeast
      <4> QED  BY <4>6, <4>7
    <3> QED  BY <3>4, <3>5
  <2> QED  BY <2>2, <2>3
<1>5. \A x, y \in Page : x # y => Range(jts[x]) \cap Range(jts[y]) \subseteq {Text}
  <2> SUFFICES ASSUME NEW x \in Page, NEW y \in Page, x # y,
                      NEW z \in Range(jts[x]), z \in Range(jts[y])
               PROVE  z = Text
    OBVIOUS
  <2>1. CASE z = p  BY <2>1 DEF Moves
  <2>2. CASE z # p
    <3>1. z \in Range(its[x]) /\ z \in Range(its[y])  BY <1>2, <2>2
    <3> QED  BY <3>1 DEF Tree
  <2> QED  BY <2>1, <2>2
<1>6. \A x \in Database : Text \notin Range(jts[x])
  <2>1. Database \subseteq Page  BY DEF WalkAssumption
  <2> QED  BY <1>2, <1>3, <2>1 DEF Tree
<1>7. jts \in [Page -> Seq(Item)]  BY DEF Moves
<1>8. \A x \in Page : Distinct(jts[x])  BY <1>2 DEF Tree
<1> QED  BY <1>4, <1>5, <1>6, <1>7, <1>8 DEF Tree

(* What a walk finds is a tree: the line above a page goes up.              *)
LEMMA InitTree ==
  ASSUME WalkAssumption, NEW its \in Trees
  PROVE  Tree(its)
<1>1. PICK depth \in [Page -> 0..Cardinality(Page)] :
         \A x \in Page : \A y \in Range(its[x]) \ {Text} : depth[x] < depth[y]
  BY DEF WalkAssumption
<1>2. Cardinality(Page) \in Nat  BY FS_CardinalityType DEF WalkAssumption
<1>3. \A x \in Page : depth[x] \in Nat  BY <1>2
<1>4. Text \notin Page  BY DEF WalkAssumption
<1>5. ASSUME NEW x \in Page, NEW y \in Page, y \in Range(its[x]), y \in Chain(its, x)  PROVE FALSE
  <2> DEFINE T == {z \in Page : depth[z] <= depth[x]}
  <2>1. T \in SUBSET Page /\ x \in T  BY <1>3
  <2>2. ASSUME NEW u \in Page, NEW v \in Page, v \in T, v \in Range(its[u])  PROVE u \in T
    <3>1. depth[u] < depth[v] /\ depth[v] <= depth[x]  BY <1>1, <1>4, <2>2
    <3> QED  BY <1>3, <3>1
  <2>3. Up(its, T)  BY <2>2 DEF Up
  <2>4. y \in T
    <3> HIDE DEF T
    <3> QED  BY <1>5, <2>1, <2>3, ChainLeast
  <2>5. depth[x] < depth[y]  BY <1>1, <1>4, <1>5
  <2> QED  BY <1>3, <2>4, <2>5
<1>6. /\ its \in [Page -> Seq(Item)]
      /\ \A x, y \in Page : x # y => Range(its[x]) \cap Range(its[y]) \subseteq {Text}
      /\ \A x \in Database : Text \notin Range(its[x])
  BY DEF WalkAssumption, Item
<1>7. \A x \in Page : Distinct(its[x])
  <2>1. \A x \in Page : \A i, j \in DOMAIN its[x] :
          its[x][i] = its[x][j] => i = j \/ its[x][i] = Text
    BY DEF WalkAssumption
  <2> QED  BY <2>1 DEF Distinct
<1> QED  BY <1>5, <1>6, <1>7 DEF Tree
===============================================================================
