-------------------------- MODULE WalkCoverage_proofs --------------------------
(***************************************************************************)
(* Which pages a walk yields: none twice and none not at all, but for the  *)
(* reasons that SourceWalk names.  The frames of the stack share out the   *)
(* pages that are still to be read.                                        *)
(***************************************************************************)
EXTENDS WalkTrees_proofs

-------------------------------------------------------------------------------
(* Sequences: their parts, and frames made of them.                         *)

Parts(s, batch, rest) ==
  /\ Len(batch) = IF Len(s) < Limit THEN Len(s) ELSE Limit
  /\ \A i \in 1..Len(batch) : i \in 1..Len(s) /\ batch[i] = s[i]
  /\ Len(rest) = Len(s) - Len(batch)
  /\ \A i \in 1..Len(rest) : Len(batch) + i \in 1..Len(s) /\ rest[i] = s[Len(batch) + i]

LEMMA AnswerParts ==
  ASSUME WalkAssumption, NEW S, NEW s \in Seq(S)
  PROVE  LET batch == Answer(s)
             rest == SubSeq(s, Len(batch) + 1, Len(s))
         IN  batch \in Seq(S) /\ rest \in Seq(S) /\ Parts(s, batch, rest)
<1> DEFINE batch == Answer(s)
           rest == SubSeq(s, Len(batch) + 1, Len(s))
<1>1. Len(s) \in Nat /\ \A i \in 1..Len(s) : s[i] \in S
  BY LenProperties, ElementOfSeq
<1> DEFINE n == IF Len(s) < Limit THEN Len(s) ELSE Limit
<1>2. n \in Nat /\ n <= Len(s)  BY <1>1 DEF WalkAssumption
<1>3. batch = SubSeq(s, 1, n)  BY DEF Answer
<1> HIDE DEF n
<1>4. /\ batch \in Seq(S) /\ Len(batch) = n
      /\ \A i \in 1..n : batch[i] = s[i]
  <2>1. 1 \in Int /\ n \in Int /\ \A i \in 1..n : s[i] \in S  BY <1>1, <1>2
  <2>2. /\ SubSeq(s, 1, n) \in Seq(S)
        /\ Len(SubSeq(s, 1, n)) = IF 1 <= n THEN n - 1 + 1 ELSE 0
        /\ \A i \in 1..(n - 1 + 1) : SubSeq(s, 1, n)[i] = s[1 + i - 1]
    BY <2>1, SubSeqProperties
  <2>3. Len(batch) = n  BY <1>2, <1>3, <2>2
  <2>4. \A i \in 1..n : 1 + i - 1 = i /\ i \in 1..(n - 1 + 1)  BY <1>2
  <2> QED  BY <1>3, <2>2, <2>3, <2>4
<1>5. rest = SubSeq(s, n + 1, Len(s))  BY <1>4
<1> HIDE DEF batch, rest
<1>6. /\ rest \in Seq(S) /\ Len(rest) = Len(s) - n
      /\ \A i \in 1..(Len(s) - n) : rest[i] = s[n + i]
  <2>1. n + 1 \in Int /\ Len(s) \in Int /\ \A i \in (n + 1)..Len(s) : s[i] \in S  BY <1>1, <1>2
  <2>2. /\ rest \in Seq(S)
        /\ Len(rest) = IF n + 1 <= Len(s) THEN Len(s) - (n + 1) + 1 ELSE 0
        /\ \A i \in 1..(Len(s) - (n + 1) + 1) : rest[i] = s[(n + 1) + i - 1]
    BY <1>5, <2>1, SubSeqProperties
  <2>3. Len(rest) = Len(s) - n
    <3>1. Len(rest) = IF n + 1 <= Len(s) THEN Len(s) - (n + 1) + 1 ELSE 0  BY <2>2
    <3> QED  BY <1>1, <1>2, <3>1
  <2>4. \A i \in 1..(Len(s) - n) : (n + 1) + i - 1 = n + i /\ i \in 1..(Len(s) - (n + 1) + 1)
    BY <1>1, <1>2
  <2> QED  BY <2>2, <2>3, <2>4
<1>7. \A i \in 1..n : i \in 1..Len(s)  BY <1>1, <1>2
<1>8. \A i \in 1..(Len(s) - n) : n + i \in 1..Len(s)  BY <1>1, <1>2
<1>9. Parts(s, batch, rest)
  BY <1>4, <1>6, <1>7, <1>8 DEF Parts, n
<1> QED  BY <1>4, <1>6, <1>9 DEF batch, rest

Divides(s, batch, rest) ==
  /\ Distinct(batch) /\ Distinct(rest)
  /\ \A x : x \in Range(s) <=> x \in Range(batch) \/ x \in Range(rest)
  /\ \A x : x \in Range(batch) /\ x \in Range(rest) => x = Text

LEMMA PartsOfDistinct ==
  ASSUME WalkAssumption, NEW S, NEW s \in Seq(S), Distinct(s),
         NEW batch \in Seq(S), NEW rest \in Seq(S), Parts(s, batch, rest)
  PROVE  Divides(s, batch, rest)
<1>1. Len(s) \in Nat /\ DOMAIN s = 1..Len(s)  BY LenProperties
<1>2. Len(batch) \in Nat /\ Len(rest) = Len(s) - Len(batch)  BY LenProperties DEF Parts
<1>b. \A i \in 1..Len(batch) : i \in 1..Len(s) /\ batch[i] = s[i]  BY DEF Parts
<1>d. \A i \in 1..Len(rest) : Len(batch) + i \in 1..Len(s) /\ rest[i] = s[Len(batch) + i]
  BY DEF Parts
<1>3. DOMAIN batch = 1..Len(batch) /\ DOMAIN rest = 1..Len(rest) /\ Len(rest) \in Nat
  BY LenProperties
<1>4. /\ \A x : x \in Range(s) <=> \E i \in 1..Len(s) : s[i] = x
      /\ \A x : x \in Range(batch) <=> \E i \in 1..Len(batch) : batch[i] = x
      /\ \A x : x \in Range(rest) <=> \E i \in 1..Len(rest) : rest[i] = x
  BY <1>1, <1>3 DEF Range
<1>5. Distinct(batch)  BY <1>1, <1>3, <1>b DEF Distinct
<1>6. Distinct(rest)
  <2> SUFFICES ASSUME NEW i \in 1..Len(rest), NEW j \in 1..Len(rest), rest[i] = rest[j]
               PROVE  i = j \/ rest[i] = Text
    BY <1>3 DEF Distinct
  <2> DEFINE k == Len(batch) + i
             l == Len(batch) + j
  <2>a. k \in DOMAIN s /\ l \in DOMAIN s /\ rest[i] = s[k] /\ rest[j] = s[l]  BY <1>1, <1>d
  <2> HIDE DEF k, l
  <2>b. k = l \/ s[k] = Text  BY <2>a DEF Distinct
  <2>1. Len(batch) + i = Len(batch) + j \/ rest[i] = Text  BY <2>a, <2>b DEF k, l
  <2> QED  BY <1>2, <1>3, <2>1
<1>7. ASSUME NEW x \in Range(s)  PROVE x \in Range(batch) \/ x \in Range(rest)
  <2>1. PICK i \in 1..Len(s) : s[i] = x  BY <1>4
  <2>2. CASE i <= Len(batch)
    <3>1. i \in 1..Len(batch)  BY <1>2, <2>2
    <3> QED  BY <1>4, <1>b, <2>1, <3>1
  <2>3. CASE ~(i <= Len(batch))
    <3>1. i - Len(batch) \in 1..Len(rest) /\ Len(batch) + (i - Len(batch)) = i
      BY <1>1, <1>2, <2>3
    <3>2. rest[i - Len(batch)] = x  BY <1>d, <2>1, <3>1
    <3> QED  BY <1>4, <3>1, <3>2
  <2> QED  BY <2>2, <2>3
<1>8. ASSUME NEW x, x \in Range(batch) \/ x \in Range(rest)  PROVE x \in Range(s)
  <2>1. CASE x \in Range(batch)
    <3>1. PICK i \in 1..Len(batch) : batch[i] = x  BY <1>4, <2>1
    <3> QED  BY <1>4, <1>b, <3>1
  <2>2. CASE x \in Range(rest)
    <3>1. PICK i \in 1..Len(rest) : rest[i] = x  BY <1>4, <2>2
    <3> QED  BY <1>4, <1>d, <3>1
  <2> QED  BY <1>8, <2>1, <2>2
<1>9. ASSUME NEW x, x \in Range(batch), x \in Range(rest)  PROVE x = Text
  <2>1. PICK i \in 1..Len(batch) : batch[i] = x  BY <1>4, <1>9
  <2>2. PICK j \in 1..Len(rest) : rest[j] = x  BY <1>4, <1>9
  <2> DEFINE l == Len(batch) + j
  <2>a. i \in DOMAIN s /\ l \in DOMAIN s /\ x = s[i] /\ x = s[l]  BY <1>1, <1>b, <1>d, <2>1, <2>2
  <2> HIDE DEF l
  <2>3. i = Len(batch) + j \/ x = Text  BY <2>a DEF Distinct, l
  <2>4. i # Len(batch) + j  BY <1>2, <1>3
  <2> QED  BY <2>3, <2>4
<1> QED  BY <1>5, <1>6, <1>7, <1>8, <1>9 DEF Divides

-------------------------------------------------------------------------------
(* What is still to come of a page: the pages a frame holds, the documents  *)
(* it may yet yield.  Left is what is left of a Notion listing.             *)

Left(its, f) == IF f.rest = None THEN its[f.page] ELSE f.rest
Ahead(its, f) == (Range(f.refs) \cup Range(Left(its, f))) \ {Text}

(* Reading a page of Aim may lead to p: a listing is not gone below.        *)
Aim(src, its, p) == IF src = "space" THEN {p} ELSE Chain(its, p)

(* The walk of frame f comes to p.  The entry of a database is read without *)
(* what is below it; of a listing by offset, what lies past the offset.     *)
Covers(src, its, f, p) ==
  \/ f.op \in {"page", "child"} /\ f.page \in Aim(src, its, p)
  \/ f.op = "blocks" /\ (f.page = p \/ (~f.entry /\ Ahead(its, f) \cap Chain(its, p) # {}))
  \/ f.op = "query" /\ p \in Range(Left(its, f))
  \/ f.op = "children" /\ \E i \in DOMAIN But(its[f.page], Text) :
       i > f.start /\ But(its[f.page], Text)[i] \in Aim(src, its, p)

(* What a frame holds is right, but for the pages mvd that have moved.      *)
Holds(its, mvd, f) ==
  /\ \A x \in Ahead(its, f) \ mvd : x \in Range(its[f.page])
  /\ Distinct(Left(its, f)) /\ Distinct(f.refs)
  /\ \A x : ~(x \in Range(f.refs) /\ x \in Range(Left(its, f)))
  /\ f.rest = None => f.refs = <<>>

Sound(src, its, mvd, f) ==
  /\ src = "space" => f.op # "page"
  /\ f.op = "child" => (f.text <=> Text \in Range(its[f.page]))
  /\ f.op = "query" => f.page \in Database
  /\ f.op \in {"blocks", "query"} => Holds(its, mvd, f)
  /\ f.op = "blocks" /\ Text \in Range(its[f.page]) => f.text \/ Text \in Range(Left(its, f))

Whole(p) == [page |-> p, whole |-> TRUE]

(* The frames of the stack and the documents yielded have p once at most.   *)
AtMost(src, its, stk, yd, p) ==
  /\ \A i, j \in DOMAIN stk : Covers(src, its, stk[i], p) /\ Covers(src, its, stk[j], p) => i = j
  /\ \A i \in DOMAIN stk : \A k \in DOMAIN yd : ~(Covers(src, its, stk[i], p) /\ yd[k] = Whole(p))
  /\ \A k, l \in DOMAIN yd : yd[k] = Whole(p) /\ yd[l] = Whole(p) => k = l

AtLeast(src, its, stk, yd, p) ==
  \/ \E k \in DOMAIN yd : yd[k] = Whole(p)
  \/ \E i \in DOMAIN stk : Covers(src, its, stk[i], p)

(* A step that takes f off, pushes fs and leaves yd2 of yd, gives p to one  *)
(* heir at most; and to one.                                                *)
Splits(src, its, p, f, fs, yd, yd2) ==
  /\ \A i, j \in DOMAIN fs : Covers(src, its, fs[i], p) /\ Covers(src, its, fs[j], p) => i = j
  /\ \A i \in DOMAIN fs : Covers(src, its, fs[i], p) => Covers(src, its, f, p)
  /\ \/ yd2 = yd
     \/ \E y \in Document :
          /\ yd2 = Append(yd, y)
          /\ y = Whole(p) => Covers(src, its, f, p) /\ \A i \in DOMAIN fs : ~Covers(src, its, fs[i], p)

Hands(src, its, p, f, fs, yd, yd2) ==
  Covers(src, its, f, p) =>
    (\E i \in DOMAIN fs : Covers(src, its, fs[i], p)) \/ yd2 = Append(yd, Whole(p))

(* The stack new has the frames fs in place of the first of stk.            *)
Pushed(stk, fs, new) ==
  /\ 1 \in DOMAIN stk
  /\ \A i \in DOMAIN fs : i \in DOMAIN new /\ new[i] = fs[i]
  /\ \A i \in DOMAIN stk : i # 1 => \E k \in DOMAIN new : new[k] = stk[i]
  /\ \A i \in DOMAIN new :
       \/ i \in DOMAIN fs
       \/ /\ i - Len(fs) + 1 \in DOMAIN stk /\ i - Len(fs) + 1 # 1
          /\ new[i] = stk[i - Len(fs) + 1]
  /\ DOMAIN new \subseteq Nat /\ Len(fs) \in Nat

LEMMA StackParts ==
  ASSUME NEW S, NEW stk \in Seq(S), stk # <<>>, NEW fs \in Seq(S)
  PROVE  Pushed(stk, fs, fs \o Tail(stk))
<1> DEFINE t == Tail(stk)
           new == fs \o t
<1>1. Len(stk) \in Nat /\ Len(stk) # 0 /\ DOMAIN stk = 1..Len(stk)
  BY LenProperties, EmptySeq
<1>2. t \in Seq(S) /\ Len(t) = Len(stk) - 1 /\ \A i \in 1..Len(t) : t[i] = stk[i + 1]
  BY HeadTailProperties
<1>3. Len(fs) \in Nat /\ DOMAIN fs = 1..Len(fs)  BY LenProperties
<1> HIDE DEF t
<1>4. /\ new \in Seq(S) /\ Len(new) = Len(fs) + Len(t)
      /\ \A i \in 1..(Len(fs) + Len(t)) : new[i] = IF i <= Len(fs) THEN fs[i] ELSE t[i - Len(fs)]
  BY <1>2, ConcatProperties
<1> HIDE DEF new
<1>5. DOMAIN new = 1..(Len(fs) + Len(t))  BY <1>4, LenProperties
<1>6. \A i \in DOMAIN fs : i \in DOMAIN new /\ new[i] = fs[i]
  BY <1>1, <1>2, <1>3, <1>4, <1>5
<1>7. ASSUME NEW i \in DOMAIN stk, i # 1
      PROVE  \E k \in DOMAIN new : new[k] = stk[i]
  <2> DEFINE k == Len(fs) + i - 1
  <2>1. k \in 1..(Len(fs) + Len(t)) /\ ~(k <= Len(fs)) /\ k - Len(fs) = i - 1
        /\ i - 1 \in 1..Len(t) /\ (i - 1) + 1 = i
    BY <1>1, <1>2, <1>3, <1>7
  <2> HIDE DEF k
  <2>2. new[k] = t[k - Len(fs)]  BY <1>4, <2>1
  <2>3. t[i - 1] = stk[i]  BY <1>2, <2>1
  <2> QED  BY <1>5, <2>1, <2>2, <2>3
<1>8. ASSUME NEW i \in DOMAIN new, i \notin DOMAIN fs
      PROVE  i - Len(fs) + 1 \in DOMAIN stk \ {1} /\ new[i] = stk[i - Len(fs) + 1]
  <2>1. i \in 1..(Len(fs) + Len(t)) /\ ~(i <= Len(fs)) /\ i - Len(fs) \in 1..Len(t)
        /\ i - Len(fs) + 1 \in DOMAIN stk \ {1}
    BY <1>1, <1>2, <1>3, <1>5, <1>8
  <2>2. new[i] = t[i - Len(fs)]  BY <1>4, <2>1
  <2> QED  BY <1>2, <2>1, <2>2
<1>9. DOMAIN new \subseteq Nat /\ Len(fs) \in Nat
  BY <1>3, <1>5
<1>10. 1 \in DOMAIN stk  BY <1>1
<1>11. Pushed(stk, fs, new)  BY <1>6, <1>7, <1>8, <1>9, <1>10 DEF Pushed
<1> QED  BY <1>11 DEF new, t

(* What shares out the pages keeps them shared out, whatever lies below.    *)
LEMMA SharedOut ==
  ASSUME NEW src, NEW its, NEW p, NEW S, NEW stk \in Seq(S), stk # <<>>, NEW fs \in Seq(S),
         NEW yd \in Seq(Document), NEW yd2,
         AtMost(src, its, stk, yd, p), Splits(src, its, p, stk[1], fs, yd, yd2)
  PROVE  AtMost(src, its, fs \o Tail(stk), yd2, p)
<1> DEFINE new == fs \o Tail(stk)
           n == Len(fs)
           C(f) == Covers(src, its, f, p)
<1>a. Pushed(stk, fs, new)  BY StackParts
<1> HIDE DEF new
<1>1. /\ 1 \in DOMAIN stk
      /\ \A i \in DOMAIN new :
           i \notin DOMAIN fs => i - n + 1 \in DOMAIN stk \ {1} /\ new[i] = stk[i - n + 1]
      /\ \A i \in DOMAIN fs : i \in DOMAIN new /\ new[i] = fs[i]
      /\ DOMAIN new \subseteq Nat /\ n \in Nat
  BY <1>a DEF Pushed
<1>2. /\ \A i, j \in DOMAIN stk : C(stk[i]) /\ C(stk[j]) => i = j
      /\ \A i \in DOMAIN stk : \A k \in DOMAIN yd : ~(C(stk[i]) /\ yd[k] = Whole(p))
      /\ \A k, l \in DOMAIN yd : yd[k] = Whole(p) /\ yd[l] = Whole(p) => k = l
  BY DEF AtMost
<1>3. /\ \A i, j \in DOMAIN fs : C(fs[i]) /\ C(fs[j]) => i = j
      /\ \A i \in DOMAIN fs : C(fs[i]) => C(stk[1])
      /\ \/ yd2 = yd
         \/ \E y \in Document : /\ yd2 = Append(yd, y)
                                /\ y = Whole(p) => C(stk[1]) /\ \A i \in DOMAIN fs : ~C(fs[i])
  BY DEF Splits
<1> HIDE DEF n, C
<1>4. ASSUME NEW i \in DOMAIN new, NEW j \in DOMAIN new, C(new[i]), C(new[j])  PROVE i = j
  <2>1. CASE i \in DOMAIN fs /\ j \in DOMAIN fs  BY <1>1, <1>3, <1>4, <2>1
  <2>2. CASE i \in DOMAIN fs /\ j \notin DOMAIN fs
    <3>1. C(stk[1]) /\ j - n + 1 \in DOMAIN stk \ {1} /\ C(stk[j - n + 1])
      BY <1>1, <1>3, <1>4, <2>2
    <3> QED  BY <1>1, <1>2, <3>1
  <2>3. CASE i \notin DOMAIN fs /\ j \in DOMAIN fs
    <3>1. C(stk[1]) /\ i - n + 1 \in DOMAIN stk \ {1} /\ C(stk[i - n + 1])
      BY <1>1, <1>3, <1>4, <2>3
    <3> QED  BY <1>1, <1>2, <3>1
  <2>4. CASE i \notin DOMAIN fs /\ j \notin DOMAIN fs
    <3>1. /\ i - n + 1 \in DOMAIN stk \ {1} /\ C(stk[i - n + 1])
          /\ j - n + 1 \in DOMAIN stk \ {1} /\ C(stk[j - n + 1])
      BY <1>1, <1>4, <2>4
    <3>2. i - n + 1 = j - n + 1  BY <1>2, <3>1
    <3> QED  BY <1>1, <3>2
  <2> QED  BY <2>1, <2>2, <2>3, <2>4
<1>5. ASSUME NEW i \in DOMAIN new, C(new[i])
      PROVE  C(stk[1]) \/ \E k \in DOMAIN stk \ {1} : C(stk[k])
  BY <1>1, <1>3, <1>5
<1>6. ASSUME NEW i \in DOMAIN new, C(new[i])
      PROVE  \A k \in DOMAIN yd : yd[k] # Whole(p)
  BY <1>1, <1>2, <1>5, <1>6
<1>7. CASE yd2 = yd
  BY <1>2, <1>4, <1>6, <1>7 DEF AtMost, C, new
<1>8. ASSUME NEW y \in Document, yd2 = Append(yd, y),
             y = Whole(p) => C(stk[1]) /\ \A i \in DOMAIN fs : ~C(fs[i])
      PROVE  AtMost(src, its, new, yd2, p)
  <2>1. /\ Len(yd) \in Nat /\ DOMAIN yd = 1..Len(yd) /\ DOMAIN yd2 = 1..(Len(yd) + 1)
        /\ \A k \in DOMAIN yd : yd2[k] = yd[k]
        /\ yd2[Len(yd) + 1] = y
    BY <1>8, AppendProperties, LenProperties
  <2>2. \A k \in DOMAIN yd2 : k \in DOMAIN yd \/ k = Len(yd) + 1  BY <2>1
  <2>3. ASSUME y = Whole(p)
        PROVE  /\ \A k \in DOMAIN yd : yd[k] # Whole(p)
               /\ \A i \in DOMAIN new : ~C(new[i])
    <3>1. \A k \in DOMAIN yd : yd[k] # Whole(p)  BY <1>1, <1>2, <1>8, <2>3
    <3>2. ASSUME NEW i \in DOMAIN new, C(new[i])  PROVE FALSE
      <4>1. i \notin DOMAIN fs  BY <1>1, <1>8, <2>3, <3>2
      <4>2. i - n + 1 \in DOMAIN stk \ {1} /\ C(stk[i - n + 1])  BY <1>1, <3>2, <4>1
      <4> QED  BY <1>1, <1>2, <1>8, <2>3, <4>2
    <3> QED  BY <3>1, <3>2
  <2>4. ASSUME NEW i \in DOMAIN new, NEW k \in DOMAIN yd2, C(new[i]), yd2[k] = Whole(p)
        PROVE  FALSE
    BY <1>6, <2>1, <2>2, <2>3, <2>4
  <2>5. ASSUME NEW k \in DOMAIN yd2, NEW l \in DOMAIN yd2, yd2[k] = Whole(p), yd2[l] = Whole(p)
        PROVE  k = l
    <3>1. CASE k \in DOMAIN yd /\ l \in DOMAIN yd  BY <1>2, <2>1, <2>5, <3>1
    <3>2. CASE k \notin DOMAIN yd \/ l \notin DOMAIN yd
      <4>1. y = Whole(p)  BY <2>1, <2>2, <2>5, <3>2
      <4>2. k \notin DOMAIN yd /\ l \notin DOMAIN yd  BY <2>1, <2>3, <2>5, <4>1
      <4> QED  BY <2>2, <4>2
    <3> QED  BY <3>1, <3>2
  <2> QED  BY <1>4, <2>4, <2>5 DEF AtMost, C
<1> QED  BY <1>3, <1>7, <1>8 DEF new

LEMMA HandedOn ==
  ASSUME NEW src, NEW its, NEW p \in Page, NEW S, NEW stk \in Seq(S), stk # <<>>, NEW fs \in Seq(S),
         NEW yd \in Seq(Document), NEW yd2,
         AtLeast(src, its, stk, yd, p), Splits(src, its, p, stk[1], fs, yd, yd2),
         Hands(src, its, p, stk[1], fs, yd, yd2)
  PROVE  AtLeast(src, its, fs \o Tail(stk), yd2, p)
<1> DEFINE new == fs \o Tail(stk)
           C(f) == Covers(src, its, f, p)
<1>a. Pushed(stk, fs, new)  BY StackParts
<1> HIDE DEF new
<1>1. /\ \A i \in DOMAIN fs : i \in DOMAIN new /\ new[i] = fs[i]
      /\ \A i \in DOMAIN stk : i # 1 => \E k \in DOMAIN new : new[k] = stk[i]
  BY <1>a DEF Pushed
<1>2. yd2 = yd \/ \E y \in Document : yd2 = Append(yd, y)  BY DEF Splits
<1>3. \A k \in DOMAIN yd : k \in DOMAIN yd2 /\ yd2[k] = yd[k]
  <2>1. CASE yd2 = yd  BY <2>1
  <2>2. ASSUME NEW y \in Document, yd2 = Append(yd, y)
        PROVE  \A k \in DOMAIN yd : k \in DOMAIN yd2 /\ yd2[k] = yd[k]
    <3>1. /\ Len(yd) \in Nat /\ DOMAIN yd = 1..Len(yd) /\ DOMAIN yd2 = 1..(Len(yd) + 1)
          /\ \A k \in 1..Len(yd) : yd2[k] = yd[k]
      BY <2>2, AppendProperties, LenProperties
    <3> QED  BY <3>1
  <2> QED  BY <1>2, <2>1, <2>2
<1>4. ASSUME yd2 = Append(yd, Whole(p))  PROVE AtLeast(src, its, new, yd2, p)
  <2>1. Whole(p) \in Document  BY <1>4 DEF Whole, Document
  <2>2. /\ Len(yd) \in Nat /\ DOMAIN yd2 = 1..(Len(yd) + 1) /\ yd2[Len(yd) + 1] = Whole(p)
    BY <1>4, <2>1, AppendProperties, LenProperties
  <2>3. Len(yd) + 1 \in DOMAIN yd2  BY <2>2
  <2> QED  BY <2>2, <2>3 DEF AtLeast
<1>5. ASSUME NEW i \in DOMAIN stk, C(stk[i])  PROVE AtLeast(src, its, new, yd2, p)
  <2>1. CASE i = 1
    <3>1. (\E j \in DOMAIN fs : C(fs[j])) \/ yd2 = Append(yd, Whole(p))
      BY <1>5, <2>1 DEF Hands
    <3>2. ASSUME NEW j \in DOMAIN fs, C(fs[j])  PROVE AtLeast(src, its, new, yd2, p)
      <4>1. j \in DOMAIN new /\ C(new[j])  BY <1>1, <3>2
      <4> QED  BY <4>1 DEF AtLeast
    <3> QED  BY <1>4, <3>1, <3>2
  <2>2. CASE i # 1
    <3>1. \E j \in DOMAIN new : C(new[j])  BY <1>1, <1>5, <2>2
    <3> QED  BY <3>1 DEF AtLeast
  <2> QED  BY <2>1, <2>2
<1>6. CASE \E k \in DOMAIN yd : yd[k] = Whole(p)
  BY <1>3, <1>6 DEF AtLeast
<1> QED  BY <1>5, <1>6 DEF AtLeast, new

-------------------------------------------------------------------------------
(* What a frame holds of the line of a page that has not moved.             *)

Still(p) == Chain(items, p) \cap moved = {}

(* The walk owes p to its caller: it has a text, and lies under no entry of *)
(* a database.                                                              *)
Due(p) ==
  /\ Still(p) /\ Text \in Range(items[p])
  /\ source = "notion" => \A d \in Database \cap Chain(items, p) : d # p => p \in Range(items[d])

LEMMA HeldOnLine ==
  ASSUME TypesInv, Tree(items), NEW p \in Page, Still(p), NEW f, f.page \in Page,
         Holds(items, moved, f), NEW c \in Ahead(items, f), c \in Chain(items, p)
  PROVE  c \in Range(items[f.page]) /\ f.page \in Chain(items, p) /\ f.page # p
<1>1. c \notin moved /\ c \in Page  BY ChainUp DEF Still
<1>2. c \in Range(items[f.page])  BY <1>1 DEF Holds
<1>3. f.page \in Chain(items, p)  BY <1>1, <1>2, ChainUp DEF Up
<1>4. f.page # p  BY <1>2, NotAboveItself
<1> QED  BY <1>2, <1>3, <1>4

LEMMA HeldOnce ==
  ASSUME WalkAssumption, TypesInv, Tree(items), NEW p \in Page, Still(p), NEW f, f.page \in Page,
         Holds(items, moved, f), NEW c \in Ahead(items, f), c \in Chain(items, p),
         NEW d \in Ahead(items, f), d \in Chain(items, p)
  PROVE  c = d
<1>1. c \in Range(items[f.page]) /\ d \in Range(items[f.page])  BY HeldOnLine
<1> QED  BY <1>1, OneOfLine

LEMMA FreshHolds ==
  ASSUME Tree(items), NEW f, f.page \in Page, f.rest = None, f.refs = <<>>
  PROVE  Left(items, f) = items[f.page] /\ Holds(items, moved, f)
<1>1. Left(items, f) = items[f.page]  BY DEF Left
<1>2. Range(f.refs) = {} /\ DOMAIN f.refs = {}  BY DEF Range
<1>3. \A x \in Ahead(items, f) : x \in Range(items[f.page])  BY <1>1, <1>2 DEF Ahead
<1>4. Distinct(Left(items, f))  BY <1>1 DEF Tree
<1>5. Distinct(f.refs)  BY <1>2 DEF Distinct
<1> QED  BY <1>1, <1>2, <1>3, <1>4, <1>5 DEF Holds

LEMMA ReferenceCovers ==
  ASSUME WalkAssumption, TypesInv, Tree(items), source = "notion", NEW c \in Page, NEW p \in Page
  PROVE  /\ Reference(c) \in Frames(source) /\ Sound(source, items, moved, Reference(c))
         /\ Covers(source, items, Reference(c), p) => c \in Chain(items, p)
         /\ Due(p) /\ c \in Chain(items, p) => Covers(source, items, Reference(c), p)
<1> DEFINE f == Reference(c)
<1>1. f \in Frames(source)  BY FreshFrame DEF Reference
<1>2. /\ f.op = IF c \in Database THEN "query" ELSE "page"
      /\ f.page = c /\ f.rest = None /\ f.refs = <<>>
  BY DEF Reference, Frame
<1> HIDE DEF f
<1>3. Left(items, f) = items[c] /\ Holds(items, moved, f)  BY <1>2, FreshHolds
<1>4. Sound(source, items, moved, f)  BY <1>2, <1>3 DEF Sound
<1>5. CASE c \in Database
  <2>1. Covers(source, items, f, p) <=> p \in Range(items[c])  BY <1>2, <1>3, <1>5 DEF Covers
  <2>2. p \in Range(items[c]) => c \in Chain(items, p)  BY ChainUp DEF Up
  <2>3. Due(p) /\ c \in Chain(items, p) => p \in Range(items[c])
    BY <1>5 DEF Due, Tree
  <2> QED  BY <1>1, <1>4, <2>1, <2>2, <2>3 DEF f
<1>6. CASE c \notin Database
  <2>1. Covers(source, items, f, p) <=> c \in Chain(items, p)
    BY <1>2, <1>6 DEF Covers, Aim
  <2> QED  BY <1>1, <1>4, <2>1 DEF f
<1> QED  BY <1>5, <1>6

(* The frames fs share out what f covers, with what the step yields.        *)
Shares(f, fs) ==
  /\ \A i \in DOMAIN fs : Sound(source, items, moved, fs[i])
  /\ \A p \in Page : Still(p) => Splits(source, items, p, f, fs, yielded, yielded')

Passes(f, fs) == \A p \in Page : Due(p) => Hands(source, items, p, f, fs, yielded, yielded')

LEMMA YieldOf ==
  ASSUME TypesInv, NEW q \in Page, NEW text, NEW whole \in BOOLEAN, Yield(q, text, whole)
  PROVE  /\ yielded' = yielded \/ \E y \in Document :
              yielded' = Append(yielded, y) /\ y.page = q
         /\ text /\ whole => yielded' = Append(yielded, Whole(q))
<1>1. [page |-> q, whole |-> whole] \in Document  BY DEF Document
<1> QED  BY <1>1 DEF Yield, Whole

-------------------------------------------------------------------------------
(* Each step of the walk shares out what its frame covers.                  *)

(* The blocks of a page are read, as far as they were: it yields its text,  *)
(* and its references are walked.                                           *)
LEMMA FinishedCovers ==
  ASSUME WalkAssumption, TypesInv, Tree(items), source = "notion", NEW f \in Frames("notion"),
         f.op = "blocks", Sound(source, items, moved, f), NEW whole \in BOOLEAN, Finished(f, whole)
  PROVE  \E fs \in Seq(Frames(source)) :
           /\ Continue(fs) /\ Shares(f, fs)
           /\ whole /\ Left(items, f) = <<>> => Passes(f, fs)
<1>1. f.page \in Page /\ f.refs \in Seq(Page)  BY DEF Frames
<1> DEFINE fs == IF f.entry THEN <<>> ELSE FramesOf(f.refs, Reference)
<1>2. Continue(fs) /\ Yield(f.page, f.text, whole)  BY DEF Finished
<1>3. Len(f.refs) \in Nat /\ DOMAIN f.refs = 1..Len(f.refs)
      /\ \A i \in 1..Len(f.refs) : f.refs[i] \in Page
  BY <1>1, LenProperties, ElementOfSeq
<1>4. \A c, p \in Page :
        /\ Reference(c) \in Frames(source) /\ Sound(source, items, moved, Reference(c))
        /\ Covers(source, items, Reference(c), p) => c \in Chain(items, p)
        /\ Due(p) /\ c \in Chain(items, p) => Covers(source, items, Reference(c), p)
  BY ReferenceCovers
<1>5. /\ fs \in Seq(Frames(source))
      /\ \A i \in DOMAIN fs : ~f.entry /\ i \in DOMAIN f.refs /\ fs[i] = Reference(f.refs[i])
      /\ ~f.entry => DOMAIN fs = DOMAIN f.refs
  <2>1. CASE f.entry  BY <2>1, EmptySeq
  <2>2. CASE ~f.entry
    <3>1. fs = [i \in 1..Len(f.refs) |-> Reference(f.refs[i])]  BY <1>3, <2>2 DEF FramesOf
    <3> HIDE DEF fs
    <3>2. fs \in [1..Len(f.refs) -> Frames(source)]  BY <1>3, <1>4, <3>1
    <3>3. fs \in Seq(Frames(source))  BY <1>3, <3>2, Listed
    <3> QED  BY <1>3, <2>2, <3>1, <3>2, <3>3
  <2> QED  BY <2>1, <2>2
<1> HIDE DEF fs
<1>6. \A i \in DOMAIN fs : Sound(source, items, moved, fs[i])  BY <1>3, <1>4, <1>5
<1>7. Holds(items, moved, f)  BY DEF Sound
<1>8. \A i \in DOMAIN f.refs : f.refs[i] \in Ahead(items, f)
  <2>1. \A i \in DOMAIN f.refs : f.refs[i] \in Range(f.refs) /\ f.refs[i] # Text
    BY <1>3 DEF Range, WalkAssumption
  <2> QED  BY <2>1 DEF Ahead
<1>9. ASSUME NEW p \in Page, Still(p), NEW i \in DOMAIN fs, Covers(source, items, fs[i], p)
      PROVE  /\ f.refs[i] \in Ahead(items, f) /\ f.refs[i] \in Chain(items, p)
             /\ f.page # p /\ ~f.entry
  <2>1. ~f.entry /\ i \in DOMAIN f.refs /\ fs[i] = Reference(f.refs[i])  BY <1>5
  <2>2. f.refs[i] \in Page /\ f.refs[i] \in Ahead(items, f)  BY <1>3, <1>8, <2>1
  <2>3. f.refs[i] \in Chain(items, p)  BY <1>4, <1>9, <2>1, <2>2
  <2>4. f.page # p  BY <1>1, <1>7, <1>9, <2>2, <2>3, HeldOnLine
  <2> QED  BY <2>1, <2>2, <2>3, <2>4
<1>10. /\ yielded' = yielded \/ \E y \in Document : yielded' = Append(yielded, y) /\ y.page = f.page
       /\ f.text /\ whole => yielded' = Append(yielded, Whole(f.page))
  BY <1>1, <1>2, YieldOf
<1>11. ASSUME NEW p \in Page, Still(p)
       PROVE  Splits(source, items, p, f, fs, yielded, yielded')
  <2> DEFINE C(g) == Covers(source, items, g, p)
  <2>1. ASSUME NEW i \in DOMAIN fs, NEW j \in DOMAIN fs, C(fs[i]), C(fs[j])  PROVE i = j
    <3>1. /\ f.refs[i] \in Ahead(items, f) /\ f.refs[i] \in Chain(items, p)
          /\ f.refs[j] \in Ahead(items, f) /\ f.refs[j] \in Chain(items, p)
      BY <1>9, <1>11, <2>1
    <3>2. f.refs[i] = f.refs[j]  BY <1>1, <1>7, <1>11, <3>1, HeldOnce
    <3>3. Distinct(f.refs) /\ i \in DOMAIN f.refs /\ j \in DOMAIN f.refs  BY <1>5, <1>7 DEF Holds
    <3>4. f.refs[i] # Text  BY <1>3, <3>3 DEF WalkAssumption
    <3> QED  BY <3>2, <3>3, <3>4 DEF Distinct
  <2>2. ASSUME NEW i \in DOMAIN fs, C(fs[i])  PROVE C(f)
    <3>1. ~f.entry /\ Ahead(items, f) \cap Chain(items, p) # {}  BY <1>9, <1>11, <2>2
    <3> QED  BY <3>1 DEF Covers
  <2>3. ASSUME f.page = p  PROVE C(f) /\ \A i \in DOMAIN fs : ~C(fs[i])
    <3>1. C(f)  BY <2>3 DEF Covers
    <3>2. \A i \in DOMAIN fs : ~C(fs[i])  BY <1>9, <1>11, <2>3
    <3> QED  BY <3>1, <3>2
  <2> HIDE DEF C
  <2>4. \A y : y = Whole(p) => y.page = p  BY DEF Whole
  <2>5. \/ yielded' = yielded
        \/ \E y \in Document : /\ yielded' = Append(yielded, y)
                               /\ y = Whole(p) => C(f) /\ \A i \in DOMAIN fs : ~C(fs[i])
    BY <1>10, <2>3, <2>4
  <2> QED  BY <2>1, <2>2, <2>5 DEF Splits, C
<1>12. Shares(f, fs)  BY <1>6, <1>11 DEF Shares
<1>13. ASSUME whole, Left(items, f) = <<>>  PROVE Passes(f, fs)
  <2> SUFFICES ASSUME NEW p \in Page, Due(p), Covers(source, items, f, p)
               PROVE  (\E i \in DOMAIN fs : Covers(source, items, fs[i], p))
                      \/ yielded' = Append(yielded, Whole(p))
    BY DEF Passes, Hands
  <2>1. Range(Left(items, f)) = {}  BY <1>13 DEF Range
  <2>2. CASE f.page = p
    <3>1. f.text  BY <2>1, <2>2 DEF Due, Sound
    <3> QED  BY <1>10, <1>13, <2>2, <3>1
  <2>3. CASE f.page # p
    <3>1. ~f.entry /\ \E c \in Ahead(items, f) : c \in Chain(items, p)  BY <2>3 DEF Covers
    <3>2. PICK c \in Ahead(items, f) : c \in Chain(items, p)  BY <3>1
    <3>3. c \in Range(f.refs)  BY <2>1, <3>2 DEF Ahead
    <3>4. PICK i \in DOMAIN f.refs : c = f.refs[i]  BY <3>3 DEF Range
    <3>5. i \in DOMAIN fs /\ fs[i] = Reference(c) /\ c \in Page  BY <1>3, <1>5, <3>1, <3>4
    <3>6. Covers(source, items, fs[i], p)  BY <1>4, <3>2, <3>5
    <3> QED  BY <3>5, <3>6
  <2> QED  BY <2>2, <2>3
<1> QED  BY <1>2, <1>5, <1>12, <1>13

LEMMA ConcatDistinct ==
  ASSUME NEW S, NEW a \in Seq(S), NEW b \in Seq(S), Distinct(a), Distinct(b),
         \A x : ~(x \in Range(a) /\ x \in Range(b))
  PROVE  Distinct(a \o b)
<1> DEFINE c == a \o b
           n == Len(a)
<1>1. n \in Nat /\ Len(b) \in Nat /\ DOMAIN a = 1..n /\ DOMAIN b = 1..Len(b)
  BY LenProperties
<1>2. DOMAIN c = 1..(n + Len(b))
      /\ \A i \in 1..(n + Len(b)) : c[i] = IF i <= n THEN a[i] ELSE b[i - n]
  <2>1. /\ c \in Seq(S) /\ Len(c) = n + Len(b)
        /\ \A i \in 1..(n + Len(b)) : c[i] = IF i <= n THEN a[i] ELSE b[i - n]
    BY ConcatProperties
  <2> HIDE DEF c
  <2> QED  BY <2>1, LenProperties
<1> HIDE DEF c, n
<1>3. ASSUME NEW i \in DOMAIN c
      PROVE  \/ i \in DOMAIN a /\ c[i] = a[i] /\ c[i] \in Range(a)
             \/ \E k \in DOMAIN b : k = i - n /\ c[i] = b[k] /\ c[i] \in Range(b)
  <2>1. CASE i <= n
    <3>1. i \in DOMAIN a /\ c[i] = a[i]  BY <1>1, <1>2, <2>1
    <3> QED  BY <3>1 DEF Range
  <2>2. CASE ~(i <= n)
    <3> DEFINE k == i - n
    <3>1. k \in DOMAIN b /\ c[i] = b[k]  BY <1>1, <1>2, <2>2
    <3>2. k = i - n  OBVIOUS
    <3> HIDE DEF k
    <3> QED  BY <3>1, <3>2 DEF Range
  <2> QED  BY <2>1, <2>2
<1>4. ASSUME NEW i \in DOMAIN c, NEW j \in DOMAIN c, c[i] = c[j]  PROVE i = j \/ c[i] = Text
  <2>1. CASE c[i] \in Range(a)
    <3>1. i \in DOMAIN a /\ c[i] = a[i] /\ j \in DOMAIN a /\ c[j] = a[j]  BY <1>3, <1>4, <2>1
    <3> QED  BY <1>4, <3>1 DEF Distinct
  <2>2. CASE c[i] \notin Range(a)
    <3>1. PICK k \in DOMAIN b : k = i - n /\ c[i] = b[k]  BY <1>3, <2>2
    <3>2. PICK l \in DOMAIN b : l = j - n /\ c[j] = b[l]  BY <1>3, <1>4, <2>2
    <3>3. k = l \/ c[i] = Text  BY <1>4, <3>1, <3>2 DEF Distinct
    <3> QED  BY <1>1, <1>2, <3>1, <3>2, <3>3
  <2> QED  BY <2>1, <2>2
<1> QED  BY <1>4 DEF Distinct, c

(* Frames that cover the same pages share out alike.                        *)
Same(f, g) == \A p \in Page : Covers(source, items, f, p) <=> Covers(source, items, g, p)

LEMMA SameShares ==
  ASSUME NEW f, NEW g, NEW fs, Same(f, g)
  PROVE  (Shares(f, fs) => Shares(g, fs)) /\ (Passes(f, fs) => Passes(g, fs))
BY DEF Same, Shares, Passes, Splits, Hands

LEMMA AgainCovers ==
  ASSUME NEW f, NEW g, Same(f, g), Sound(source, items, moved, g), yielded' = yielded
  PROVE  Shares(f, <<g>>) /\ Passes(f, <<g>>)
<1> DEFINE fs == <<g>>
<1>1. DOMAIN fs = {1} /\ fs[1] = g  OBVIOUS
<1> HIDE DEF fs
<1>2. \A i \in DOMAIN fs : i = 1 /\ fs[i] = g  BY <1>1
<1>3. Shares(f, fs)  BY <1>2 DEF Same, Shares, Splits
<1>4. Passes(f, fs)  BY <1>1 DEF Same, Passes, Hands
<1> QED  BY <1>3, <1>4 DEF fs

(* The frame f goes on as g, the batch of its listing read and rest left.   *)
GoesOn(f, g, batch, rest) ==
  /\ g.op = "blocks" /\ g.page = f.page /\ g.entry = f.entry
  /\ g.rest = rest /\ g.refs = f.refs \o But(batch, Text)
  /\ g.text <=> f.text \/ Text \in Range(batch)

LEMMA BlocksGoOn ==
  ASSUME WalkAssumption, TypesInv, Tree(items), NEW f \in Frames("notion"),
         f.op = "blocks", Sound(source, items, moved, f),
         NEW batch \in Seq(Item), NEW rest \in Seq(Item), Parts(Left(items, f), batch, rest),
         NEW g \in Frames("notion"), GoesOn(f, g, batch, rest)
  PROVE  Left(items, g) = rest /\ Same(f, g) /\ Sound(source, items, moved, g)
<1>0. /\ g.op = "blocks" /\ g.page = f.page /\ g.entry = f.entry
      /\ g.rest = rest /\ g.refs = f.refs \o But(batch, Text)
      /\ g.text <=> f.text \/ Text \in Range(batch)
  BY DEF GoesOn
<1> DEFINE s == Left(items, f)
           b == But(batch, Text)
<1>1. Holds(items, moved, f) /\ f.page \in Page /\ f.refs \in Seq(Page) /\ Page \subseteq Item
  BY DEF Sound, Frames, Item
<1>2. s \in Seq(Item)
  <2>1. f.rest = None \/ f.rest \in Seq(Item)  BY DEF Frames
  <2> QED  BY <1>1, <2>1 DEF Left, TypesInv
<1>3. Distinct(s) /\ Distinct(f.refs)
      /\ (\A x : ~(x \in Range(f.refs) /\ x \in Range(s)))
      /\ \A x \in Ahead(items, f) \ moved : x \in Range(items[f.page])
  BY <1>1 DEF Holds
<1>4. /\ Distinct(batch) /\ Distinct(rest)
      /\ \A x : x \in Range(s) <=> x \in Range(batch) \/ x \in Range(rest)
      /\ \A x : x \in Range(batch) /\ x \in Range(rest) => x = Text
  <2> HIDE DEF s
  <2>1. Parts(s, batch, rest)  BY DEF s
  <2>2. Divides(s, batch, rest)  BY <1>2, <1>3, <2>1, PartsOfDistinct
  <2> QED  BY <2>2 DEF Divides
<1>5. /\ b \in Seq(Page) /\ Distinct(b)
      /\ \A x : x \in Range(b) <=> x \in Range(batch) /\ x # Text
  <2>1. b \in Seq(Item \ {Text}) /\ Range(b) = Range(batch) \ {Text}  BY ButProperties
  <2>2. Item \ {Text} \subseteq Page  BY DEF Item
  <2>3. b \in Seq(Page)  BY <2>1, <2>2, SeqMonotonic
  <2>4. Distinct(b)  BY <1>4, ButDistinct
  <2> QED  BY <2>1, <2>3, <2>4
<1>6. rest # None
  <2> SUFFICES ASSUME rest = None  PROVE FALSE
    OBVIOUS
  <2>1. Len(rest) = 1 /\ rest[1] = "none" /\ 1 \in 1..1  BY DEF None
  <2>a. \A i \in 1..Len(rest) : rest[i] \in Item  BY ElementOfSeq
  <2>2. rest[1] \in Item
    <3> HIDE DEF None
    <3> QED  BY <2>1, <2>a
  <2> QED  BY <2>1, <2>2 DEF WalkAssumption, Item
<1>7. Left(items, g) = rest  BY <1>0, <1>6 DEF Left
<1> HIDE DEF b
<1>8. /\ \A x : x \in Range(g.refs) <=> x \in Range(f.refs) \/ x \in Range(b)
  BY <1>0, <1>1, <1>5, RangeConcatenation DEF b
<1>9. \A x \in Range(f.refs) : x # Text
  <2>1. Range(f.refs) \subseteq Page  BY <1>1, RangeOfSeq
  <2> QED  BY <2>1 DEF WalkAssumption
<1> HIDE DEF s
<1>10. \A x : x \in Ahead(items, f) <=> x # Text /\ (x \in Range(f.refs) \/ x \in Range(s))
  BY DEF Ahead, s
<1>11. \A x : x \in Ahead(items, g) <=> x \in Ahead(items, f)
  <2>1. \A x : x \in Ahead(items, g) <=> x # Text /\ (x \in Range(g.refs) \/ x \in Range(rest))
    BY <1>7 DEF Ahead
  <2> QED  BY <1>4, <1>5, <1>8, <1>10, <2>1
<1>12. Distinct(g.refs)
  <2>1. \A x : ~(x \in Range(f.refs) /\ x \in Range(b))  BY <1>3, <1>4, <1>5
  <2>2. Distinct(f.refs \o b)  BY <1>1, <1>3, <1>5, <2>1, ConcatDistinct
  <2> QED  BY <1>0, <2>2 DEF b
<1>13. \A x : ~(x \in Range(g.refs) /\ x \in Range(rest))
  BY <1>3, <1>4, <1>5, <1>8
<1>14. Holds(items, moved, g)
  <2>1. \A x \in Ahead(items, g) \ moved : x \in Range(items[g.page])  BY <1>0, <1>3, <1>11
  <2> QED  BY <1>0, <1>4, <1>6, <1>7, <1>12, <1>13, <2>1 DEF Holds
<1>15. Text \in Range(items[g.page]) => g.text \/ Text \in Range(Left(items, g))
  <2>1. Text \in Range(items[f.page]) => f.text \/ Text \in Range(s)  BY DEF Sound, s
  <2> QED  BY <1>0, <1>4, <1>7, <2>1
<1>16. Sound(source, items, moved, g)  BY <1>0, <1>14, <1>15 DEF Sound
<1>17. Same(f, g)
  <2>1. ASSUME NEW p \in Page
        PROVE  Covers(source, items, f, p) <=> Covers(source, items, g, p)
    <3>1. Ahead(items, g) \cap Chain(items, p) # {} <=> Ahead(items, f) \cap Chain(items, p) # {}
      BY <1>11
    <3> QED  BY <1>0, <3>1 DEF Covers
  <2> QED  BY <2>1 DEF Same
<1> QED  BY <1>7, <1>16, <1>17

(* A step puts frames in place of the top one, that share out what it       *)
(* covers and leave no page out that is due.                                *)
Covered == \E fs \in Seq(Frames(source)) : Continue(fs) /\ Shares(Top, fs) /\ Passes(Top, fs)

LEMMA GetBlocksCovers ==
  ASSUME WalkAssumption, TypesInv, Tree(items), Sound(source, items, moved, Top), GetBlocks
  PROVE  Covered
<1>1. outcome = "walking" /\ Top.op = "blocks"  BY DEF GetBlocks, Asking, Walking
<1>2. Top.page \in Page /\ Top \in Frames(source)  BY <1>1, TopFrame
<1>3. source = "notion"  BY <1>1, <1>2 DEF Frames
<1> DEFINE left == Left(items, Top)
           batch == Answer(left)
           rest == SubSeq(left, Len(batch) + 1, Len(left))
           refs == Top.refs \o But(batch, Text)
           text == Top.text \/ Text \in Range(batch)
           next == [Top EXCEPT !.rest = rest, !.refs = refs, !.text = text]
<1>4. IF rest = <<>> THEN Finished(next, TRUE) ELSE Continue(<<next>>) /\ UNCHANGED yielded
  BY DEF GetBlocks, Left
<1>5. left \in Seq(Item)
  BY <1>2 DEF Frames, TypesInv, Left
<1>6. batch \in Seq(Item) /\ rest \in Seq(Item) /\ Parts(left, batch, rest)
  <2> HIDE DEF left
  <2> QED  BY <1>5, AnswerParts
<1> HIDE DEF left, batch, rest
<1>7. refs \in Seq(Page)
  <2>1. But(batch, Text) \in Seq(Item \ {Text})  BY <1>6, ButProperties
  <2>2. Item \ {Text} \subseteq Page  BY DEF Item
  <2>3. But(batch, Text) \in Seq(Page)  BY <2>1, <2>2, SeqMonotonic
  <2>4. Top.refs \in Seq(Page)  BY <1>2 DEF Frames
  <2> QED  BY <2>3, <2>4, ConcatProperties
<1>8. text \in BOOLEAN  BY <1>2 DEF Frames
<1>9. text <=> Top.text \/ Text \in Range(batch)  OBVIOUS
<1>10. refs = Top.refs \o But(batch, Text)  OBVIOUS
<1> HIDE DEF refs, text
<1>11. /\ next \in Frames("notion") /\ next.op = "blocks" /\ next.page = Top.page
       /\ next.entry = Top.entry /\ next.rest = rest /\ next.refs = refs /\ next.text = text
  BY <1>1, <1>2, <1>3, <1>6, <1>7, <1>8 DEF Frames
<1> HIDE DEF next
<1>12. Parts(Left(items, Top), batch, rest)  BY <1>6 DEF left
<1>a. Top \in Frames("notion")  BY <1>2, <1>3
<1>b. GoesOn(Top, next, batch, rest)  BY <1>9, <1>10, <1>11 DEF GoesOn
<1>13. Left(items, next) = rest /\ Same(Top, next) /\ Sound(source, items, moved, next)
  <2> DEFINE f == Top
  <2>1. f \in Frames("notion") /\ f.op = "blocks" /\ Sound(source, items, moved, f)
    BY <1>1, <1>a
  <2>2. Parts(Left(items, f), batch, rest) /\ GoesOn(f, next, batch, rest)  BY <1>12, <1>b
  <2>3. batch \in Seq(Item) /\ rest \in Seq(Item) /\ next \in Frames("notion")  BY <1>6, <1>11
  <2> HIDE DEF f
  <2>4. Left(items, next) = rest /\ Same(f, next) /\ Sound(source, items, moved, next)
    BY <2>1, <2>2, <2>3, BlocksGoOn
  <2> QED  BY <2>4 DEF f
<1>14. CASE rest = <<>>
  <2>1. PICK fs \in Seq(Frames(source)) :
          /\ Continue(fs) /\ Shares(next, fs)
          /\ Left(items, next) = <<>> => Passes(next, fs)
    BY <1>3, <1>4, <1>11, <1>13, <1>14, FinishedCovers
  <2>2. Same(next, Top)  BY <1>13 DEF Same
  <2>3. Shares(Top, fs) /\ Passes(Top, fs)  BY <1>13, <1>14, <2>1, <2>2, SameShares
  <2> QED  BY <2>1, <2>3 DEF Covered
<1>15. CASE rest # <<>>
  <2>1. Continue(<<next>>) /\ yielded' = yielded  BY <1>4, <1>15
  <2>2. <<next>> \in Seq(Frames(source))  BY <1>3, <1>11
  <2>3. Shares(Top, <<next>>) /\ Passes(Top, <<next>>)  BY <1>13, <2>1, AgainCovers
  <2> QED  BY <2>1, <2>2, <2>3 DEF Covered
<1> QED  BY <1>14, <1>15

(* Frames made of a batch, and the frame that goes on with the listing.     *)
Joined(a, b, c) ==
  /\ \A i \in DOMAIN a : i \in DOMAIN c /\ c[i] = a[i]
  /\ \A i \in DOMAIN b : \E k \in DOMAIN c : c[k] = b[i]
  /\ \A i \in DOMAIN c :
       \/ i \in DOMAIN a /\ c[i] = a[i]
       \/ i \notin DOMAIN a /\ i - Len(a) \in DOMAIN b /\ c[i] = b[i - Len(a)]
  /\ DOMAIN c \subseteq Nat /\ Len(a) \in Nat

LEMMA JoinedFrames ==
  ASSUME NEW S, NEW a \in Seq(S), NEW b \in Seq(S)
  PROVE  Joined(a, b, a \o b)
<1> DEFINE c == a \o b
           n == Len(a)
<1>1. n \in Nat /\ Len(b) \in Nat /\ DOMAIN a = 1..n /\ DOMAIN b = 1..Len(b)
  BY LenProperties
<1>2. DOMAIN c = 1..(n + Len(b))
      /\ \A i \in 1..(n + Len(b)) : c[i] = IF i <= n THEN a[i] ELSE b[i - n]
  <2>1. /\ c \in Seq(S) /\ Len(c) = n + Len(b)
        /\ \A i \in 1..(n + Len(b)) : c[i] = IF i <= n THEN a[i] ELSE b[i - n]
    BY ConcatProperties
  <2> HIDE DEF c
  <2> QED  BY <2>1, LenProperties
<1> HIDE DEF c
<1>3. \A i \in DOMAIN a : i \in DOMAIN c /\ c[i] = a[i]  BY <1>1, <1>2
<1>4. ASSUME NEW i \in DOMAIN b  PROVE \E k \in DOMAIN c : c[k] = b[i]
  <2> DEFINE k == n + i
  <2>1. k \in DOMAIN c /\ ~(k <= n) /\ k - n = i  BY <1>1, <1>2
  <2> HIDE DEF k, n
  <2> QED  BY <1>2, <2>1
<1>5. ASSUME NEW i \in DOMAIN c
      PROVE  \/ i \in DOMAIN a /\ c[i] = a[i]
             \/ i \notin DOMAIN a /\ i - n \in DOMAIN b /\ c[i] = b[i - n]
  BY <1>1, <1>2
<1>6. Joined(a, b, c)  BY <1>1, <1>2, <1>3, <1>4, <1>5 DEF Joined
<1> QED  BY <1>6 DEF c

(* No two of the frames a cover p, nor one of them and the only one of b.   *)
Apart(f, a, b, p) ==
  /\ \A i, j \in DOMAIN a :
       Covers(source, items, a[i], p) /\ Covers(source, items, a[j], p) => i = j
  /\ \A i \in DOMAIN a : Covers(source, items, a[i], p) => Covers(source, items, f, p)
  /\ \A k \in DOMAIN b : k = 1
  /\ \A k \in DOMAIN b : Covers(source, items, b[k], p) =>
       Covers(source, items, f, p) /\ \A i \in DOMAIN a : ~Covers(source, items, a[i], p)

Reached(f, a, b, p) ==
  Covers(source, items, f, p) =>
    \/ \E i \in DOMAIN a : Covers(source, items, a[i], p)
    \/ \E k \in DOMAIN b : Covers(source, items, b[k], p)

LEMMA JoinedSplits ==
  ASSUME NEW f, NEW p, NEW a, NEW b, NEW c, Joined(a, b, c), Apart(f, a, b, p)
  PROVE  Splits(source, items, p, f, c, yielded, yielded)
<1> DEFINE C(g) == Covers(source, items, g, p)
           n == Len(a)
<1>1. /\ \A i, j \in DOMAIN a : C(a[i]) /\ C(a[j]) => i = j
      /\ \A i \in DOMAIN a : C(a[i]) => C(f)
      /\ \A k \in DOMAIN b : k = 1
      /\ \A k \in DOMAIN b : C(b[k]) => C(f) /\ \A i \in DOMAIN a : ~C(a[i])
  BY DEF Apart
<1>2. /\ \A i \in DOMAIN c :
           \/ i \in DOMAIN a /\ c[i] = a[i]
           \/ i \notin DOMAIN a /\ i - n \in DOMAIN b /\ c[i] = b[i - n]
      /\ DOMAIN c \subseteq Nat /\ n \in Nat
  BY DEF Joined
<1> HIDE DEF C, n
<1>3. \A i \in DOMAIN c : C(c[i]) => C(f)  BY <1>1, <1>2
<1>4. ASSUME NEW i \in DOMAIN c, NEW j \in DOMAIN c, C(c[i]), C(c[j])  PROVE i = j
  <2>1. CASE i \in DOMAIN a
    <3>1. j \in DOMAIN a  BY <1>1, <1>2, <1>4, <2>1
    <3> QED  BY <1>1, <1>2, <1>4, <2>1, <3>1
  <2>2. CASE i \notin DOMAIN a
    <3>1. j \notin DOMAIN a  BY <1>1, <1>2, <1>4, <2>2
    <3>2. i - n = 1 /\ j - n = 1  BY <1>1, <1>2, <2>2, <3>1
    <3> QED  BY <1>2, <3>2
  <2> QED  BY <2>1, <2>2
<1> QED  BY <1>3, <1>4 DEF Splits, C

LEMMA JoinedHands ==
  ASSUME NEW f, NEW p, NEW a, NEW b, NEW c, Joined(a, b, c), Reached(f, a, b, p)
  PROVE  Hands(source, items, p, f, c, yielded, yielded)
<1> DEFINE C(g) == Covers(source, items, g, p)
<1>1. C(f) => (\E i \in DOMAIN a : C(a[i])) \/ (\E k \in DOMAIN b : C(b[k]))  BY DEF Reached
<1>2. /\ \A i \in DOMAIN a : i \in DOMAIN c /\ c[i] = a[i]
      /\ \A i \in DOMAIN b : \E k \in DOMAIN c : c[k] = b[i]
  BY DEF Joined
<1> HIDE DEF C
<1>3. C(f) => \E i \in DOMAIN c : C(c[i])  BY <1>1, <1>2
<1> QED  BY <1>3 DEF Hands, C

LEMMA JoinedSound ==
  ASSUME NEW a, NEW b, NEW c, Joined(a, b, c),
         \A i \in DOMAIN a : Sound(source, items, moved, a[i]),
         \A i \in DOMAIN b : Sound(source, items, moved, b[i])
  PROVE  \A i \in DOMAIN c : Sound(source, items, moved, c[i])
BY DEF Joined

(* A batch of frames, and one to go on, take the place of f.                *)
Batch(f, a, b) ==
  /\ \A i \in DOMAIN a : Sound(source, items, moved, a[i])
  /\ \A i \in DOMAIN b : Sound(source, items, moved, b[i])
  /\ \A p \in Page : Still(p) => Apart(f, a, b, p) /\ Reached(f, a, b, p)

LEMMA BatchCovers ==
  ASSUME NEW S, NEW f, NEW a \in Seq(S), NEW b \in Seq(S), Batch(f, a, b), yielded' = yielded
  PROVE  Shares(f, a \o b) /\ Passes(f, a \o b)
<1> DEFINE c == a \o b
<1>1. Joined(a, b, c)  BY JoinedFrames
<1> HIDE DEF c
<1>2. \A i \in DOMAIN c : Sound(source, items, moved, c[i])  BY <1>1, JoinedSound DEF Batch
<1>3. ASSUME NEW p \in Page, Still(p)
      PROVE  /\ Splits(source, items, p, f, c, yielded, yielded)
             /\ Hands(source, items, p, f, c, yielded, yielded)
  BY <1>1, <1>3, JoinedSplits, JoinedHands DEF Batch
<1>4. Shares(f, c)  BY <1>2, <1>3 DEF Shares
<1>5. Passes(f, c)  BY <1>3 DEF Passes, Due
<1> QED  BY <1>4, <1>5 DEF c

LEMMA QueryCovers ==
  ASSUME WalkAssumption, TypesInv, Tree(items), Sound(source, items, moved, Top), Query
  PROVE  Covered
<1>1. outcome = "walking" /\ Top.op = "query"  BY DEF Query, Asking, Walking
<1>2. Top.page \in Page /\ Top \in Frames(source)  BY <1>1, TopFrame
<1>3. source = "notion"  BY <1>1, <1>2 DEF Frames
<1>4. Top.page \in Database /\ Holds(items, moved, Top)  BY <1>1 DEF Sound
<1> DEFINE left == IF Top.rest = None THEN Children(Top.page) ELSE Top.rest
           batch == Answer(left)
           rest == SubSeq(left, Len(batch) + 1, Len(left))
           entry(p) == [Frame("blocks", p) EXCEPT !.entry = TRUE]
           first == FramesOf(batch, entry)
           again == [Top EXCEPT !.rest = rest]
           more == IF rest = <<>> THEN <<>> ELSE <<again>>
<1>5. Children(Top.page) = items[Top.page]
  <2>1. items[Top.page] \in Seq(Item) /\ Text \notin Range(items[Top.page])
    BY <1>2, <1>4 DEF TypesInv, Tree
  <2> QED  BY <2>1, ButNothing DEF Children
<1>6. Continue(first \o more) /\ yielded' = yielded
  BY DEF Query
<1>a. left = Left(items, Top)  BY <1>5 DEF Left
<1>7. left \in Seq(Page)
  <2>1. items[Top.page] \in Seq(Item)  BY <1>2 DEF TypesInv
  <2>2. Children(Top.page) \in Seq(Item \ {Text})  BY <2>1, ButProperties DEF Children
  <2>3. Item \ {Text} \subseteq Page  BY DEF Item
  <2>4. items[Top.page] \in Seq(Page)  BY <1>5, <2>2, <2>3, SeqMonotonic
  <2> QED  BY <1>1, <1>2, <1>5, <2>4 DEF Frames
<1> HIDE DEF left
<1>8. batch \in Seq(Page) /\ rest \in Seq(Page) /\ Parts(left, batch, rest)
  BY <1>7, AnswerParts
<1> HIDE DEF batch, rest
<1>9. Distinct(left) /\ \A x : ~(x \in Range(Top.refs) /\ x \in Range(left))
  BY <1>4, <1>a DEF Holds
<1>10. /\ Distinct(batch) /\ Distinct(rest)
       /\ \A x : x \in Range(left) <=> x \in Range(batch) \/ x \in Range(rest)
       /\ \A x : x \in Range(batch) /\ x \in Range(rest) => x = Text
  <2>1. Divides(left, batch, rest)  BY <1>7, <1>8, <1>9, PartsOfDistinct
  <2> QED  BY <2>1 DEF Divides
<1>11. Len(batch) \in Nat /\ DOMAIN batch = 1..Len(batch)
       /\ \A i \in DOMAIN batch : batch[i] \in Page
  BY <1>8, LenProperties, ElementOfSeq
<1>12. ASSUME NEW c \in Page
       PROVE  /\ entry(c) \in Frames(source) /\ Sound(source, items, moved, entry(c))
              /\ \A p \in Page : Covers(source, items, entry(c), p) <=> c = p
  <2> DEFINE f == entry(c)
  <2>1. f \in Frames(source)  BY <1>3, EmptySeq DEF Frame, Frames
  <2>2. f.op = "blocks" /\ f.page = c /\ f.rest = None /\ f.refs = <<>> /\ f.entry
    BY DEF Frame
  <2> HIDE DEF f
  <2>3. Left(items, f) = items[c] /\ Holds(items, moved, f)  BY <2>2, FreshHolds
  <2>4. Sound(source, items, moved, f)  BY <2>2, <2>3 DEF Sound
  <2>5. \A p \in Page : Covers(source, items, f, p) <=> c = p  BY <2>2 DEF Covers
  <2> QED  BY <2>1, <2>4, <2>5 DEF f
<1>13. /\ first \in Seq(Frames(source)) /\ DOMAIN first = DOMAIN batch
       /\ \A i \in DOMAIN batch : first[i] = entry(batch[i])
  <2>1. first = [i \in 1..Len(batch) |-> entry(batch[i])]
    BY <1>11 DEF FramesOf
  <2>2. \A p \in Page : entry(p) \in Frames(source)  BY <1>12
  <2> HIDE DEF entry, first
  <2>3. first \in [1..Len(batch) -> Frames(source)]  BY <1>11, <2>1, <2>2
  <2>4. first \in Seq(Frames(source))  BY <1>11, <2>3, Listed
  <2> QED  BY <1>11, <2>1, <2>3, <2>4
<1> HIDE DEF entry, first
<1>14. rest # None
  <2> SUFFICES ASSUME rest = None  PROVE FALSE
    OBVIOUS
  <2>1. Len(rest) = 1 /\ rest[1] = "none" /\ 1 \in 1..1  BY DEF None
  <2>2. \A i \in 1..Len(rest) : rest[i] \in Page  BY <1>8, ElementOfSeq
  <2>3. rest[1] \in Page
    <3> HIDE DEF None
    <3> QED  BY <2>1, <2>2
  <2> QED  BY <2>1, <2>3 DEF WalkAssumption
<1>15. /\ again \in Frames(source) /\ again.op = "query" /\ again.page = Top.page
       /\ again.rest = rest /\ again.refs = Top.refs
  <2>1. rest \in Seq(Item)  BY <1>8, SeqMonotonic DEF Item
  <2> QED  BY <1>1, <1>2, <1>8, <2>1 DEF Frames
<1> HIDE DEF again
<1>16. Left(items, again) = rest  BY <1>14, <1>15 DEF Left
<1>17. Sound(source, items, moved, again)
  <2>1. \A x \in Ahead(items, again) : x \in Ahead(items, Top)
    BY <1>10, <1>15, <1>16, <1>a DEF Ahead
  <2>2. \A x \in Ahead(items, again) \ moved : x \in Range(items[again.page])
    BY <1>4, <1>15, <2>1 DEF Holds
  <2>3. Distinct(again.refs)  BY <1>4, <1>15 DEF Holds
  <2>4. \A x : ~(x \in Range(again.refs) /\ x \in Range(rest))  BY <1>9, <1>10, <1>15
  <2>5. Holds(items, moved, again)  BY <1>10, <1>14, <1>15, <1>16, <2>2, <2>3, <2>4 DEF Holds
  <2> QED  BY <1>3, <1>4, <1>15, <2>5 DEF Sound
<1>18. /\ more \in Seq(Frames(source))
       /\ \A k \in DOMAIN more : k = 1 /\ more[k] = again
       /\ rest # <<>> => 1 \in DOMAIN more
  <2>1. CASE rest = <<>>  BY <2>1, EmptySeq
  <2>2. CASE rest # <<>>
    <3>1. <<again>> \in Seq(Frames(source)) /\ DOMAIN <<again>> = {1} /\ <<again>>[1] = again
      BY <1>15
    <3> QED  BY <2>2, <3>1
  <2> QED  BY <2>1, <2>2
<1> HIDE DEF more
<1>19. ASSUME NEW p \in Page
       PROVE  Apart(Top, first, more, p) /\ Reached(Top, first, more, p)
  <2> DEFINE C(g) == Covers(source, items, g, p)
  <2>1. C(Top) <=> p \in Range(left)  BY <1>1, <1>a DEF Covers
  <2>2. C(again) <=> p \in Range(rest)  BY <1>15, <1>16 DEF Covers
  <2>3. \A i \in DOMAIN first : C(first[i]) <=> batch[i] = p  BY <1>11, <1>12, <1>13
  <2> HIDE DEF C
  <2>4. p # Text  BY DEF WalkAssumption
  <2>5. \A i \in DOMAIN first : C(first[i]) => p \in Range(batch)  BY <1>13, <2>3 DEF Range
  <2>6. ASSUME NEW i \in DOMAIN first, NEW j \in DOMAIN first, C(first[i]), C(first[j])
        PROVE  i = j
    BY <1>10, <1>13, <2>3, <2>4, <2>6 DEF Distinct
  <2>7. \A i \in DOMAIN first : C(first[i]) => C(Top)  BY <1>10, <2>1, <2>5
  <2>8. \A k \in DOMAIN more : C(more[k]) => C(Top) /\ \A i \in DOMAIN first : ~C(first[i])
    BY <1>10, <1>18, <2>1, <2>2, <2>4, <2>5
  <2>9. Apart(Top, first, more, p)  BY <1>18, <2>6, <2>7, <2>8 DEF Apart, C
  <2>10. ASSUME C(Top)  PROVE (\E i \in DOMAIN first : C(first[i])) \/ (\E k \in DOMAIN more : C(more[k]))
    <3>1. CASE p \in Range(batch)
      <4>1. PICK i \in DOMAIN batch : batch[i] = p  BY <3>1 DEF Range
      <4> QED  BY <1>13, <2>3, <4>1
    <3>2. CASE p \in Range(rest)
      <4>1. rest # <<>>  BY <3>2 DEF Range
      <4> QED  BY <1>18, <2>2, <3>2, <4>1
    <3> QED  BY <1>10, <2>1, <2>10, <3>1, <3>2
  <2>11. Reached(Top, first, more, p)  BY <2>10 DEF Reached, C
  <2> QED  BY <2>9, <2>11
<1>20. \A i \in DOMAIN first : Sound(source, items, moved, first[i])  BY <1>11, <1>12, <1>13
<1>21. \A i \in DOMAIN more : Sound(source, items, moved, more[i])  BY <1>17, <1>18
<1>22. Batch(Top, first, more)  BY <1>19, <1>20, <1>21 DEF Batch
<1>23. Shares(Top, first \o more) /\ Passes(Top, first \o more)
  BY <1>6, <1>13, <1>18, <1>22, BatchCovers
<1>24. first \o more \in Seq(Frames(source))  BY <1>13, <1>18, ConcatProperties
<1> QED  BY <1>6, <1>23, <1>24 DEF Covered

(* t is what is left of s past n.                                           *)
From(s, n, t) ==
  /\ \A i \in 1..Len(t) : n + i \in DOMAIN s /\ t[i] = s[n + i]
  /\ \A k \in DOMAIN s : k > n => k - n \in 1..Len(t)

LEMMA LeftFrom ==
  ASSUME NEW S, NEW s \in Seq(S), NEW n \in Nat
  PROVE  /\ SubSeq(s, n + 1, Len(s)) \in Seq(S)
         /\ From(s, n, SubSeq(s, n + 1, Len(s)))
<1> DEFINE t == SubSeq(s, n + 1, Len(s))
<1>1. Len(s) \in Nat /\ DOMAIN s = 1..Len(s) /\ \A i \in 1..Len(s) : s[i] \in S
  BY LenProperties, ElementOfSeq
<1>2. n + 1 \in Int /\ Len(s) \in Int /\ \A i \in (n + 1)..Len(s) : s[i] \in S  BY <1>1
<1>3. /\ t \in Seq(S)
      /\ Len(t) = IF n + 1 <= Len(s) THEN Len(s) - (n + 1) + 1 ELSE 0
      /\ \A i \in 1..(Len(s) - (n + 1) + 1) : t[i] = s[(n + 1) + i - 1]
  BY <1>2, SubSeqProperties
<1> HIDE DEF t
<1> DEFINE l == Len(s)
           m == Len(t)
<1>a. l \in Nat /\ DOMAIN s = 1..l  BY <1>1
<1>b. m = IF n + 1 <= l THEN l - (n + 1) + 1 ELSE 0  BY <1>3
<1>c. \A i \in 1..(l - (n + 1) + 1) : t[i] = s[(n + 1) + i - 1]  BY <1>3
<1> HIDE DEF l, m
<1>4. m = IF n < l THEN l - n ELSE 0  BY <1>a, <1>b
<1>5. ASSUME NEW i \in 1..m  PROVE n + i \in DOMAIN s /\ t[i] = s[n + i]
  <2>1. i \in 1..(l - (n + 1) + 1) /\ (n + 1) + i - 1 = n + i /\ n + i \in DOMAIN s
    BY <1>a, <1>4
  <2> QED  BY <1>c, <2>1
<1>6. \A k \in DOMAIN s : k > n => k - n \in 1..m  BY <1>a, <1>4
<1>7. From(s, n, t)  BY <1>5, <1>6 DEF From, m
<1> QED  BY <1>3, <1>7 DEF t

(* Of the listing below x one place at most is on the way to p.             *)
LEMMA ChildOnce ==
  ASSUME WalkAssumption, TypesInv, Tree(items), NEW x \in Page, NEW p \in Page,
         NEW i \in DOMAIN Children(x), NEW j \in DOMAIN Children(x),
         Children(x)[i] \in Aim(source, items, p), Children(x)[j] \in Aim(source, items, p)
  PROVE  i = j
<1> DEFINE s == Children(x)
<1>1. items[x] \in Seq(Item) /\ Distinct(items[x])  BY DEF TypesInv, Tree
<1>2. s \in Seq(Item \ {Text}) /\ Range(s) = Range(items[x]) \ {Text}
  BY <1>1, ButProperties DEF Children
<1>3. Distinct(s)  BY <1>1, ButDistinct DEF Children
<1>4. s[i] \in Range(s) /\ s[j] \in Range(s)  BY DEF Range
<1>5. s[i] \in Range(items[x]) /\ s[j] \in Range(items[x]) /\ s[i] # Text  BY <1>2, <1>4
<1>6. s[i] = s[j]
  <2> HIDE DEF s
  <2>1. CASE source = "space"  BY <2>1 DEF Aim, s
  <2>2. CASE source # "space"
    <3>1. s[i] \in Chain(items, p) /\ s[j] \in Chain(items, p)  BY <2>2 DEF Aim, s
    <3> QED  BY <1>5, <3>1, OneOfLine
  <2> QED  BY <2>1, <2>2
<1> HIDE DEF s
<1>7. i \in DOMAIN s /\ j \in DOMAIN s  BY DEF s
<1> QED  BY <1>3, <1>5, <1>6, <1>7 DEF Distinct

LEMMA ListChildrenCovers ==
  ASSUME WalkAssumption, TypesInv, Tree(items), Sound(source, items, moved, Top), ListChildren
  PROVE  Covered
<1>1. outcome = "walking" /\ Top.op = "children"  BY DEF ListChildren, Asking, Walking
<1>2. Top.page \in Page /\ Top \in Frames(source) /\ Top.start \in Nat
  BY <1>1, TopFrame DEF Frames
<1>3. source \in {"confluence", "space"}  BY <1>1, <1>2 DEF Frames, TypesInv
<1> DEFINE all == Children(Top.page)
           start == Top.start
           left == SubSeq(all, start + 1, Len(all))
           batch == Answer(left)
           child(p) == [Frame("child", p) EXCEPT !.text = HasText(p)]
           first == FramesOf(batch, child)
           again == [Top EXCEPT !.start = @ + Len(batch)]
           more == IF Len(batch) < Limit THEN <<>> ELSE <<again>>
           Aimed(c, p) == c \in Aim(source, items, p)
<1>4. Continue(first \o more) /\ yielded' = yielded
  BY DEF ListChildren
<1>5. all \in Seq(Page)
  <2>1. items[Top.page] \in Seq(Item)  BY <1>2 DEF TypesInv
  <2>2. all \in Seq(Item \ {Text})  BY <2>1, ButProperties DEF Children
  <2>3. Item \ {Text} \subseteq Page  BY DEF Item
  <2> QED  BY <2>2, <2>3, SeqMonotonic
<1>6. \A p \in Page : \A i, j \in DOMAIN all : Aimed(all[i], p) /\ Aimed(all[j], p) => i = j
  BY <1>2, ChildOnce
<1>7. \A p \in Page : Covers(source, items, Top, p) <=>
         \E i \in DOMAIN all : i > start /\ Aimed(all[i], p)
  BY <1>1 DEF Covers, Children
<1>8. start \in Nat /\ Limit \in Nat \ {0} /\ DOMAIN all \subseteq Nat
  BY <1>2, <1>5, LenProperties DEF WalkAssumption
<1>9. left \in Seq(Page) /\ From(all, start, left)
  <2> HIDE DEF all, start
  <2> QED  BY <1>5, <1>8, LeftFrom
<1> DEFINE rest == SubSeq(left, Len(batch) + 1, Len(left))
<1>10. batch \in Seq(Page) /\ Parts(left, batch, rest)
  <2> HIDE DEF left
  <2> QED  BY <1>9, AnswerParts
<1> HIDE DEF left, batch, rest
<1>11. Len(batch) \in Nat /\ DOMAIN batch = 1..Len(batch) /\ Len(left) \in Nat
       /\ \A i \in DOMAIN batch : batch[i] \in Page
  BY <1>9, <1>10, LenProperties, ElementOfSeq
<1>12. ASSUME NEW c \in Page
       PROVE  /\ child(c) \in Frames(source) /\ Sound(source, items, moved, child(c))
              /\ \A p \in Page : Covers(source, items, child(c), p) <=> Aimed(c, p)
  <2> DEFINE text == HasText(c)
             g == Frame("child", c)
             f == [g EXCEPT !.text = text]
  <2>1. g \in Frames(source) /\ g.op = "child" /\ g.page = c
    <3>1. g \in Frames(source) /\ g.op = "child"  BY <1>3, FreshFrame
    <3>2. g.page = c  BY DEF Frame
    <3> QED  BY <3>1, <3>2
  <2>2. text \in BOOLEAN /\ (text <=> Text \in Range(items[c]))  BY DEF HasText
  <2>3. child(c) = f  OBVIOUS
  <2> HIDE DEF text, g, child
  <2>4. f \in Frames(source) /\ f.op = "child" /\ f.page = c /\ f.text = text
    BY <2>1, <2>2 DEF Frames
  <2> HIDE DEF f
  <2>5. Sound(source, items, moved, f)  BY <2>2, <2>4 DEF Sound
  <2>6. \A p \in Page : Covers(source, items, f, p) <=> Aimed(c, p)  BY <2>4 DEF Covers
  <2> QED  BY <2>3, <2>4, <2>5, <2>6
<1>13. /\ first \in Seq(Frames(source)) /\ DOMAIN first = DOMAIN batch
       /\ \A i \in DOMAIN batch : first[i] = child(batch[i])
  <2>1. first = [i \in 1..Len(batch) |-> child(batch[i])]
    BY <1>11 DEF FramesOf
  <2>2. \A p \in Page : child(p) \in Frames(source)  BY <1>12
  <2> HIDE DEF child, first
  <2>3. first \in [1..Len(batch) -> Frames(source)]  BY <1>11, <2>1, <2>2
  <2>4. first \in Seq(Frames(source))  BY <1>11, <2>3, Listed
  <2> QED  BY <1>11, <2>1, <2>3, <2>4
<1> HIDE DEF child, first
<1>14. /\ again \in Frames(source) /\ again.op = "children" /\ again.page = Top.page
       /\ again.start = start + Len(batch)
  <2> DEFINE more2 == Top.start + Len(batch)
  <2>1. more2 \in Nat  BY <1>8, <1>11
  <2> HIDE DEF more2
  <2>2. /\ [Top EXCEPT !.start = more2] \in Frames(source)
        /\ [Top EXCEPT !.start = more2].op = "children"
        /\ [Top EXCEPT !.start = more2].page = Top.page
        /\ [Top EXCEPT !.start = more2].start = more2
    BY <1>1, <1>2, <2>1 DEF Frames
  <2> QED  BY <2>2 DEF more2
<1> HIDE DEF again
<1>15. Sound(source, items, moved, again)  BY <1>14 DEF Sound
<1>16. \A p \in Page : Covers(source, items, again, p) <=>
         \E i \in DOMAIN all : i > start + Len(batch) /\ Aimed(all[i], p)
  BY <1>14 DEF Covers, Children
<1>17. /\ more \in Seq(Frames(source))
       /\ \A k \in DOMAIN more : k = 1 /\ more[k] = again
       /\ ~(Len(batch) < Limit) => 1 \in DOMAIN more
  <2>1. CASE Len(batch) < Limit  BY <2>1, EmptySeq
  <2>2. CASE ~(Len(batch) < Limit)
    <3>1. <<again>> \in Seq(Frames(source)) /\ DOMAIN <<again>> = {1} /\ <<again>>[1] = again
      BY <1>14
    <3> QED  BY <2>2, <3>1
  <2> QED  BY <2>1, <2>2
<1> HIDE DEF more, all, start, Aimed
<1>18. \A i \in DOMAIN batch : start + i \in DOMAIN all /\ batch[i] = all[start + i]
  <2>1. \A i \in 1..Len(batch) : i \in 1..Len(left) /\ batch[i] = left[i]  BY <1>10 DEF Parts
  <2>2. \A i \in 1..Len(left) : start + i \in DOMAIN all /\ left[i] = all[start + i]
    BY <1>9 DEF From
  <2> QED  BY <1>11, <2>1, <2>2
<1>19. ASSUME NEW k \in DOMAIN all, k > start
       PROVE  \/ \E i \in DOMAIN batch : k = start + i
              \/ k > start + Len(batch) /\ ~(Len(batch) < Limit)
  <2>1. k - start \in 1..Len(left)  BY <1>9, <1>19 DEF From
  <2>2. Len(batch) = IF Len(left) < Limit THEN Len(left) ELSE Limit  BY <1>10 DEF Parts
  <2>3. CASE k - start <= Len(batch)
    <3> DEFINE i == k - start
    <3>1. i \in DOMAIN batch /\ k = start + i  BY <1>8, <1>11, <2>1, <2>3
    <3> HIDE DEF i
    <3> QED  BY <3>1
  <2>4. CASE ~(k - start <= Len(batch))
    BY <1>8, <1>11, <2>1, <2>2, <2>4
  <2> QED  BY <2>3, <2>4
<1>20. ASSUME NEW p \in Page
       PROVE  Apart(Top, first, more, p) /\ Reached(Top, first, more, p)
  <2> DEFINE C(g) == Covers(source, items, g, p)
             A(k) == Aimed(all[k], p)
  <2>1. C(Top) <=> \E k \in DOMAIN all : k > start /\ A(k)  BY <1>7
  <2>2. C(again) <=> \E k \in DOMAIN all : k > start + Len(batch) /\ A(k)  BY <1>16
  <2>3. \A i \in DOMAIN first : C(first[i]) <=> A(start + i)  BY <1>11, <1>12, <1>13, <1>18
  <2>4. \A k, l \in DOMAIN all : A(k) /\ A(l) => k = l  BY <1>6
  <2> HIDE DEF C, A
  <2>5. \A i \in DOMAIN first : start + i \in DOMAIN all /\ start + i > start
                                /\ start + i <= start + Len(batch) /\ i \in Nat
    BY <1>8, <1>11, <1>13, <1>18
  <2>6. ASSUME NEW i \in DOMAIN first, NEW j \in DOMAIN first, C(first[i]), C(first[j])
        PROVE  i = j
    <3>1. start + i = start + j  BY <2>3, <2>4, <2>5, <2>6
    <3> QED  BY <1>8, <2>5, <3>1
  <2>7. \A i \in DOMAIN first : C(first[i]) => C(Top)  BY <2>1, <2>3, <2>5
  <2>8. ASSUME NEW k \in DOMAIN more, C(more[k])
        PROVE  C(Top) /\ \A i \in DOMAIN first : ~C(first[i])
    <3>1. C(again)  BY <1>17, <2>8
    <3>2. PICK l \in DOMAIN all : l > start + Len(batch) /\ A(l)  BY <2>2, <3>1
    <3>3. l > start  BY <1>8, <1>11, <3>2
    <3>4. ASSUME NEW i \in DOMAIN first, C(first[i])  PROVE FALSE
      <4>1. start + i = l  BY <2>3, <2>4, <2>5, <3>2, <3>4
      <4> QED  BY <1>8, <1>11, <2>5, <3>2, <4>1
    <3> QED  BY <2>1, <3>2, <3>3, <3>4
  <2>9. Apart(Top, first, more, p)  BY <1>17, <2>6, <2>7, <2>8 DEF Apart, C
  <2>10. ASSUME C(Top)  PROVE (\E i \in DOMAIN first : C(first[i])) \/ (\E k \in DOMAIN more : C(more[k]))
    <3>1. PICK k \in DOMAIN all : k > start /\ A(k)  BY <2>1, <2>10
    <3>2. CASE \E i \in DOMAIN batch : k = start + i
      BY <1>13, <2>3, <3>1, <3>2
    <3>3. CASE k > start + Len(batch) /\ ~(Len(batch) < Limit)
      BY <1>17, <2>2, <3>1, <3>3
    <3> QED  BY <1>19, <3>1, <3>2, <3>3
  <2>11. Reached(Top, first, more, p)  BY <2>10 DEF Reached, C
  <2> QED  BY <2>9, <2>11
<1>21. \A i \in DOMAIN first : Sound(source, items, moved, first[i])  BY <1>11, <1>12, <1>13
<1>22. \A i \in DOMAIN more : Sound(source, items, moved, more[i])  BY <1>15, <1>17
<1>23. Batch(Top, first, more)  BY <1>20, <1>21, <1>22 DEF Batch
<1>24. Shares(Top, first \o more) /\ Passes(Top, first \o more)
  BY <1>4, <1>13, <1>17, <1>23, BatchCovers
<1>25. first \o more \in Seq(Frames(source))  BY <1>13, <1>17, ConcatProperties
<1> QED  BY <1>4, <1>24, <1>25 DEF Covered

(* The listing below x leads to p when x is above it.                       *)
LEMMA ListingBelow ==
  ASSUME WalkAssumption, TypesInv, Tree(items), source # "space", NEW x \in Page, NEW p \in Page
  PROVE  Covers(source, items, Frame("children", x), p) <=> x \in Chain(items, p) /\ x # p
<1> DEFINE f == Frame("children", x)
           s == But(items[x], Text)
<1>1. f.op = "children" /\ f.page = x /\ f.start = 0  BY DEF Frame
<1> HIDE DEF f
<1>2. s \in Seq(Item \ {Text}) /\ Range(s) = Range(items[x]) \ {Text}
  BY ButProperties DEF TypesInv
<1>3. Covers(source, items, f, p) <=> \E i \in DOMAIN s : i > 0 /\ s[i] \in Chain(items, p)
  BY <1>1 DEF Covers, Aim
<1> HIDE DEF s
<1>4. \A i \in DOMAIN s : i > 0
  <2>1. Len(s) \in Nat /\ DOMAIN s = 1..Len(s)  BY <1>2, LenProperties
  <2> QED  BY <2>1
<1>5. ASSUME NEW i \in DOMAIN s, s[i] \in Chain(items, p)  PROVE x \in Chain(items, p) /\ x # p
  <2>1. s[i] \in Range(items[x])  BY <1>2 DEF Range
  <2>2. s[i] \in Page  BY <1>5, ChainUp
  <2>3. x \in Chain(items, p)  BY <1>5, <2>1, <2>2, ChainUp DEF Up
  <2> QED  BY <1>5, <2>1, <2>3, NotAboveItself
<1>6. ASSUME x \in Chain(items, p), x # p  PROVE \E i \in DOMAIN s : s[i] \in Chain(items, p)
  <2>1. PICK y \in Chain(items, p) : y \in Range(items[x])  BY <1>6, ChainDown
  <2>2. y # Text
    <3>1. y \in Page  BY ChainUp
    <3> QED  BY <3>1 DEF WalkAssumption
  <2>3. y \in Range(s)  BY <1>2, <2>1, <2>2
  <2>4. PICK i \in DOMAIN s : s[i] = y  BY <2>3 DEF Range
  <2> QED  BY <2>4
<1>7. Covers(source, items, f, p) <=> x \in Chain(items, p) /\ x # p
  BY <1>3, <1>4, <1>5, <1>6
<1> QED  BY <1>7 DEF f

(* A page of Confluence is read: it yields its text, and its children are   *)
(* listed.                                                                  *)
YieldsText(x) ==
  yielded' = IF Text \in Range(items[x]) THEN Append(yielded, Whole(x)) ELSE yielded

LEMMA PageReads ==
  ASSUME WalkAssumption, TypesInv, Tree(items), source = "confluence",
         NEW f, f.op = "page" \/ f.op = "child", NEW x \in Page, f.page = x, YieldsText(x),
         NEW g, g = Frame("children", x)
  PROVE  Shares(f, <<g>>) /\ Passes(f, <<g>>)
<1> DEFINE fs == <<g>>
           C(h, p) == Covers(source, items, h, p)
<1>1. \A p \in Page : C(g, p) <=> x \in Chain(items, p) /\ x # p  BY ListingBelow
<1>2. \A p \in Page : C(f, p) <=> x \in Chain(items, p)  BY DEF Covers, Aim
<1>3. g.op = "children"  BY DEF Frame
<1>4. Sound(source, items, moved, g)  BY <1>3 DEF Sound
<1>5. DOMAIN fs = {1} /\ fs[1] = g  OBVIOUS
<1> HIDE DEF fs
<1>6. \A i \in DOMAIN fs : i = 1 /\ fs[i] = g  BY <1>5
<1>7. /\ yielded' = yielded \/ \E y \in Document : yielded' = Append(yielded, y) /\ y.page = x
      /\ Text \in Range(items[x]) => yielded' = Append(yielded, Whole(x))
  <2>1. Whole(x) \in Document /\ Whole(x).page = x  BY DEF Whole, Document
  <2> QED  BY <2>1 DEF YieldsText
<1>8. \A p \in Page : p \in Chain(items, p)  BY ChainUp
<1> HIDE DEF C
<1>9. ASSUME NEW p \in Page  PROVE Splits(source, items, p, f, fs, yielded, yielded')
  <2>1. \A i \in DOMAIN fs : C(fs[i], p) => C(f, p) /\ x # p  BY <1>1, <1>2, <1>6
  <2>2. \A i, j \in DOMAIN fs : C(fs[i], p) /\ C(fs[j], p) => i = j  BY <1>6
  <2>3. x = p => C(f, p)  BY <1>2, <1>8
  <2>4. \A y : y = Whole(p) => y.page = p  BY DEF Whole
  <2>5. \/ yielded' = yielded
        \/ \E y \in Document : /\ yielded' = Append(yielded, y)
                               /\ y = Whole(p) => C(f, p) /\ \A i \in DOMAIN fs : ~C(fs[i], p)
    BY <1>7, <2>1, <2>3, <2>4
  <2> QED  BY <2>1, <2>2, <2>5 DEF Splits, C
<1>10. Shares(f, fs)  BY <1>4, <1>6, <1>9 DEF Shares
<1>11. ASSUME NEW p \in Page, Due(p), C(f, p)
       PROVE  (\E i \in DOMAIN fs : C(fs[i], p)) \/ yielded' = Append(yielded, Whole(p))
  <2>1. CASE x = p
    BY <1>7, <1>11, <2>1 DEF Due
  <2>2. CASE x # p
    <3>1. C(g, p)  BY <1>1, <1>2, <1>11, <2>2
    <3> QED  BY <1>5, <3>1
  <2> QED  BY <2>1, <2>2
<1>12. Passes(f, fs)  BY <1>11 DEF Passes, Hands, C
<1> QED  BY <1>10, <1>12 DEF fs

LEMMA ChildCovers ==
  ASSUME WalkAssumption, TypesInv, Tree(items), Sound(source, items, moved, Top), Child
  PROVE  Covered
<1>1. outcome = "walking" /\ Top.op = "child"  BY DEF Child, Walking
<1>2. Top.page \in Page /\ Top \in Frames(source)  BY <1>1, TopFrame
<1>3. source \in {"confluence", "space"}  BY <1>1, <1>2 DEF Frames, TypesInv
<1>4. Top.text <=> Text \in Range(items[Top.page])  BY <1>1 DEF Sound
<1>5. Yield(Top.page, Top.text, TRUE)  BY DEF Child
<1>6. CASE source = "confluence"
  <2> DEFINE g == Frame("children", Top.page)
  <2>1. Continue(<<g>>)  BY <1>6 DEF Child
  <2>2. Shares(Top, <<g>>) /\ Passes(Top, <<g>>)
    <3> DEFINE f == Top
               x == Top.page
    <3>1. (f.op = "page" \/ f.op = "child") /\ x \in Page /\ f.page = x  BY <1>1, <1>2
    <3>2. YieldsText(x)  BY <1>4, <1>5 DEF Yield, YieldsText, Whole
    <3>a. g = Frame("children", x)  OBVIOUS
    <3> HIDE DEF f, g, x
    <3>3. Shares(f, <<g>>) /\ Passes(f, <<g>>)
      BY <1>6, <3>1, <3>2, <3>a, PageReads
    <3> QED  BY <3>3 DEF f
  <2>3. g \in Frames(source)  BY <1>2, <1>6, FreshFrame
  <2> HIDE DEF g
  <2>4. <<g>> \in Seq(Frames(source))  BY <2>3
  <2> QED  BY <2>1, <2>2, <2>4 DEF Covered
<1>7. CASE source = "space"
  <2> DEFINE fs == <<>>
  <2>1. Continue(fs) /\ fs \in Seq(Frames(source)) /\ DOMAIN fs = {}
    BY <1>7, EmptySeq DEF Child
  <2> HIDE DEF fs
  <2>2. \A p \in Page : Covers(source, items, Top, p) <=> Top.page = p
    BY <1>1, <1>7 DEF Covers, Aim
  <2>3. /\ yielded' = yielded \/ \E y \in Document : yielded' = Append(yielded, y) /\ y.page = Top.page
        /\ Top.text => yielded' = Append(yielded, Whole(Top.page))
    BY <1>2, <1>5, YieldOf
  <2>4. ASSUME NEW p \in Page  PROVE Splits(source, items, p, Top, fs, yielded, yielded')
    <3>1. \A y : y = Whole(p) => y.page = p  BY DEF Whole
    <3> QED  BY <2>1, <2>2, <2>3, <3>1 DEF Splits
  <2>5. Shares(Top, fs)  BY <2>1, <2>4 DEF Shares
  <2>6. ASSUME NEW p \in Page, Due(p), Covers(source, items, Top, p)
        PROVE  yielded' = Append(yielded, Whole(p))
    <3>1. Top.page = p  BY <2>2, <2>6
    <3>2. Top.text  BY <1>4, <2>6, <3>1 DEF Due
    <3> QED  BY <2>3, <3>1, <3>2
  <2>7. Passes(Top, fs)  BY <2>6 DEF Passes, Hands
  <2> QED  BY <2>1, <2>5, <2>7 DEF Covered
<1> QED  BY <1>3, <1>6, <1>7

LEMMA GetPageCovers ==
  ASSUME WalkAssumption, TypesInv, Tree(items), Sound(source, items, moved, Top), GetPage
  PROVE  Covered
<1>1. outcome = "walking" /\ Top.op = "page"  BY DEF GetPage, Asking, Walking
<1>2. Top.page \in Page /\ Top \in Frames(source)  BY <1>1, TopFrame
<1>3. source \in {"notion", "confluence"}  BY <1>1 DEF Sound, TypesInv
<1>4. CASE source = "confluence"
  <2> DEFINE g == Frame("children", Top.page)
  <2>1. Continue(<<g>>) /\ Yield(Top.page, HasText(Top.page), TRUE)  BY <1>4 DEF GetPage
  <2>2. Shares(Top, <<g>>) /\ Passes(Top, <<g>>)
    <3> DEFINE f == Top
               x == Top.page
    <3>1. (f.op = "page" \/ f.op = "child") /\ x \in Page /\ f.page = x  BY <1>1, <1>2
    <3>2. YieldsText(x)  BY <2>1 DEF Yield, HasText, YieldsText, Whole
    <3>a. g = Frame("children", x)  OBVIOUS
    <3> HIDE DEF f, g, x
    <3>3. Shares(f, <<g>>) /\ Passes(f, <<g>>)
      BY <1>4, <3>1, <3>2, <3>a, PageReads
    <3> QED  BY <3>3 DEF f
  <2>3. g \in Frames(source)  BY <1>2, <1>4, FreshFrame
  <2> HIDE DEF g
  <2>4. <<g>> \in Seq(Frames(source))  BY <2>3
  <2> QED  BY <2>1, <2>2, <2>4 DEF Covered
<1>5. CASE source = "notion"
  <2> DEFINE x == Top.page
             g == Frame("blocks", x)
  <2>1. Continue(<<g>>) /\ yielded' = yielded  BY <1>5 DEF GetPage
  <2>2. /\ g.op = "blocks" /\ g.page = x /\ g.rest = None /\ g.refs = <<>> /\ ~g.entry
        /\ g \in Frames(source)
    <3>1. g.op = "blocks" /\ g.page = x /\ g.rest = None /\ g.refs = <<>> /\ ~g.entry
      BY DEF Frame
    <3> QED  BY <1>2, <1>5, <3>1, FreshFrame
  <2> HIDE DEF g
  <2>3. Left(items, g) = items[x] /\ Holds(items, moved, g)  BY <1>2, <2>2, FreshHolds
  <2>4. Sound(source, items, moved, g)  BY <2>2, <2>3 DEF Sound
  <2>5. ASSUME NEW p \in Page
        PROVE  Covers(source, items, Top, p) <=> Covers(source, items, g, p)
    <3>1. Covers(source, items, Top, p) <=> x \in Chain(items, p)  BY <1>1, <1>5 DEF Covers, Aim
    <3>2. Covers(source, items, g, p) <=>
            x = p \/ \E c \in Ahead(items, g) : c \in Chain(items, p)
      BY <2>2 DEF Covers
    <3>3. \A c : c \in Ahead(items, g) <=> c \in Range(items[x]) /\ c # Text
      <4>1. Range(g.refs) = {}  BY <2>2 DEF Range
      <4> QED  BY <2>3, <4>1 DEF Ahead
    <3>4. \A c \in Chain(items, p) : c \in Page /\ c # Text  BY ChainUp DEF WalkAssumption
    <3> HIDE DEF x
    <3>5. x \in Page  BY <1>2 DEF x
    <3>6. ASSUME x \in Chain(items, p)  PROVE x = p \/ \E c \in Ahead(items, g) : c \in Chain(items, p)
      BY <3>3, <3>4, <3>6, ChainDown
    <3>7. ASSUME NEW c \in Ahead(items, g), c \in Chain(items, p)  PROVE x \in Chain(items, p)
      BY <3>3, <3>4, <3>5, <3>7, ChainUp DEF Up
    <3> QED  BY <3>1, <3>2, <3>6, <3>7, ChainUp
  <2>6. Same(Top, g)  BY <2>5 DEF Same
  <2>7. Shares(Top, <<g>>) /\ Passes(Top, <<g>>)  BY <2>1, <2>4, <2>6, AgainCovers
  <2>8. <<g>> \in Seq(Frames(source))  BY <2>2
  <2> QED  BY <2>1, <2>7, <2>8 DEF Covered
<1> QED  BY <1>3, <1>4, <1>5

-------------------------------------------------------------------------------
(* Failed requests.                                                         *)

(* What a frame covers lies below the page that it asks for.                *)
LEMMA CoversBelow ==
  ASSUME WalkAssumption, TypesInv, Tree(items), NEW f, f.page \in Page, f.op # "child",
         Sound(source, items, moved, f), NEW p \in Page, Still(p), Covers(source, items, f, p)
  PROVE  f.page \in Chain(items, p)
<1>1. \A x \in Chain(items, p) : x \in Page /\ x # Text  BY ChainUp DEF WalkAssumption
<1>2. p \in Chain(items, p)  BY ChainUp
<1>3. CASE f.op = "page"
  BY <1>3 DEF Covers, Aim, Sound
<1>4. CASE f.op = "blocks"
  <2>1. Holds(items, moved, f)  BY <1>4 DEF Sound
  <2>2. f.page = p \/ \E c \in Ahead(items, f) : c \in Chain(items, p)  BY <1>4 DEF Covers
  <2> QED  BY <1>2, <2>1, <2>2, HeldOnLine
<1>5. CASE f.op = "query"
  <2>1. Holds(items, moved, f)  BY <1>5 DEF Sound
  <2>2. p \in Ahead(items, f)  BY <1>1, <1>2, <1>5 DEF Covers, Ahead
  <2> QED  BY <1>2, <2>1, <2>2, HeldOnLine
<1>6. CASE f.op = "children"
  <2> DEFINE s == But(items[f.page], Text)
  <2>1. PICK i \in DOMAIN s : s[i] \in Aim(source, items, p)  BY <1>6 DEF Covers
  <2>2. Range(s) = Range(items[f.page]) \ {Text}
    <3> DEFINE t == items[f.page]
    <3>1. t \in Seq(Item)  BY DEF TypesInv
    <3> HIDE DEF t
    <3>2. Range(But(t, Text)) = Range(t) \ {Text}  BY <3>1, ButProperties
    <3> QED  BY <3>2 DEF t
  <2>3. s[i] \in Range(s)  BY DEF Range
  <2> HIDE DEF s
  <2>4. s[i] \in Range(items[f.page]) /\ s[i] \in Chain(items, p)  BY <1>2, <2>1, <2>2, <2>3 DEF Aim
  <2> QED  BY <1>1, <2>4, ChainUp DEF Up
<1> QED  BY <1>3, <1>4, <1>5, <1>6 DEF Covers

LEMMA FailedCovers ==
  ASSUME WalkAssumption, TypesInv, Tree(items), outcome = "walking",
         Sound(source, items, moved, Top), Failed
  PROVE  Raise \/ \E fs \in Seq(Frames(source)) : Continue(fs) /\ Shares(Top, fs)
<1>1. Top \in Frames(source)  BY TopFrame
<1>2. CASE Top.op = "page"
  <2> DEFINE fs == <<>>
  <2>1. Continue(fs) /\ yielded' = yielded  BY <1>2 DEF Failed
  <2>2. fs \in Seq(Frames(source)) /\ DOMAIN fs = {}  BY EmptySeq
  <2> HIDE DEF fs
  <2>3. Shares(Top, fs)  BY <2>1, <2>2 DEF Shares, Splits
  <2> QED  BY <2>1, <2>2, <2>3
<1>3. CASE Top.op = "blocks"
  <2>1. source = "notion"  BY <1>1, <1>3 DEF Frames
  <2>2. Finished(Top, FALSE)  BY <1>3 DEF Failed
  <2> QED  BY <1>1, <1>3, <2>1, <2>2, FinishedCovers
<1>4. CASE Top.op \notin {"page", "blocks"}
  BY <1>4 DEF Failed
<1> QED  BY <1>2, <1>3, <1>4

-------------------------------------------------------------------------------
(* The invariant: every frame holds what it should, and the pages are       *)
(* shared out among the frames and the documents yielded.                   *)

(* Nothing that moved can have p read twice.                                *)
Settled(p) ==
  /\ Still(p)
  /\ source # "notion" => \A x \in Chain(items, p) : x # p => x \notin grown

(* The walk is to yield p, and neither a move nor a failure stands in the   *)
(* way.                                                                     *)
Wanted(p) ==
  /\ Due(p) /\ Root \in Chain(items, p)
  /\ source = "space" => p \in Range(items[Root])
  /\ \A x \in Chain(items, p) : x \notin lost
  /\ source # "notion" => \A x \in Chain(items, p) : x # p => x \notin shrunk

SoundInv == \A i \in DOMAIN stack : Sound(source, items, moved, stack[i])
OnceInv == \A p \in Page : Settled(p) => AtMost(source, items, stack, yielded, p)
ReachedInv ==
  outcome # "raised" => \A p \in Page : Wanted(p) => AtLeast(source, items, stack, yielded, p)
CoverInv == Tree(items) /\ SoundInv /\ OnceInv /\ ReachedInv

LEMMA InitCovers == ASSUME WalkAssumption, Init PROVE CoverInv
<1>0. TypesInv  BY InitTypes
<1>1. Tree(items)  BY InitTree DEF Init
<1> DEFINE f == Frame(IF source = "space" THEN "children" ELSE "page", Root)
<1>2. stack = <<f>> /\ yielded = <<>>  BY DEF Init
<1>3. /\ f.op = IF source = "space" THEN "children" ELSE "page"
      /\ f.page = Root /\ f.start = 0
  BY DEF Frame
<1> HIDE DEF f
<1>4. DOMAIN stack = {1} /\ stack[1] = f  BY <1>2
<1>5. DOMAIN yielded = {}  BY <1>2
<1>6. SoundInv
  <2>1. Sound(source, items, moved, f)  BY <1>3 DEF Sound
  <2> QED  BY <1>4, <2>1 DEF SoundInv
<1>7. OnceInv  BY <1>4, <1>5 DEF OnceInv, AtMost
<1>8. ASSUME NEW p \in Page, Wanted(p)  PROVE Covers(source, items, f, p)
  <2>1. CASE source # "space"
    BY <1>3, <1>8, <2>1 DEF Wanted, Covers, Aim
  <2>2. CASE source = "space"
    <3> DEFINE s == But(items[Root], Text)
    <3>1. items[Root] \in Seq(Item) /\ p # Text  BY <1>0 DEF TypesInv, WalkAssumption
    <3>2. s \in Seq(Item \ {Text}) /\ Range(s) = Range(items[Root]) \ {Text}
      BY <3>1, ButProperties
    <3>3. p \in Range(items[Root])  BY <1>8, <2>2 DEF Wanted
    <3> HIDE DEF s
    <3>a. p \in Range(s)  BY <3>1, <3>2, <3>3
    <3>4. PICK i \in DOMAIN s : s[i] = p  BY <3>a DEF Range
    <3>5. i > 0
      <4>1. DOMAIN s = 1..Len(s) /\ Len(s) \in Nat  BY <3>2, LenProperties
      <4> QED  BY <4>1
    <3>6. s[i] \in Aim(source, items, p)  BY <2>2, <3>4 DEF Aim
    <3>7. \E j \in DOMAIN But(items[f.page], Text) :
             j > f.start /\ But(items[f.page], Text)[j] \in Aim(source, items, p)
      BY <1>3, <3>5, <3>6 DEF s
    <3> QED  BY <1>3, <2>2, <3>7 DEF Covers
  <2> QED  BY <2>1, <2>2
<1>9. ReachedInv  BY <1>4, <1>8 DEF ReachedInv, AtLeast
<1> QED  BY <1>1, <1>6, <1>7, <1>9 DEF CoverInv

(* A step of the walk: nothing is left out, or the page it failed to read   *)
(* is lost.                                                                 *)
LEMMA GoesCovers ==
  ASSUME WalkAssumption, TypesInv, CoverInv, outcome = "walking",
         NEW fs \in Seq(Frames(source)), Continue(fs), Shares(Top, fs),
         \/ Passes(Top, fs) /\ lost' = lost
         \/ Top.op # "child" /\ lost' = lost \cup {Top.page}
  PROVE  CoverInv'
<1>1. /\ stack \in Seq(Frames(source)) /\ stack # <<>> /\ Top = stack[1] /\ Top.page \in Page
      /\ yielded \in Seq(Document)
  BY TopFrame DEF TypesInv
<1>2. /\ stack' = fs \o Tail(stack)
      /\ UNCHANGED <<source, items, moved, grown, shrunk>>
  BY DEF Continue, tree
<1> DEFINE new == fs \o Tail(stack)
<1>3. Pushed(stack, fs, new)  BY <1>1, StackParts
<1> HIDE DEF new
<1>4. stack' = new  BY <1>2 DEF new
<1>5. Tree(items)'  BY <1>2 DEF CoverInv
<1>6. \A i \in DOMAIN stack : Sound(source, items, moved, stack[i])
  BY DEF CoverInv, SoundInv
<1>7. \A i \in DOMAIN new : Sound(source, items, moved, new[i])
  <2>1. \A i \in DOMAIN new : (i \in DOMAIN fs /\ new[i] = fs[i])
                              \/ \E k \in DOMAIN stack : new[i] = stack[k]
    BY <1>3 DEF Pushed
  <2> QED  BY <1>6, <2>1 DEF Shares
<1>8. SoundInv'  BY <1>2, <1>4, <1>7 DEF SoundInv
<1>9. ASSUME NEW p \in Page, Settled(p)'  PROVE AtMost(source, items, stack, yielded, p)'
  <2>1. Settled(p) /\ Still(p)  BY <1>2, <1>9 DEF Settled, Still
  <2>2. AtMost(source, items, stack, yielded, p)  BY <2>1 DEF CoverInv, OnceInv
  <2>3. Splits(source, items, p, stack[1], fs, yielded, yielded')  BY <1>1, <2>1 DEF Shares
  <2>4. AtMost(source, items, new, yielded', p)  BY <1>1, <2>2, <2>3, SharedOut DEF new
  <2> QED  BY <1>2, <1>4, <2>4
<1>10. OnceInv'  BY <1>9 DEF OnceInv
<1>11. ASSUME NEW p \in Page, Wanted(p)'  PROVE AtLeast(source, items, stack, yielded, p)'
  <2>1. Wanted(p) /\ Due(p) /\ Still(p)
    BY <1>2, <1>11 DEF Wanted, Due, Still
  <2>2. AtLeast(source, items, stack, yielded, p)
    BY <2>1 DEF CoverInv, ReachedInv
  <2>3. Splits(source, items, p, stack[1], fs, yielded, yielded')  BY <1>1, <2>1 DEF Shares
  <2>4. Hands(source, items, p, stack[1], fs, yielded, yielded')
    <3>1. CASE Passes(Top, fs)  BY <1>1, <2>1, <3>1 DEF Passes
    <3>2. CASE Top.op # "child" /\ lost' = lost \cup {Top.page}
      <4>1. Top.page \notin Chain(items, p)  BY <1>2, <1>11, <3>2 DEF Wanted
      <4>2. Sound(source, items, moved, Top)
        <5>1. 1 \in DOMAIN stack  BY <1>3 DEF Pushed
        <5> QED  BY <1>1, <1>6, <5>1
      <4>3. ~Covers(source, items, Top, p)
        <5> DEFINE f == Top
        <5>1. f.page \in Page /\ f.op # "child" /\ Sound(source, items, moved, f)
              /\ f.page \notin Chain(items, p)
          BY <1>1, <3>2, <4>1, <4>2
        <5>2. Tree(items)  BY DEF CoverInv
        <5> HIDE DEF f
        <5>3. ~Covers(source, items, f, p)  BY <2>1, <5>1, <5>2, CoversBelow
        <5> QED  BY <5>3 DEF f
      <4> QED  BY <1>1, <4>3 DEF Hands
    <3> QED  BY <3>1, <3>2
  <2>5. AtLeast(source, items, new, yielded', p)  BY <1>1, <2>2, <2>3, <2>4, HandedOn DEF new
  <2> QED  BY <1>2, <1>4, <2>5
<1>12. ReachedInv'  BY <1>11 DEF ReachedInv
<1> QED  BY <1>5, <1>8, <1>10, <1>12 DEF CoverInv

LEMMA RaiseCovers ==
  ASSUME TypesInv, CoverInv, Raise, lost \subseteq lost'
  PROVE  CoverInv'
<1>1. /\ stack' = <<>> /\ outcome' = "raised"
      /\ UNCHANGED <<source, items, moved, grown, shrunk, yielded>>
  BY DEF Raise, tree
<1>2. DOMAIN stack' = {}  BY <1>1
<1>3. Tree(items)' /\ SoundInv' /\ ReachedInv'
  BY <1>1, <1>2 DEF CoverInv, SoundInv, ReachedInv
<1>4. ASSUME NEW p \in Page, Settled(p)'  PROVE AtMost(source, items, stack, yielded, p)'
  <2>1. Settled(p)  BY <1>1, <1>4 DEF Settled, Still
  <2>2. AtMost(source, items, stack, yielded, p)  BY <2>1 DEF CoverInv, OnceInv
  <2> QED  BY <1>1, <1>2, <2>2 DEF AtMost
<1>5. OnceInv'  BY <1>4 DEF OnceInv
<1> QED  BY <1>3, <1>5 DEF CoverInv

(* A refused request is sent again: nothing has changed.                    *)
LEMMA SameCovers ==
  ASSUME CoverInv, UNCHANGED <<source, items, stack, yielded, outcome, lost, moved, grown, shrunk>>
  PROVE  CoverInv'
BY DEF CoverInv, SoundInv, OnceInv, ReachedInv, Settled, Wanted, Due, Still

-------------------------------------------------------------------------------
(* Moves.                                                                   *)

(* A page m that is not on the line to p moves: what covered p still does,  *)
(* if no listing on that line moves up.                                     *)
LEMMA CoversKept ==
  ASSUME WalkAssumption, NEW src, NEW its, Tree(its), NEW jts \in [Page -> Seq(Item)],
         NEW m \in Page, NEW p \in Page, m \notin Chain(its, p), Chain(jts, p) = Chain(its, p),
         AlikeBut(its, jts, m), NEW f \in Frames(src),
         src # "notion" => \A x \in Chain(its, p) : x # p => Lifts(its[x], jts[x]),
         Covers(src, its, f, p)
  PROVE  Covers(src, jts, f, p)
<1> DEFINE T == Chain(its, p)
<1>1. f.page \in Page /\ f.start \in Nat /\ (f.op = "children" => src # "notion")
  BY DEF Frames
<1>2. p \in T /\ T \subseteq Page /\ Aim(src, jts, p) = Aim(src, its, p)
  BY ChainUp DEF Aim
<1>3. \A y : y # m => (y \in Range(Left(jts, f)) <=> y \in Range(Left(its, f)))
  BY <1>1 DEF Left, AlikeBut
<1>4. CASE f.op = "page" \/ f.op = "child"
  BY <1>2, <1>4 DEF Covers
<1>5. CASE f.op = "blocks"
  <2>1. f.page = p \/ (~f.entry /\ \E c \in Ahead(its, f) : c \in T)  BY <1>5 DEF Covers
  <2>2. \A c \in T : c \in Ahead(its, f) => c \in Ahead(jts, f)  BY <1>3 DEF Ahead
  <2>3. f.page = p \/ (~f.entry /\ Ahead(jts, f) \cap Chain(jts, p) # {})  BY <2>1, <2>2
  <2> QED  BY <1>5, <2>3 DEF Covers
<1>6. CASE f.op = "query"
  <2>1. p \in Range(Left(its, f))  BY <1>6 DEF Covers
  <2>2. p \in Range(Left(jts, f))  BY <1>2, <1>3, <2>1
  <2> QED  BY <1>6, <2>2 DEF Covers
<1>7. CASE f.op = "children"
  <2> DEFINE x == f.page
             s == But(its[x], Text)
             t == But(jts[x], Text)
  <2>1. PICK i \in DOMAIN s : i > f.start /\ s[i] \in Aim(src, its, p)  BY <1>7 DEF Covers
  <2>2. its[x] \in Seq(Item) /\ jts[x] \in Seq(Item)  BY <1>1 DEF Tree
  <2>3. s \in Seq(Item \ {Text}) /\ t \in Seq(Item \ {Text}) /\ Range(s) = Range(its[x]) \ {Text}
    BY <2>2, ButProperties
  <2> HIDE DEF s, t
  <2>4. s[i] \in Range(s)  BY DEF Range
  <2>5. s[i] \in Range(its[x]) /\ s[i] \in T
    <3>1. s[i] \in T  BY <1>2, <2>1 DEF Aim
    <3> QED  BY <2>3, <2>4, <3>1
  <2>6. x \in T  BY <1>1, <1>2, <2>5, ChainUp DEF Up
  <2>7. x # p  BY <2>5, NotAboveItself
  <2>8. Lifts(its[x], jts[x])  BY <1>1, <1>7, <2>6, <2>7
  <2>9. PICK k \in DOMAIN t : k >= i /\ t[k] = s[i]  BY <2>8 DEF Lifts, s, t
  <2>10. k > f.start
    <3>1. DOMAIN s = 1..Len(s) /\ DOMAIN t = 1..Len(t) /\ Len(s) \in Nat /\ Len(t) \in Nat
      BY <2>3, LenProperties
    <3> QED  BY <1>1, <2>1, <2>9, <3>1
  <2>11. t[k] \in Aim(src, jts, p)  BY <1>2, <2>1, <2>9
  <2>12. \E l \in DOMAIN But(jts[f.page], Text) :
            l > f.start /\ But(jts[f.page], Text)[l] \in Aim(src, jts, p)
    BY <2>10, <2>11 DEF t
  <2> QED  BY <1>7, <2>12 DEF Covers
<1> QED  BY <1>4, <1>5, <1>6, <1>7 DEF Covers

LEMMA MoveSound ==
  ASSUME WalkAssumption, NEW src, NEW its, NEW jts, Tree(jts), NEW m \in Page, NEW mvd,
         AlikeBut(its, jts, m), NEW f \in Frames(src), Sound(src, its, mvd, f)
  PROVE  Sound(src, jts, mvd \cup {m}, f)
<1>1. f.page \in Page /\ m # Text  BY DEF Frames, WalkAssumption
<1>2. \A y : y # m => (y \in Range(jts[f.page]) <=> y \in Range(its[f.page]))
  BY <1>1 DEF AlikeBut
<1>3. f.rest = None => Left(jts, f) = jts[f.page] /\ Left(its, f) = its[f.page]  BY DEF Left
<1>4. f.rest # None => Left(jts, f) = Left(its, f)  BY DEF Left
<1>5. ASSUME Holds(its, mvd, f)  PROVE Holds(jts, mvd \cup {m}, f)
  <2>1. CASE f.rest = None
    <3>1. f.refs = <<>>  BY <1>5, <2>1 DEF Holds
    <3>2. Range(f.refs) = {} /\ DOMAIN f.refs = {}  BY <3>1 DEF Range
    <3>3. \A x \in Ahead(jts, f) : x \in Range(jts[f.page])  BY <1>3, <2>1, <3>2 DEF Ahead
    <3>4. Distinct(Left(jts, f))  BY <1>1, <1>3, <2>1 DEF Tree
    <3>5. Distinct(f.refs)  BY <3>2 DEF Distinct
    <3> QED  BY <3>1, <3>2, <3>3, <3>4, <3>5 DEF Holds
  <2>2. CASE f.rest # None
    <3>1. Left(jts, f) = Left(its, f)  BY <1>4, <2>2
    <3>2. Ahead(jts, f) = Ahead(its, f)  BY <3>1 DEF Ahead
    <3>3. \A x \in Ahead(jts, f) \ (mvd \cup {m}) : x \in Range(jts[f.page])
      <4>1. \A x \in Ahead(its, f) \ mvd : x \in Range(its[f.page])  BY <1>5 DEF Holds
      <4> QED  BY <1>2, <3>2, <4>1
    <3>4. /\ Distinct(Left(its, f)) /\ Distinct(f.refs)
          /\ \A x : ~(x \in Range(f.refs) /\ x \in Range(Left(its, f)))
      BY <1>5 DEF Holds
    <3> QED  BY <2>2, <3>1, <3>3, <3>4 DEF Holds
  <2> QED  BY <2>1, <2>2
<1>6. (Text \in Range(its[f.page]) => f.text \/ Text \in Range(Left(its, f)))
        => (Text \in Range(jts[f.page]) => f.text \/ Text \in Range(Left(jts, f)))
  BY <1>1, <1>2, <1>3, <1>4
<1>7. Text \in Range(jts[f.page]) <=> Text \in Range(its[f.page])  BY <1>1, <1>2
<1> QED  BY <1>5, <1>6, <1>7 DEF Sound

LEMMA MoveCovers ==
  ASSUME WalkAssumption, TypesInv, CoverInv, NEW m \in Page, Move(m)
  PROVE  CoverInv'
<1> DEFINE jts == items'
<1>1. /\ moved' = moved \cup {m}
      /\ grown' = grown \cup {q \in Page : m \in Range(items'[q])}
      /\ shrunk' = shrunk \cup {q \in Page : m \in Range(items[q])}
      /\ UNCHANGED <<source, stack, yielded, outcome, lost>>
  BY DEF Move
<1>2. Moves(items, jts, m) /\ m # Root  BY MoveMoves
<1>3. items \in [Page -> Seq(Item)] /\ jts \in [Page -> Seq(Item)]  BY <1>2 DEF TypesInv, Moves
<1>4. Tree(items) /\ Tree(jts)  BY <1>2, TreeMoved DEF CoverInv
<1>5. /\ AlikeBut(items, jts, m) /\ AlikeBut(jts, items, m)
      /\ \A x \in Page : \A y : y # m => (y \in Range(jts[x]) <=> y \in Range(items[x]))
  BY <1>2, <1>3, MovedItems DEF AlikeBut
<1>6. \A x \in Page : /\ m \notin Range(jts[x]) => Lifts(jts[x], items[x])
                      /\ m \notin Range(items[x]) => Lifts(items[x], jts[x])
  BY <1>2, <1>3, RelistedLifts DEF Moves
<1>7. stack \in Seq(Frames(source)) /\ \A i \in DOMAIN stack : stack[i] \in Frames(source)
  <2>1. stack \in Seq(Frames(source))  BY DEF TypesInv
  <2> QED  BY <2>1, LenProperties, ElementOfSeq
<1> HIDE DEF jts
<1>8. \A i \in DOMAIN stack : Sound(source, jts, moved \cup {m}, stack[i])
  BY <1>4, <1>5, <1>7, MoveSound DEF CoverInv, SoundInv
<1>9. SoundInv'  BY <1>1, <1>8 DEF SoundInv, jts
<1>10. ASSUME NEW p \in Page, m \notin Chain(jts, p)
       PROVE  Chain(jts, p) = Chain(items, p) /\ m # p /\ p \in Chain(items, p)
  <2>1. Chain(jts, p) = Chain(items, p)  BY <1>5, <1>10, LineStays
  <2> QED  BY <1>10, <2>1, ChainUp
<1>11. ASSUME NEW p \in Page, Settled(p)'
       PROVE  AtMost(source, items, stack, yielded, p)'
  <2>1. m \notin Chain(jts, p)  BY <1>1, <1>11 DEF Settled, Still, jts
  <2>2. Chain(jts, p) = Chain(items, p)  BY <1>10, <2>1
  <2>3. Settled(p)  BY <1>1, <1>11, <2>2 DEF Settled, Still, jts
  <2>4. AtMost(source, items, stack, yielded, p)  BY <2>3 DEF CoverInv, OnceInv
  <2>5. source # "notion" => \A x \in Chain(jts, p) : x # p => Lifts(jts[x], items[x])
    <3> SUFFICES ASSUME source # "notion", NEW x \in Chain(jts, p), x # p
                 PROVE  Lifts(jts[x], items[x])
      OBVIOUS
    <3>1. x \in Page  BY ChainUp
    <3>2. x \notin grown'  BY <1>1, <1>11 DEF Settled, jts
    <3>3. m \notin Range(jts[x])  BY <1>1, <3>1, <3>2 DEF jts
    <3> QED  BY <1>6, <3>1, <3>3
  <2>6. \A i \in DOMAIN stack : Covers(source, jts, stack[i], p) => Covers(source, items, stack[i], p)
    BY <1>3, <1>4, <1>5, <1>7, <2>1, <2>2, <2>5, CoversKept
  <2>7. AtMost(source, jts, stack, yielded, p)  BY <2>4, <2>6 DEF AtMost
  <2> QED  BY <1>1, <2>7 DEF jts
<1>12. OnceInv'  BY <1>11 DEF OnceInv
<1>13. ASSUME outcome # "raised", NEW p \in Page, Wanted(p)'
       PROVE  AtLeast(source, items, stack, yielded, p)'
  <2>1. m \notin Chain(jts, p)  BY <1>1, <1>13 DEF Wanted, Due, Still, jts
  <2>2. Chain(jts, p) = Chain(items, p) /\ m # p /\ m # Text  BY <1>10, <2>1 DEF WalkAssumption
  <2>a. Root \in Page /\ Database \subseteq Page  BY DEF WalkAssumption
  <2>b. \A x \in Page : /\ Text \in Range(jts[x]) <=> Text \in Range(items[x])
                        /\ p \in Range(jts[x]) <=> p \in Range(items[x])
    BY <1>5, <2>2
  <2>3. Wanted(p)
    <3>1. Due(p)  BY <1>1, <1>13, <2>2, <2>a, <2>b DEF Wanted, Due, Still, jts
    <3> QED  BY <1>1, <1>13, <2>2, <2>a, <2>b, <3>1 DEF Wanted, jts
  <2>4. AtLeast(source, items, stack, yielded, p)  BY <1>13, <2>3 DEF CoverInv, ReachedInv
  <2>5. source # "notion" => \A x \in Chain(items, p) : x # p => Lifts(items[x], jts[x])
    <3> SUFFICES ASSUME source # "notion", NEW x \in Chain(items, p), x # p
                 PROVE  Lifts(items[x], jts[x])
      OBVIOUS
    <3>1. x \in Page  BY ChainUp
    <3>2. x \notin shrunk'  BY <1>1, <1>13, <2>2 DEF Wanted, jts
    <3>3. m \notin Range(items[x])  BY <1>1, <3>1, <3>2
    <3> QED  BY <1>6, <3>1, <3>3
  <2>6. \A i \in DOMAIN stack : Covers(source, items, stack[i], p) => Covers(source, jts, stack[i], p)
    <3>1. m \notin Chain(items, p)  BY <2>1, <2>2
    <3> QED  BY <1>3, <1>4, <1>5, <1>7, <2>2, <2>5, <3>1, CoversKept
  <2>7. AtLeast(source, jts, stack, yielded, p)  BY <2>4, <2>6 DEF AtLeast
  <2> QED  BY <1>1, <2>7 DEF jts
<1>14. ReachedInv'  BY <1>1, <1>13 DEF ReachedInv
<1> QED  BY <1>4, <1>9, <1>12, <1>14 DEF CoverInv, jts

-------------------------------------------------------------------------------
(* The theorems.                                                            *)

LEMMA NextCovers == ASSUME WalkAssumption, TypesInv, CoverInv, [Next]_vars PROVE CoverInv'
<1>1. ASSUME outcome = "walking"  PROVE Sound(source, items, moved, Top) /\ Tree(items)
  <2>1. stack \in Seq(Frames(source)) /\ stack # <<>> /\ Top = stack[1]  BY <1>1, TopFrame
  <2>2. 1 \in DOMAIN stack  BY <2>1, LenProperties, EmptySeq
  <2> QED  BY <2>1, <2>2 DEF CoverInv, SoundInv
<1>2. CASE GetPage \/ GetBlocks \/ Query \/ ListChildren \/ Child
  <2>1. outcome = "walking" /\ lost' = lost  BY <1>2, StepsGo
  <2>2. Covered
    BY <1>1, <1>2, <2>1, GetPageCovers, GetBlocksCovers, QueryCovers, ListChildrenCovers,
       ChildCovers
  <2>3. PICK fs \in Seq(Frames(source)) : Continue(fs) /\ Shares(Top, fs) /\ Passes(Top, fs)
    BY <2>2 DEF Covered
  <2> QED  BY <2>1, <2>3, GoesCovers
<1>3. ASSUME outcome = "walking", Top.op # "child", Failed \/ Raise, lost' = lost \cup {Top.page}
      PROVE  CoverInv'
  <2>1. CASE Raise
    <3>1. lost \subseteq lost'  BY <1>3
    <3> QED  BY <2>1, <3>1, RaiseCovers
  <2>2. CASE Failed /\ ~Raise
    <3>1. PICK fs \in Seq(Frames(source)) : Continue(fs) /\ Shares(Top, fs)
      BY <1>1, <1>3, <2>2, FailedCovers
    <3> QED  BY <1>3, <3>1, GoesCovers
  <2> QED  BY <1>3, <2>1, <2>2
<1>4. CASE Refused
  BY <1>4, SameCovers DEF Refused, tree
<1>5. CASE Gone
  BY <1>3, <1>5 DEF Gone
<1>6. CASE Error
  BY <1>3, <1>6 DEF Error
<1>7. ASSUME NEW p \in Page, Move(p)  PROVE CoverInv'
  BY <1>7, MoveCovers
<1>8. CASE UNCHANGED vars
  BY <1>8, SameCovers DEF vars, tree
<1> QED  BY <1>2, <1>4, <1>5, <1>6, <1>7, <1>8 DEF Next, Step

LEMMA CoverHolds == Spec => []CoverInv
<1> USE WalkAssumption
<1>1. Init => CoverInv  BY InitCovers
<1>2. TypesInv /\ CoverInv /\ [Next]_vars => CoverInv'  BY NextCovers
<1> QED  BY <1>1, <1>2, TypesHold, PTL DEF Spec

LEMMA LineOf ==
  ASSUME WalkAssumption, TypesInv, NEW p \in Page
  PROVE  /\ \A x : x \in Line(p) <=> x \in Chain(items, p)
         /\ \A x : x \in Ancestors(p) <=> x \in Chain(items, p) /\ x # p
         /\ Exists(p) <=> Root \in Chain(items, p)
<1>1. \A x \in Page : p \in Under({x}) <=> x \in Chain(items, p)
  BY LineIsChain DEF TypesInv
<1>2. Chain(items, p) \subseteq Page /\ p \in Chain(items, p) /\ Root \in Page
  BY ChainUp DEF WalkAssumption
<1> QED  BY <1>1, <1>2 DEF Line, Ancestors, Exists

(* How often a page was yielded whole, by the places of its documents.      *)
LEMMA TimesOf ==
  ASSUME TypesInv, NEW p
  PROVE  /\ (\A k, l \in DOMAIN yielded : yielded[k] = Whole(p) /\ yielded[l] = Whole(p) => k = l)
              => ~(Times(p) > 1)
         /\ (\E k \in DOMAIN yielded : yielded[k] = Whole(p)) => Times(p) # 0
<1> DEFINE D == {i \in DOMAIN yielded : yielded[i] = [page |-> p, whole |-> TRUE]}
<1>1. Times(p) = Cardinality(D)  BY DEF Times
<1>2. \A i : i \in D <=> i \in DOMAIN yielded /\ yielded[i] = Whole(p)  BY DEF Whole
<1>3. IsFiniteSet(D)
  <2>1. Len(yielded) \in Nat /\ DOMAIN yielded = 1..Len(yielded)
    BY LenProperties DEF TypesInv
  <2>2. IsFiniteSet(1..Len(yielded))  BY <2>1, FS_Interval
  <2>3. D \subseteq 1..Len(yielded)  BY <2>1
  <2> HIDE DEF D
  <2> QED  BY <2>2, <2>3, FS_Subset
<1> HIDE DEF D
<1>4. ASSUME \A k, l \in DOMAIN yielded : yielded[k] = Whole(p) /\ yielded[l] = Whole(p) => k = l
      PROVE  ~(Times(p) > 1)
  <2>1. CASE D = {}
    <3>1. Cardinality(D) = 0  BY <2>1, FS_EmptySet
    <3> QED  BY <1>1, <3>1
  <2>2. CASE D # {}
    <3>1. PICK i : i \in D  BY <2>2
    <3>2. D = {i}  BY <1>2, <1>4, <3>1
    <3>3. Cardinality(D) = 1  BY <3>2, FS_Singleton
    <3> QED  BY <1>1, <3>3
  <2> QED  BY <2>1, <2>2
<1>5. ASSUME NEW k \in DOMAIN yielded, yielded[k] = Whole(p)  PROVE Times(p) # 0
  <2>1. D # {}  BY <1>2, <1>5
  <2>2. Cardinality(D) # 0  BY <1>3, <2>1, FS_EmptySet
  <2> QED  BY <1>1, <2>2
<1> QED  BY <1>4, <1>5

(* No walk yields a page twice unless that page, or one above it, was       *)
(* moved, or a page came into a Confluence listing above it: the offset     *)
(* then names a child already delivered (confluence.py, _fetch_children,    *)
(* and _iter_blocks and _process_database of notion.py).                    *)
THEOREM RepeatsHaveAReason == Spec => []RepeatedPagesHaveAReason
<1> USE WalkAssumption
<1>1. TypesInv /\ CoverInv => RepeatedPagesHaveAReason
  <2> SUFFICES ASSUME TypesInv, CoverInv, NEW p \in Page, Times(p) > 1,
                      ~(Line(p) \cap moved # {}),
                      ~(source # "notion" /\ Ancestors(p) \cap grown # {})
               PROVE  FALSE
    BY DEF RepeatedPagesHaveAReason
  <2>1. /\ \A x : x \in Line(p) <=> x \in Chain(items, p)
        /\ \A x : x \in Ancestors(p) <=> x \in Chain(items, p) /\ x # p
    BY LineOf
  <2>2. Settled(p)  BY <2>1 DEF Settled, Still
  <2>3. AtMost(source, items, stack, yielded, p)  BY <2>2 DEF CoverInv, OnceInv
  <2> QED  BY <2>3, TimesOf DEF AtMost
<1> QED  BY <1>1, TypesHold, CoverHolds, PTL

(* A walk that returns has yielded every page it is meant to, whole, unless *)
(* that page or one above it was moved or could not be read, or a page left *)
(* a Confluence listing above it and what followed it there moved up, past  *)
(* the offset (confluence.py, _fetch_children; notion.py, _fetch_page_tree  *)
(* and _iter_blocks).                                                       *)
THEOREM MissesHaveAReason == Spec => []MissedPagesHaveAReason
<1> USE WalkAssumption
<1>1. TypesInv /\ CoverInv => MissedPagesHaveAReason
  <2> SUFFICES ASSUME TypesInv, CoverInv, outcome = "returned",
                      NEW p \in Page, Meant(p), Times(p) = 0,
                      ~(Line(p) \cap (moved \cup lost) # {}),
                      ~(source # "notion" /\ Ancestors(p) \cap shrunk # {})
               PROVE  FALSE
    BY DEF MissedPagesHaveAReason
  <2>1. /\ \A x : x \in Line(p) <=> x \in Chain(items, p)
        /\ \A x : x \in Ancestors(p) <=> x \in Chain(items, p) /\ x # p
        /\ Exists(p) <=> Root \in Chain(items, p)
    BY LineOf
  <2>2. \A x \in Page : Range(Children(x)) = Range(items[x]) \ {Text}
    <3>1. \A x \in Page : items[x] \in Seq(Item)  BY DEF TypesInv
    <3> QED  BY <3>1, ButProperties DEF Children
  <2>3. Due(p)
    <3>1. Still(p)  BY <2>1 DEF Still
    <3>2. ASSUME source = "notion", NEW d \in Database \cap Chain(items, p), d # p
          PROVE  p \in Range(items[d])
      <4>1. d \in Page /\ d \in Database \cap Ancestors(p)  BY <2>1, <3>2 DEF WalkAssumption
      <4>2. p \in Range(Children(d))  BY <3>2, <4>1 DEF Meant
      <4> QED  BY <2>2, <4>1, <4>2
    <3> QED  BY <3>1, <3>2 DEF Due, Meant, HasText
  <2>4. Wanted(p)
    <3>1. source = "space" => p \in Range(items[Root])
      BY <2>2 DEF Meant, WalkAssumption
    <3> QED  BY <2>1, <2>3, <3>1 DEF Wanted, Meant
  <2>5. AtLeast(source, items, stack, yielded, p)  BY <2>4 DEF CoverInv, ReachedInv
  <2>6. DOMAIN stack = {}
    <3>1. stack = <<>>  BY DEF TypesInv
    <3> QED  BY <3>1
  <2> QED  BY <2>5, <2>6, TimesOf DEF AtLeast
<1> QED  BY <1>1, TypesHold, CoverHolds, PTL
==============================================================================
