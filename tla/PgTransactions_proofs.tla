------------------------- MODULE PgTransactions_proofs -------------------------
(***************************************************************************)
(* Theorems about PgTransactions, for any number of workers, clients and   *)
(* findings, any reviews and any retention.                                *)
(***************************************************************************)
EXTENDS PgTransactions, FiniteSetTheorems, SequenceTheorems, TLAPS

-------------------------------------------------------------------------------
(* The statements of the methods.                                          *)

LEMMA Concatenation ==
  ASSUME NEW S, NEW s \in Seq(S), NEW t \in Seq(S)
  PROVE  /\ s \o t \in Seq(S)
         /\ Len(s) \in Nat /\ Len(t) \in Nat /\ Len(s \o t) = Len(s) + Len(t)
         /\ \A i \in 1..Len(s) : (s \o t)[i] = s[i]
         /\ \A i \in 1..Len(t) : (s \o t)[Len(s) + i] = t[i]
<1>1. Len(s) \in Nat /\ Len(t) \in Nat  BY LenProperties
<1>2. /\ s \o t \in Seq(S) /\ Len(s \o t) = Len(s) + Len(t)
      /\ \A i \in 1..Len(s) + Len(t) :
           (s \o t)[i] = IF i <= Len(s) THEN s[i] ELSE t[i - Len(s)]
  BY ConcatProperties
<1>3. \A i \in 1..Len(s) : (s \o t)[i] = s[i]  BY <1>1, <1>2
<1>4. ASSUME NEW i \in 1..Len(t)  PROVE (s \o t)[Len(s) + i] = t[i]
  <2>1. Len(s) + i \in 1..Len(s) + Len(t) /\ ~(Len(s) + i <= Len(s)) /\ (Len(s) + i) - Len(s) = i
    BY <1>1
  <2> QED  BY <1>2, <2>1
<1> QED  BY <1>1, <1>2, <1>3, <1>4

LEMMA Listing ==
  ASSUME NEW S, IsFiniteSet(S)
  PROVE  /\ SetToSeq(S) \in Seq(S)
         /\ \A x \in S : \E i \in 1..Len(SetToSeq(S)) : SetToSeq(S)[i] = x
<1> DEFINE n == Cardinality(S)
           q == SetToSeq(S)
<1>1. n \in Nat /\ ExistsBijection(1..n, S)  BY FS_CardinalityType
<1>2. \E f \in [1..n -> S] : IsInjective(f)
  BY <1>1 DEF ExistsBijection, Bijection, Injection
<1>3. q \in [1..n -> S] /\ IsInjective(q)
  BY <1>2 DEF SetToSeq
<1>4. q \in Injection(1..n, S)  BY <1>3 DEF Injection
<1>5. IsFiniteSet(1..n) /\ Cardinality(1..n) = n  BY <1>1, FS_Interval
<1>6. q \in Surjection(1..n, S)  BY <1>4, <1>5, FS_Injection
<1>7. q \in Seq(S) /\ Len(q) = n  BY <1>1, <1>3
<1> QED  BY <1>6, <1>7 DEF Surjection

(* What the storage methods lock, and what completing a scan selects.      *)
Lock ==
  {LeaseRow} \cup {<<table, "write">> : table \in Table} \cup {<<f, "own">> : f \in Finding}

Selecting(res, f) == <<IF f \in DOMAIN res THEN f ELSE "others", "select">>

Selection(res) == {Selecting(res, f) : f \in Finding} \cup {<<"others", "select">>}

LEMMA SyncSelectsEveryFinding ==
  ASSUME NEW res, DOMAIN res \subseteq Finding
  PROVE  /\ SyncStatements(res) \in Seq(Lock \cup Selection(res))
         /\ \A f \in Finding : \E i \in 1..Len(SyncStatements(res)) :
              SyncStatements(res)[i] = Selecting(res, f)
<1> DEFINE S == Lock \cup Selection(res)
           detected == SetToSeq(DOMAIN res)
           others == SetToSeq(Finding \ DOMAIN res)
           n == Len(detected)
           m == Len(others)
           Sync(f) == << <<f, "select">>, Touch(f)[1], Touch(f)[2]>>
           first == [i \in 1..(3 * n) |-> Sync(detected[(i + 2) \div 3])[((i - 1) % 3) + 1]]
           middle == << <<"others", "select">> >>
           last == [i \in 1..(2 * m) |-> Touch(others[(i + 1) \div 2])[((i - 1) % 2) + 1]]
<1>1. /\ detected \in Seq(DOMAIN res)
      /\ \A f \in DOMAIN res : \E i \in 1..n : detected[i] = f
  <2>1. IsFiniteSet(DOMAIN res)  BY PgAssumption, FS_Subset
  <2> QED  BY <2>1, Listing
<1>2. others \in Seq(Finding \ DOMAIN res)
  <2>1. IsFiniteSet(Finding \ DOMAIN res)  BY PgAssumption, FS_Subset
  <2> QED  BY <2>1, Listing
<1>3. n \in Nat /\ m \in Nat  BY <1>1, <1>2
<1> HIDE DEF detected, others, n, m
<1>4. \A f \in DOMAIN res :
        /\ Sync(f)[1] = Selecting(res, f) /\ Sync(f)[1] \in S
        /\ Sync(f)[2] \in S /\ Sync(f)[3] \in S
  BY DEF Selecting, Selection, Touch, Lock, Table
<1>5. \A f \in Finding : Touch(f)[1] \in S /\ Touch(f)[2] \in S
  BY DEF Touch, Lock, Table
<1> HIDE DEF Sync, S
<1>6. first \in Seq(S) /\ Len(first) = 3 * n
  <2>1. ASSUME NEW i \in 1..(3 * n)
        PROVE  Sync(detected[(i + 2) \div 3])[((i - 1) % 3) + 1] \in S
    <3>1. (i + 2) \div 3 \in 1..n /\ ((i - 1) % 3) + 1 \in {1, 2, 3}
      BY <1>3
    <3>2. detected[(i + 2) \div 3] \in DOMAIN res
      BY <1>1, <3>1 DEF n
    <3> QED  BY <1>4, <3>1, <3>2
  <2>2. first \in [1..(3 * n) -> S]  BY <2>1
  <2> QED  BY <1>3, <2>2
<1>7. last \in Seq(S) /\ Len(last) = 2 * m
  <2>1. ASSUME NEW i \in 1..(2 * m)
        PROVE  Touch(others[(i + 1) \div 2])[((i - 1) % 2) + 1] \in S
    <3>1. (i + 1) \div 2 \in 1..m /\ ((i - 1) % 2) + 1 \in {1, 2}
      BY <1>3
    <3>2. others[(i + 1) \div 2] \in Finding
      BY <1>2, <3>1 DEF m
    <3> QED  BY <1>5, <3>1, <3>2
  <2>2. last \in [1..(2 * m) -> S]  BY <2>1
  <2> QED  BY <1>3, <2>2
<1>8. middle \in Seq(S) /\ Len(middle) = 1
  BY DEF Selection, S
<1>9. SyncStatements(res) = (first \o middle) \o last
  BY DEF SyncStatements, detected, others, n, m, Sync
<1> HIDE DEF first, last, middle
<1> DEFINE q == first \o middle
<1>10. /\ q \in Seq(S) /\ Len(q) = 3 * n + 1 /\ q[3 * n + 1] = middle[1]
       /\ \A i \in 1..(3 * n) : q[i] = first[i]
  <2>1. /\ q \in Seq(S) /\ Len(q) = Len(first) + Len(middle)
        /\ \A i \in 1..Len(first) : q[i] = first[i]
        /\ \A i \in 1..Len(middle) : q[Len(first) + i] = middle[i]
    BY <1>6, <1>8, Concatenation
  <2>2. q[Len(first) + 1] = middle[1]
    BY <1>8, <2>1
  <2> QED  BY <1>6, <1>8, <2>1, <2>2
<1>11. /\ SyncStatements(res) \in Seq(S)
       /\ Len(SyncStatements(res)) = 3 * n + 1 + 2 * m
       /\ SyncStatements(res)[3 * n + 1] = middle[1]
       /\ \A i \in 1..(3 * n) : SyncStatements(res)[i] = first[i]
  <2>1. SyncStatements(res) = q \o last  BY <1>9
  <2> HIDE DEF q
  <2>a. q \in Seq(S)  BY <1>10
  <2>b. last \in Seq(S)  BY <1>7
  <2>2. /\ q \o last \in Seq(S) /\ Len(q \o last) = Len(q) + Len(last)
        /\ \A i \in 1..Len(q) : (q \o last)[i] = q[i]
    BY <2>a, <2>b, Concatenation
  <2>3. 3 * n + 1 \in 1..(3 * n + 1) /\ \A i \in 1..(3 * n) : i \in 1..(3 * n + 1)
    BY <1>3
  <2> QED  BY <1>7, <1>10, <2>1, <2>2, <2>3
<1>12. ASSUME NEW f \in Finding
       PROVE  \E i \in 1..Len(SyncStatements(res)) : SyncStatements(res)[i] = Selecting(res, f)
  <2>1. CASE f \in DOMAIN res
    <3>1. PICK j \in 1..n : detected[j] = f  BY <1>1, <2>1
    <3>2. /\ 3 * j - 2 \in 1..(3 * n)
          /\ ((3 * j - 2) + 2) \div 3 = j /\ (((3 * j - 2) - 1) % 3) + 1 = 1
      BY <1>3, <3>1
    <3>3. first[3 * j - 2] = Sync(f)[1]
      BY <3>1, <3>2 DEF first
    <3>4. 3 * j - 2 \in 1..Len(SyncStatements(res))
      BY <1>3, <1>11, <3>2
    <3>5. SyncStatements(res)[3 * j - 2] = Selecting(res, f)
      BY <1>4, <1>11, <2>1, <3>2, <3>3
    <3> QED  BY <3>4, <3>5
  <2>2. CASE f \notin DOMAIN res
    <3>1. SyncStatements(res)[3 * n + 1] = Selecting(res, f)
      BY <1>11, <2>2 DEF middle, Selecting
    <3> QED  BY <1>3, <1>11, <3>1
  <2> QED  BY <2>1, <2>2
<1> QED  BY <1>11, <1>12 DEF S

-------------------------------------------------------------------------------
(* The inductive invariant.                                                *)

(* The methods that lock the lease row first.                              *)
OwnerCall == {"start_scan", "store_document", "store_result", "complete_scan_with_findings",
  "fail_scan", "prune_scans", "end_scan", "renew_lease"}
LeasedCall == OwnerCall \cup {"try_start_scan", "clear_all_if_idle"}
ScanWrite == {"store_document", "store_result", "complete_scan_with_findings", "fail_scan"}

Holding(s) == call[s] \in LeasedCall /\ at[s] > 1

(* The lease row is a mutex.                                               *)
OneHolder == \A s, t \in Session : Holding(s) /\ Holding(t) => s = t

(* What a method found in the row stays true until it commits.             *)
HolderMayWrite ==
  \A s \in Session : Holding(s) =>
    /\ call[s] \in OwnerCall => lease.owner = TokenOf(s)
    /\ call[s] \in ScanWrite => scans[s] = "running"

(* How far a scan is when its worker makes a call.                         *)
ScanProgress ==
  \A w \in Worker :
    /\ call[w] \in {"try_start_scan", "start_scan"} => scans[w] = "none"
    /\ scans[w] = "running" =>
         /\ call[w] \in {"get_previous_hashes", "store_document"} => rows[w] = {}
         /\ call[w] = "store_result" => rows[w] = {"documents"}
         /\ call[w] = "complete_scan_with_findings" => rows[w] = {"documents", "audit_results"}

RequestsMatch ==
  \A c \in Client :
    /\ call[c] # "closed" => request[c] \in Request
    /\ call[c] \notin {"closed", "connect"} => call[c] = request[c].op

(* Only the session that completes a scan has selected findings; nobody    *)
(* has added or deleted one since, or changed its scan and evidence.       *)
ReadsStand ==
  \A w \in Worker :
    /\ DOMAIN read[w] # {} => Holding(w) /\ call[w] = "complete_scan_with_findings"
    /\ \A f \in DOMAIN read[w] :
         /\ read[w][f] # None <=> f \in DOMAIN finding
         /\ f \in DOMAIN finding => read[w][f].hash = finding[f].hash
                                    /\ read[w][f].seen = finding[f].seen

Completing(res) == <<LeaseRow>> \o SyncStatements(res) \o << <<"scans", "write">> >>

(* Its statements so far have selected what they are to select.            *)
ReadsCover ==
  \A w \in Worker : call[w] = "complete_scan_with_findings" =>
    \A i \in 1..(at[w] - 1), f \in Finding :
      Completing(results[w])[i] = Selecting(results[w], f) => f \in DOMAIN read[w]

IInv ==
  /\ TypeOK /\ RequestsMatch
  /\ OneHolder /\ HolderMayWrite
  /\ ScanProgress /\ RowsMatchStatus /\ FindingsOfCompletedScans
  /\ ReadsStand /\ ReadsCover

-------------------------------------------------------------------------------
(* What a session may lock.                                                *)
Share == {<<table, "share">> : table \in Table}

Locks(s) ==
  CASE call[s] = "complete_scan_with_findings" -> Lock \cup Selection(results[s])
    [] call[s] = "connect" -> Share
    [] OTHER -> Lock

LEMMA CallsOfSessions ==
  ASSUME TypeOK, RequestsMatch, NEW s \in Session
  PROVE  /\ s \in Worker \/ s \in Client
         /\ s \in Worker => call[s] \in WorkerCall
         /\ s \in Client => call[s] \in {"closed", "connect", "renew_lease", "update_workflow",
                                         "clear_all_if_idle", "get_scan_state"}
         /\ call[s] = "update_workflow" =>
              s \in Client /\ request[s].key \in Finding /\ request[s].state \in State
         /\ call[s] = "renew_lease" => s \in Client /\ request[s].token \in Worker
         /\ call[s] \in {"try_start_scan", "start_scan", "end_scan", "prune_scans"} \cup ScanWrite =>
              s \in Worker
<1>1. s \in Worker \/ s \in Client  BY DEF Session
<1>2. CASE s \in Worker
  <2>1. call[s] \in WorkerCall /\ s \notin Client  BY <1>2, PgAssumption DEF TypeOK
  <2> QED  BY <1>2, <2>1 DEF WorkerCall
<1>3. CASE s \in Client
  <2>1. call[s] \in ClientCall /\ s \notin Worker  BY <1>3, PgAssumption DEF TypeOK
  <2>2. call[s] \in {"closed", "connect", "renew_lease", "update_workflow",
                    "clear_all_if_idle", "get_scan_state"}
    BY <2>1 DEF ClientCall, Request
  <2>3. call[s] = "update_workflow" => request[s].key \in Finding /\ request[s].state \in State
    BY <1>3, PgAssumption DEF RequestsMatch, Request
  <2>4. call[s] = "renew_lease" => request[s].token \in Worker
    BY <1>3 DEF RequestsMatch, Request
  <2> QED  BY <1>3, <2>1, <2>2, <2>3, <2>4 DEF ScanWrite
<1> QED  BY <1>1, <1>2, <1>3

LEMMA StartsWithLease ==
  ASSUME NEW S, LeaseRow \in S, NEW t \in Seq(S)
  PROVE  /\ <<LeaseRow>> \o t \in Seq(S)
         /\ Len(<<LeaseRow>> \o t) = Len(t) + 1 /\ Len(t) \in Nat
         /\ (<<LeaseRow>> \o t)[1] = LeaseRow
         /\ \A i \in 1..Len(t) : (<<LeaseRow>> \o t)[i + 1] = t[i]
<1> DEFINE one == <<LeaseRow>>
<1>1. one \in Seq(S)  OBVIOUS
<1>2. Len(one) = 1 /\ one[1] = LeaseRow  OBVIOUS
<1> HIDE DEF one
<1>3. /\ one \o t \in Seq(S)
      /\ Len(t) \in Nat /\ Len(one \o t) = Len(one) + Len(t)
      /\ \A i \in 1..Len(one) : (one \o t)[i] = one[i]
      /\ \A i \in 1..Len(t) : (one \o t)[Len(one) + i] = t[i]
  BY <1>1, Concatenation
<1>4. (one \o t)[1] = LeaseRow  BY <1>2, <1>3
<1>5. \A i \in 1..Len(t) : (one \o t)[i + 1] = t[i]
  <2> TAKE i \in 1..Len(t)
  <2>1. Len(one) + i = i + 1  BY <1>2
  <2> QED  BY <1>3, <2>1
<1>6. Len(one \o t) = Len(t) + 1  BY <1>2, <1>3
<1> QED  BY <1>3, <1>4, <1>5, <1>6 DEF one

LEMMA CompletingStatements ==
  ASSUME NEW res, DOMAIN res \subseteq Finding
  PROVE  /\ Completing(res) \in Seq(Lock \cup Selection(res))
         /\ Len(Completing(res)) \in Nat \ {0} /\ Completing(res)[1] = LeaseRow
         /\ \A f \in Finding : \E i \in 1..Len(Completing(res)) :
              Completing(res)[i] = Selecting(res, f)
<1> DEFINE S == Lock \cup Selection(res)
           sync == SyncStatements(res)
           last == << <<"scans", "write">> >>
           q == <<LeaseRow>> \o sync
<1>1. sync \in Seq(S)  BY SyncSelectsEveryFinding
<1>2. \A f \in Finding : \E i \in 1..Len(sync) : sync[i] = Selecting(res, f)
  BY SyncSelectsEveryFinding
<1>3. LeaseRow \in S  BY DEF Lock
<1>4. last \in Seq(S)
  <2>1. <<"scans", "write">> \in S  BY DEF Lock, Table
  <2> HIDE DEF S
  <2> QED  BY <2>1
<1>5. Completing(res) = q \o last  BY DEF Completing
<1> HIDE DEF S, sync, last
<1>6. q \in Seq(S)  BY <1>1, <1>3, StartsWithLease
<1>7. /\ Len(q) = Len(sync) + 1 /\ Len(sync) \in Nat /\ q[1] = LeaseRow
      /\ \A i \in 1..Len(sync) : q[i + 1] = sync[i]
  BY <1>1, <1>3, StartsWithLease
<1> HIDE DEF q
<1>8. q \o last \in Seq(S)  BY <1>4, <1>6
<1>9. /\ Len(q \o last) = Len(q) + Len(last) /\ Len(last) \in Nat
      /\ \A i \in 1..Len(q) : (q \o last)[i] = q[i]
  BY <1>4, <1>6, Concatenation
<1>10. Len(q \o last) \in Nat \ {0} /\ (q \o last)[1] = LeaseRow
  BY <1>7, <1>9
<1>11. ASSUME NEW f \in Finding
       PROVE  \E i \in 1..Len(q \o last) : (q \o last)[i] = Selecting(res, f)
  <2>1. PICK i \in 1..Len(sync) : sync[i] = Selecting(res, f)  BY <1>2
  <2>2. i + 1 \in 1..Len(q) /\ i + 1 \in 1..Len(q \o last)  BY <1>7, <1>9
  <2>3. (q \o last)[i + 1] = Selecting(res, f)  BY <1>7, <1>9, <2>1, <2>2
  <2> QED  BY <2>2, <2>3
<1> QED  BY <1>5, <1>8, <1>10, <1>11 DEF S

LeaseFirst(S) == {q \in Seq(S) : Len(q) \in Nat \ {0} /\ q[1] = LeaseRow}

LEMMA LeaseFirstExtends ==
  ASSUME NEW S, NEW q \in LeaseFirst(S), NEW t \in Seq(S)
  PROVE  q \o t \in LeaseFirst(S)
<1>1. q \in Seq(S)  BY DEF LeaseFirst
<1>2. Len(q) \in Nat \ {0} /\ q[1] = LeaseRow  BY DEF LeaseFirst
<1>3. q \o t \in Seq(S)  BY <1>1
<1>4. /\ Len(t) \in Nat /\ Len(q \o t) = Len(q) + Len(t)
      /\ \A i \in 1..Len(q) : (q \o t)[i] = q[i]
  BY <1>1, Concatenation
<1>5. Len(q \o t) \in Nat \ {0} /\ (q \o t)[1] = LeaseRow  BY <1>2, <1>4
<1> QED  BY <1>3, <1>5 DEF LeaseFirst

LEMMA LeaseRowFirst ==
  /\ <<LeaseRow>> \in LeaseFirst(Lock) /\ <<>> \in Seq(Lock) /\ ScanRows \in Seq(Lock)
  /\ \A table \in Table : << <<table, "write">> >> \in Seq(Lock)
                         /\ <<LeaseRow, <<table, "write">> >> \in LeaseFirst(Lock)
<1>1. LeaseRow \in Lock /\ \A table \in Table : <<table, "write">> \in Lock
  BY DEF Lock
<1>2. <<"audit_results", "write">> \in Lock /\ <<"documents", "write">> \in Lock
      /\ <<"scans", "write">> \in Lock
  BY <1>1 DEF Table
<1> DEFINE one == <<LeaseRow>>
<1>3. one \in Seq(Lock)  BY <1>1
<1>4. Len(one) \in Nat \ {0} /\ one[1] = LeaseRow  OBVIOUS
<1>5. ASSUME NEW table \in Table
      PROVE  << <<table, "write">> >> \in Seq(Lock)
             /\ <<LeaseRow, <<table, "write">> >> \in LeaseFirst(Lock)
  <2> DEFINE x == <<table, "write">>
             two == <<LeaseRow, x>>
  <2>1. x \in Lock  BY <1>1
  <2> HIDE DEF x
  <2>2. <<x>> \in Seq(Lock)  BY <2>1
  <2>3. two \in Seq(Lock)  BY <1>1, <2>1
  <2>4. Len(two) \in Nat \ {0} /\ two[1] = LeaseRow  OBVIOUS
  <2> HIDE DEF two
  <2>5. two \in LeaseFirst(Lock)  BY <2>3, <2>4 DEF LeaseFirst
  <2> QED  BY <2>2, <2>5 DEF x, two
<1>6. ScanRows \in Seq(Lock)  BY <1>2 DEF ScanRows
<1>7. <<>> \in Seq(Lock)  OBVIOUS
<1> HIDE DEF one
<1>8. one \in LeaseFirst(Lock)  BY <1>3, <1>4 DEF LeaseFirst
<1> QED  BY <1>5, <1>6, <1>7, <1>8 DEF one

LEMMA ClearLocksTheLeaseFirst ==
  ASSUME TypeOK
  PROVE  ClearStatements \in LeaseFirst(Lock)
<1> DEFINE own == {<<f, "own">> : f \in DOMAIN finding}
           q == <<LeaseRow>> \o ScanRows
           r == q \o << <<"finding_workflow", "write">> >>
<1>1. IsFiniteSet(own)
  <2>1. IsFiniteSet(Finding \X {"own"})  BY PgAssumption, FS_Singleton, FS_Product
  <2>2. own \subseteq Finding \X {"own"}  BY DEF TypeOK
  <2> QED  BY <2>1, <2>2, FS_Subset
<1>2. own \subseteq Lock  BY DEF TypeOK, Lock
<1>3. SetToSeq(own) \in Seq(own)  BY <1>1, Listing
<1>4. SetToSeq(own) \in Seq(Lock)
  <2> DEFINE t == SetToSeq(own)
  <2>1. t \in Seq(own)  BY <1>3
  <2> HIDE DEF t, own
  <2> QED  BY <1>2, <2>1 DEF t
<1> HIDE DEF own
<1>5. q \in LeaseFirst(Lock)  BY LeaseRowFirst, LeaseFirstExtends
<1> HIDE DEF q
<1>6. r \in LeaseFirst(Lock)
  <2>1. << <<"finding_workflow", "write">> >> \in Seq(Lock)  BY LeaseRowFirst DEF Table
  <2> QED  BY <1>5, <2>1, LeaseFirstExtends
<1> HIDE DEF r
<1>7. r \o SetToSeq(own) \in LeaseFirst(Lock)  BY <1>4, <1>6, LeaseFirstExtends
<1> QED  BY <1>7 DEF ClearStatements, q, r, own

LEMMA StatementsOfSessions ==
  ASSUME TypeOK, RequestsMatch, NEW s \in Session
  PROVE  /\ call[s] \in LeasedCall => Statements(s) \in LeaseFirst(Locks(s))
         /\ Statements(s) \in Seq(Locks(s))
         /\ call[s] = "complete_scan_with_findings" => Statements(s) = Completing(results[s])
         /\ call[s] = "update_workflow" => Len(Statements(s)) = 2
                                         /\ Statements(s)[1] = <<"finding_workflow", "write">>
<1> USE CallsOfSessions
<1>0. call[s] \in {"complete_scan_with_findings", "connect"} \/ Locks(s) = Lock
  BY DEF Locks
<1>1. CASE call[s] = "complete_scan_with_findings"
  <2>1. DOMAIN results[s] \subseteq Finding  BY <1>1 DEF TypeOK, ScanWrite
  <2>2. Completing(results[s]) \in LeaseFirst(Lock \cup Selection(results[s]))
    BY <2>1, CompletingStatements DEF LeaseFirst
  <2>3. Statements(s) = Completing(results[s])
    BY <1>1 DEF Statements, Completing
  <2>4. Locks(s) = Lock \cup Selection(results[s])  BY <1>1 DEF Locks
  <2> QED  BY <1>1, <2>2, <2>3, <2>4 DEF LeaseFirst
<1>2. CASE call[s] = "connect"
  <2>1. Locks(s) = Share  BY <1>2 DEF Locks
  <2>2. Statements(s) = SchemaDDL  BY <1>2 DEF Statements
  <2>3. /\ <<"scans", "share">> \in Share /\ <<"documents", "share">> \in Share
        /\ <<"audit_results", "share">> \in Share /\ <<"finding_workflow", "share">> \in Share
    BY DEF Share, Table
  <2>4. SchemaDDL \in Seq(Share)
    <3> HIDE DEF Share
    <3> QED  BY <2>3 DEF SchemaDDL
  <2> QED  BY <1>2, <2>1, <2>2, <2>4 DEF LeasedCall, OwnerCall
<1>3. CASE call[s] = "update_workflow"
  <2>1. Statements(s) = Touch(request[s].key)  BY <1>3 DEF Statements
  <2> DEFINE x == <<"finding_workflow", "write">>
             y == <<request[s].key, "own">>
             two == <<x, y>>
  <2>2. x \in Lock /\ y \in Lock  BY <1>3 DEF Lock, Table
  <2> HIDE DEF x, y
  <2>3. two \in Seq(Lock)  BY <2>2
  <2>4. Len(two) = 2 /\ two[1] = x  OBVIOUS
  <2>5. Statements(s) = two  BY <2>1 DEF Touch, x, y
  <2> HIDE DEF two
  <2> QED  BY <1>0, <1>3, <2>3, <2>4, <2>5 DEF LeasedCall, OwnerCall, x
<1>4. CASE call[s] \in LeasedCall \ {"complete_scan_with_findings"}
  <2>1. Statements(s) \in LeaseFirst(Lock)
    <3>1. CASE call[s] \in {"start_scan", "store_document", "store_result"}
      <4>1. Statements(s) \in {<<LeaseRow, <<table, "write">> >> : table \in Table}
        BY <3>1 DEF Statements, Table
      <4> QED  BY <4>1, LeaseRowFirst
    <3>2. CASE call[s] \in {"try_start_scan", "fail_scan", "prune_scans"}
      <4>1. Statements(s) \in {<<LeaseRow>> \o ScanRows, <<LeaseRow>> \o <<>>}
        BY <3>2 DEF Statements
      <4> QED  BY <4>1, LeaseRowFirst, LeaseFirstExtends
    <3>3. CASE call[s] \in {"end_scan", "renew_lease"}
      <4>1. Statements(s) = <<LeaseRow>>  BY <3>3 DEF Statements
      <4> QED  BY <4>1, LeaseRowFirst
    <3>4. CASE call[s] = "clear_all_if_idle"
      <4>1. Statements(s) = ClearStatements  BY <3>4 DEF Statements
      <4> QED  BY <4>1, ClearLocksTheLeaseFirst
    <3> QED  BY <1>4, <3>1, <3>2, <3>3, <3>4 DEF LeasedCall, OwnerCall
  <2>2. Statements(s) \in Seq(Lock)  BY <2>1 DEF LeaseFirst
  <2>3. call[s] \notin {"complete_scan_with_findings", "connect", "update_workflow"}
    BY <1>4 DEF LeasedCall, OwnerCall
  <2> QED  BY <1>0, <2>1, <2>2, <2>3
<1>5. CASE call[s] \notin LeasedCall \cup {"connect", "update_workflow"}
  <2>1. Statements(s) = <<>>  BY <1>5 DEF Statements, LeasedCall, OwnerCall
  <2> QED  BY <1>0, <1>5, <2>1, LeaseRowFirst DEF LeasedCall, OwnerCall
<1> QED  BY <1>1, <1>2, <1>3, <1>4, <1>5

-------------------------------------------------------------------------------
(* The steps, and what each does to the sessions.                          *)

(* A session leaves its method, refused, failed, deadlocked or crashed.    *)
Leaves(s) ==
  /\ \E next \in IF s \in Worker THEN {"end_scan", "fail_scan", "done"} ELSE {"closed"} :
       Return(s, next)
  /\ UNCHANGED data

LEMMA Steps ==
  ASSUME [Next]_vars
  PROVE  \/ \E c \in Client : \E r \in Request : Open(c, r)
         \/ \E s \in Session : Select(s) \/ Execute(s) \/ Leaves(s) \/ Commit(s)
         \/ Expire \/ (\E f \in Finding : SnoozeEnds(f))
         \/ UNCHANGED vars
<1>1. ASSUME NEW s \in Session, Raise(s)  PROVE Leaves(s)
  BY <1>1 DEF Raise, Leaves, AfterError
<1>2. ASSUME NEW s \in Session, Refuse(s)  PROVE Leaves(s)
  BY <1>2 DEF Refuse, Leaves, AfterRefusal
<1>3. ASSUME NEW w \in Worker, ReadFails(w) \/ Crash(w)  PROVE Leaves(w)
  BY <1>3 DEF ReadFails, Crash, Leaves
<1>4. ASSUME DeadlockDetected  PROVE \E s \in Session : Raise(s)
  BY <1>4 DEF DeadlockDetected, Deadlocks
<1>5. Worker \subseteq Session  BY DEF Session
<1>6. ASSUME NEW s \in Session, Step(s) \/ StatementFails(s)
      PROVE  Select(s) \/ Execute(s) \/ Leaves(s) \/ Commit(s)
  BY <1>1, <1>2, <1>6 DEF Step, StatementFails, NotNullViolation
<1> QED  BY <1>1, <1>3, <1>4, <1>5, <1>6 DEF Next

LEMMA ReturnEffect ==
  ASSUME TypeOK, NEW s \in Session, NEW next, Return(s, next)
  PROVE  /\ call'[s] = next /\ at'[s] = 1
         /\ s \in Worker => DOMAIN read'[s] = {}
         /\ s \in Client /\ next # "closed" => request'[s] = request[s]
         /\ \A t \in Session \ {s} :
              /\ call'[t] = call[t] /\ at'[t] = at[t]
              /\ t \in Worker => read'[t] = read[t] /\ results'[t] = results[t]
              /\ t \in Client => request'[t] = request[t]
<1>1. call'[s] = next /\ at'[s] = 1  BY DEF TypeOK, Return
<1>2. s \in Worker => DOMAIN read'[s] = {}  BY DEF TypeOK, Return, Nothing
<1>3. s \in Client /\ next # "closed" => request'[s] = request[s]  BY DEF Return
<1>4. ASSUME NEW t \in Session \ {s}
      PROVE  /\ call'[t] = call[t] /\ at'[t] = at[t]
             /\ t \in Worker => read'[t] = read[t] /\ results'[t] = results[t]
             /\ t \in Client => request'[t] = request[t]
  <2>1. call'[t] = call[t] /\ at'[t] = at[t]  BY DEF TypeOK, Return
  <2>2. t \in Worker => read'[t] = read[t]  BY DEF TypeOK, Return
  <2>3. t \in Worker => results'[t] = results[t]  BY DEF TypeOK, Return
  <2>4. t \in Client => request'[t] = request[t]  BY DEF TypeOK, Return
  <2> QED  BY <2>1, <2>2, <2>3, <2>4
<1> QED  BY <1>1, <1>2, <1>3, <1>4

(* The two halves of TypeOK.                                               *)
DataTypes ==
  /\ lease \in [owner : Worker \cup {None}, live : BOOLEAN]
  /\ lease.owner = None => ~lease.live
  /\ scans \in [Worker -> {"none", "running", "completed", "failed", "gone"}]
  /\ rows \in [Worker -> SUBSET {"documents", "audit_results"}]
  /\ order \in Seq(Worker)
  /\ DOMAIN finding \subseteq Finding /\ finding \in [DOMAIN finding -> FindingRow]

ResultsTyped(w) == /\ DOMAIN results[w] \subseteq Finding
                   /\ results[w] \in [DOMAIN results[w] -> Evidence]
ReadTyped(w) == /\ DOMAIN read[w] \subseteq Finding
                /\ read[w] \in [DOMAIN read[w] -> FindingRow \cup {None}]

SessionTypes ==
  /\ DOMAIN call = Session /\ DOMAIN results = Worker /\ DOMAIN read = Worker
  /\ \A w \in Worker : call[w] \in WorkerCall
  /\ \A c \in Client : call[c] \in ClientCall
  /\ request \in [Client -> Request \cup {None}]
  /\ at \in [Session -> Nat \ {0}] /\ early \in [Session -> BOOLEAN]
  /\ \A w \in Worker : ResultsTyped(w) /\ ReadTyped(w)
  /\ served \in 0..MaxRequests

LEMMA TypeOKHalves == TypeOK <=> DataTypes /\ SessionTypes
  BY DEF TypeOK, DataTypes, SessionTypes, ResultsTyped, ReadTyped

LEMMA ReturnTypes ==
  ASSUME TypeOK, NEW s \in Session, NEW next, Return(s, next),
         s \in Worker => next \in WorkerCall, s \in Client => next \in ClientCall
  PROVE  SessionTypes'
<1>1. SessionTypes  BY TypeOKHalves
<1>2. DOMAIN call' = Session /\ DOMAIN results' = Worker /\ DOMAIN read' = Worker
  BY <1>1 DEF Return, SessionTypes
<1>3. (\A w \in Worker : call'[w] \in WorkerCall) /\ (\A c \in Client : call'[c] \in ClientCall)
  BY <1>1 DEF Return, SessionTypes, Session
<1>4. request' \in [Client -> Request \cup {None}]
  BY <1>1 DEF Return, SessionTypes
<1>5. at' \in [Session -> Nat \ {0}] /\ early' \in [Session -> BOOLEAN]
  BY <1>1 DEF Return, SessionTypes
<1>6. ASSUME NEW w \in Worker  PROVE ResultsTyped(w)' /\ ReadTyped(w)'
  <2>1. CASE w = s
    <3>1. read'[w] = Nothing  BY <1>1, <2>1 DEF Return, SessionTypes
    <3>2. PICK res \in Results(s, next) : results'[w] = res
      BY <1>1, <2>1 DEF Return, SessionTypes
    <3>3. DOMAIN res \subseteq Finding /\ res \in [DOMAIN res -> Evidence]
      BY DEF Results, Nothing
    <3> QED  BY <3>1, <3>2, <3>3 DEF ResultsTyped, ReadTyped, Nothing
  <2>2. CASE w # s
    <3>1. read'[w] = read[w] /\ results'[w] = results[w]
      BY <2>2, ReturnEffect DEF Session
    <3> QED  BY <1>1, <3>1 DEF SessionTypes, ResultsTyped, ReadTyped
  <2> QED  BY <2>1, <2>2
<1>7. served' \in 0..MaxRequests  BY <1>1 DEF Return, SessionTypes
<1> QED  BY <1>2, <1>3, <1>4, <1>5, <1>6, <1>7 DEF SessionTypes

-------------------------------------------------------------------------------
(* What steps do to the database.                                          *)

(* Reviews and ending snoozes are all that happens between the commits of  *)
(* leased methods.                                                         *)
Quiet ==
  /\ lease'.owner = lease.owner /\ UNCHANGED <<scans, rows, order>>
  /\ DOMAIN finding' = DOMAIN finding
  /\ \A f \in DOMAIN finding :
       finding'[f].hash = finding[f].hash /\ finding'[f].seen = finding[f].seen

LeasedCommit(s) == call[s] \in LeasedCall /\ Commit(s)

LEMMA QuietSteps ==
  ASSUME TypeOK, RequestsMatch, [Next]_vars, \A s \in Session : ~LeasedCommit(s)
  PROVE  Quiet /\ DataTypes'
<1>1. DataTypes  BY TypeOKHalves
<1>2. CASE UNCHANGED data
  BY <1>1, <1>2 DEF data, Quiet, DataTypes
<1>3. ASSUME NEW s \in Session, call[s] = "update_workflow", Commit(s)
      PROVE  Quiet /\ DataTypes'
  <2>1. request[s].state \in State  BY <1>3, CallsOfSessions
  <2>2. UNCHANGED <<lease, scans, rows, order>>
        /\ finding' = [f \in DOMAIN finding |->
             IF f = request[s].key THEN Reviewed(finding[f], request[s]) ELSE finding[f]]
    BY <1>3 DEF Commit, Write
  <2>3. ASSUME NEW f \in DOMAIN finding
        PROVE  /\ finding'[f] \in FindingRow
               /\ finding'[f].hash = finding[f].hash /\ finding'[f].seen = finding[f].seen
    <3>1. finding[f] \in FindingRow  BY <1>1 DEF DataTypes
    <3>2. CASE f = request[s].key
      <4> DEFINE until == IF request[s].state = "snoozed" THEN "ahead" ELSE None
      <4>1. finding'[f] = [finding[f] EXCEPT !.state = request[s].state, !.until = until]
        BY <2>2, <3>2 DEF Reviewed
      <4>2. until \in {None, "ahead", "over"}  OBVIOUS
      <4> HIDE DEF until
      <4> QED  BY <2>1, <3>1, <4>1, <4>2 DEF FindingRow
    <3>3. CASE f # request[s].key  BY <2>2, <3>1, <3>3
    <3> QED  BY <3>2, <3>3
  <2> QED  BY <1>1, <2>2, <2>3 DEF Quiet, DataTypes
<1>4. ASSUME NEW s \in Session, call[s] # "update_workflow", Commit(s)
      PROVE  UNCHANGED data
  BY <1>4 DEF LeasedCommit, LeasedCall, OwnerCall, Commit, Write
<1>5. CASE Expire
  BY <1>1, <1>5 DEF Expire, Quiet, DataTypes
<1>6. ASSUME NEW f \in Finding, SnoozeEnds(f)
      PROVE  Quiet /\ DataTypes'
  <2>1. UNCHANGED <<lease, scans, rows, order>> /\ f \in DOMAIN finding
        /\ finding' = [finding EXCEPT ![f].until = "over"]
    BY <1>6 DEF SnoozeEnds
  <2>2. ASSUME NEW g \in DOMAIN finding
        PROVE  /\ finding'[g] \in FindingRow
               /\ finding'[g].hash = finding[g].hash /\ finding'[g].seen = finding[g].seen
    <3>1. finding[g] \in FindingRow  BY <1>1 DEF DataTypes
    <3>2. CASE g = f
      <4>1. finding'[g] = [finding[g] EXCEPT !.until = "over"]  BY <2>1, <3>2
      <4> QED  BY <3>1, <4>1 DEF FindingRow
    <3>3. CASE g # f  BY <2>1, <3>1, <3>3
    <3> QED  BY <3>2, <3>3
  <2>3. finding' = [g \in DOMAIN finding |-> finding'[g]]  BY <2>1
  <2> QED  BY <1>1, <2>1, <2>2, <2>3 DEF Quiet, DataTypes
<1>7. ASSUME NEW c \in Client, NEW r \in Request, Open(c, r)  PROVE UNCHANGED data
  BY <1>7 DEF Open
<1>8. ASSUME NEW s \in Session, Select(s) \/ Execute(s) \/ Leaves(s)  PROVE UNCHANGED data
  BY <1>8 DEF Select, Execute, Leaves
<1>9. UNCHANGED vars => UNCHANGED data  BY DEF vars
<1> QED  BY Steps, <1>2, <1>3, <1>4, <1>5, <1>6, <1>7, <1>8, <1>9

LEMMA CommittersHold ==
  ASSUME TypeOK, RequestsMatch, NEW s \in Session, LeasedCommit(s)
  PROVE  Holding(s)
<1>1. Len(Statements(s)) \in Nat \ {0}
  BY StatementsOfSessions DEF LeasedCommit, LeaseFirst
<1> QED  BY <1>1 DEF LeasedCommit, Commit, Holding

LEMMA SyncedRows ==
  ASSUME TypeOK, ReadsStand, NEW w \in Worker, NEW f \in DOMAIN finding \cup DOMAIN results[w],
         f \in DOMAIN read[w]
  PROVE  LET new == Synced(w, f, RowOf(f), read[w][f]) IN
         /\ new \in FindingRow
         /\ new.seen = w \/ (f \in DOMAIN finding /\ new.seen = finding[f].seen)
<1> DEFINE old == read[w][f]
           new == Synced(w, f, RowOf(f), old)
<1>1. f \in DOMAIN results[w] => results[w][f] \in Evidence  BY DEF TypeOK
<1>2. f \in DOMAIN finding => RowOf(f) \in FindingRow /\ RowOf(f) = finding[f]
  BY DEF TypeOK, RowOf
<1>3. old # None <=> f \in DOMAIN finding  BY DEF ReadsStand
<1>4. CASE f \in DOMAIN results[w] /\ (old = None \/ Reopens(old, results[w][f]))
  <2>1. new = [state |-> "open", hash |-> results[w][f], until |-> None, seen |-> w]
    BY <1>4 DEF Synced
  <2> QED  BY <1>1, <1>4, <2>1 DEF FindingRow, State
<1>5. CASE f \in DOMAIN results[w] /\ old # None /\ ~Reopens(old, results[w][f])
  <2>1. new = [RowOf(f) EXCEPT !.hash = results[w][f], !.seen = w]
    BY <1>5 DEF Synced
  <2> QED  BY <1>1, <1>2, <1>3, <1>5, <2>1 DEF FindingRow
<1>6. CASE f \notin DOMAIN results[w] /\ old.state # "fixed"
  <2>1. new = [RowOf(f) EXCEPT !.state = "fixed"]
    BY <1>6 DEF Synced
  <2> QED  BY <1>2, <1>6, <2>1 DEF FindingRow, State
<1>7. CASE f \notin DOMAIN results[w] /\ old.state = "fixed"
  <2>1. new = RowOf(f)  BY <1>7 DEF Synced
  <2> QED  BY <1>2, <1>7, <2>1
<1> QED  BY <1>4, <1>5, <1>6, <1>7

-------------------------------------------------------------------------------
(* The commits of the leased methods.                                      *)

Outcome == [w \in Worker |-> Entry(w)]

(* What a commit by s does to the scans; those of the others cannot get    *)
(* any further.                                                            *)
CommitSound(s) ==
  /\ DataTypes' /\ RowsMatchStatus' /\ FindingsOfCompletedScans'
  /\ \A w \in Worker \ {s} :
       /\ scans'[w] = "running" => scans[w] = "running" /\ rows'[w] = rows[w]
       /\ scans[w] = "none" => scans'[w] = "none"
  /\ call[s] = "try_start_scan" => scans'[s] = "none"
  /\ call[s] = "start_scan" => rows'[s] = {}
  /\ call[s] = "store_document" => rows'[s] = {"documents"}
  /\ call[s] = "store_result" => rows'[s] = {"documents", "audit_results"}
  /\ Ledger!Next \/ UNCHANGED Outcome

StateInv ==
  /\ TypeOK /\ RequestsMatch /\ HolderMayWrite
  /\ ScanProgress /\ RowsMatchStatus /\ FindingsOfCompletedScans
  /\ ReadsStand /\ ReadsCover

LEMMA CommittersOwnTheLease ==
  ASSUME StateInv, NEW s \in Session, LeasedCommit(s)
  PROVE  /\ call[s] \in OwnerCall => lease.owner = TokenOf(s)
         /\ call[s] \in ScanWrite => scans[s] = "running"
         /\ Write(s)
         /\ call[s] # "renew_lease" /\ s \in Worker => TokenOf(s) = s
<1>1. Holding(s)  BY CommittersHold DEF StateInv
<1> QED  BY <1>1 DEF StateInv, HolderMayWrite, LeasedCommit, Commit, TokenOf

LEMMA AcquireSound ==
  ASSUME StateInv, NEW s \in Session, LeasedCommit(s), call[s] = "try_start_scan"
  PROVE  CommitSound(s)
<1> USE DEF StateInv
<1>1. s \in Worker /\ DataTypes  BY CallsOfSessions, TypeOKHalves
<1>2. Abandon /\ lease' = [owner |-> s, live |-> TRUE] /\ UNCHANGED <<order, finding>>
  BY CommittersOwnTheLease DEF Write
<1>3. scans[s] = "none"  BY <1>1 DEF ScanProgress
<1>4. CASE Abandons
  <2> DEFINE v == lease.owner
  <2>1. v \in Worker /\ scans[v] = "running" /\ v # s  BY <1>1, <1>3, <1>4 DEF Abandons, DataTypes
  <2>2. scans' = [scans EXCEPT ![v] = "failed"] /\ rows' = [rows EXCEPT ![v] = {}]
    BY <1>2, <1>4 DEF Abandon, Failed
  <2>3. DataTypes'  BY <1>1, <1>2, <2>1, <2>2, PgAssumption DEF DataTypes
  <2>4. RowsMatchStatus'  BY <1>1, <2>1, <2>2 DEF RowsMatchStatus, DataTypes
  <2>5. FindingsOfCompletedScans'
    BY <1>1, <1>2, <2>1, <2>2 DEF FindingsOfCompletedScans, DataTypes, FindingRow
  <2>6. Outcome[v] = "running" /\ Outcome' = [Outcome EXCEPT ![v] = "failed"]
    BY <1>1, <1>2, <1>3, <2>1, <2>2 DEF Outcome, Entry, DataTypes
  <2>7. Ledger!Next
    BY <2>1, <2>6 DEF Ledger!Next, Ledger!Finish, Outcome
  <2>8. /\ scans'[s] = "none"
        /\ \A w \in Worker \ {s} :
             /\ scans'[w] = "running" => scans[w] = "running" /\ rows'[w] = rows[w]
             /\ scans[w] = "none" => scans'[w] = "none"
    BY <1>1, <1>3, <2>1, <2>2 DEF DataTypes
  <2> QED  BY <1>1, <2>3, <2>4, <2>5, <2>7, <2>8 DEF CommitSound
<1>5. CASE ~Abandons
  <2>1. UNCHANGED <<scans, rows>>  BY <1>2, <1>5 DEF Abandon
  <2>2. DataTypes'  BY <1>1, <1>2, <2>1, PgAssumption DEF DataTypes
  <2>3. RowsMatchStatus' /\ FindingsOfCompletedScans'
    BY <1>2, <2>1 DEF RowsMatchStatus, FindingsOfCompletedScans
  <2>4. UNCHANGED Outcome
    BY <1>1, <1>2, <1>3, <1>5, <2>1, PgAssumption DEF Outcome, Entry, Abandons
  <2> QED  BY <1>3, <2>1, <2>2, <2>3, <2>4, <1>1 DEF CommitSound
<1> QED  BY <1>4, <1>5

LEMMA StartSound ==
  ASSUME StateInv, NEW s \in Session, LeasedCommit(s), call[s] = "start_scan"
  PROVE  CommitSound(s)
<1> USE DEF StateInv
<1>1. s \in Worker /\ DataTypes  BY CallsOfSessions, TypeOKHalves
<1>2. /\ lease.owner = s
      /\ scans' = [scans EXCEPT ![s] = "running"] /\ order' = Append(order, s)
      /\ UNCHANGED <<lease, rows, finding>>
  BY <1>1, CommittersOwnTheLease DEF Write, OwnerCall
<1>3. scans[s] = "none" /\ rows[s] = {}  BY <1>1 DEF ScanProgress, RowsMatchStatus
<1>4. order' \in Seq(Worker)  BY <1>1, <1>2 DEF DataTypes
<1>5. DataTypes'  BY <1>1, <1>2, <1>4 DEF DataTypes
<1>6. RowsMatchStatus'  BY <1>1, <1>2, <1>3 DEF RowsMatchStatus, DataTypes
<1>7. FindingsOfCompletedScans'
  BY <1>1, <1>2, <1>3 DEF FindingsOfCompletedScans, DataTypes, FindingRow
<1>8. /\ Outcome[s] = "none" /\ (\A w \in Worker : Outcome[w] # "running")
      /\ Outcome' = [Outcome EXCEPT ![s] = "running"]
  BY <1>1, <1>2, <1>3 DEF Outcome, Entry, DataTypes
<1>9. Ledger!Next
  BY <1>1, <1>8 DEF Ledger!Next, Ledger!Begin, Outcome
<1>10. /\ rows'[s] = {}
       /\ \A w \in Worker \ {s} :
            /\ scans'[w] = "running" => scans[w] = "running" /\ rows'[w] = rows[w]
            /\ scans[w] = "none" => scans'[w] = "none"
  BY <1>1, <1>2, <1>3 DEF DataTypes
<1> QED  BY <1>5, <1>6, <1>7, <1>9, <1>10 DEF CommitSound

LEMMA StoreSound ==
  ASSUME StateInv, NEW s \in Session, LeasedCommit(s),
         call[s] \in {"store_document", "store_result"}
  PROVE  CommitSound(s)
<1> USE DEF StateInv
<1>1. s \in Worker /\ DataTypes  BY CallsOfSessions, TypeOKHalves DEF ScanWrite
<1>2. scans[s] = "running" /\ UNCHANGED <<lease, scans, order, finding>>
  BY CommittersOwnTheLease DEF Write, ScanWrite
<1>3. rows' = [rows EXCEPT ![s] = IF call[s] = "store_document" THEN {"documents"}
                                  ELSE {"documents", "audit_results"}]
  <2>1. call[s] = "store_result" => rows[s] \cup {"audit_results"} = {"documents", "audit_results"}
    BY <1>1, <1>2 DEF ScanProgress
  <2> QED  BY <2>1, CommittersOwnTheLease DEF Write
<1>4. DataTypes'  BY <1>1, <1>2, <1>3 DEF DataTypes
<1>5. RowsMatchStatus'  BY <1>1, <1>2, <1>3 DEF RowsMatchStatus, DataTypes
<1>6. FindingsOfCompletedScans' /\ UNCHANGED Outcome
  BY <1>2 DEF FindingsOfCompletedScans, Outcome, Entry
<1>7. /\ call[s] = "store_document" => rows'[s] = {"documents"}
      /\ call[s] = "store_result" => rows'[s] = {"documents", "audit_results"}
      /\ \A w \in Worker \ {s} : rows'[w] = rows[w]
  BY <1>1, <1>3 DEF DataTypes
<1> QED  BY <1>2, <1>4, <1>5, <1>6, <1>7 DEF CommitSound

LEMMA CompletionHasReadEverything ==
  ASSUME StateInv, NEW s \in Session, LeasedCommit(s), call[s] = "complete_scan_with_findings"
  PROVE  s \in Worker /\ DOMAIN read[s] = Finding
<1> USE DEF StateInv
<1>1. s \in Worker  BY CallsOfSessions DEF ScanWrite
<1>2. DOMAIN results[s] \subseteq Finding /\ DOMAIN read[s] \subseteq Finding
  BY <1>1 DEF TypeOK
<1>3. at[s] = Len(Completing(results[s])) + 1
  BY StatementsOfSessions DEF LeasedCommit, Commit
<1>4. Len(Completing(results[s])) \in Nat
      /\ \A f \in Finding : \E i \in 1..Len(Completing(results[s])) :
           Completing(results[s])[i] = Selecting(results[s], f)
  BY <1>2, CompletingStatements
<1>5. at[s] - 1 = Len(Completing(results[s]))  BY <1>3, <1>4
<1>6. \A f \in Finding : f \in DOMAIN read[s]
  BY <1>1, <1>4, <1>5 DEF ReadsCover
<1> QED  BY <1>1, <1>2, <1>6

LEMMA CompleteSound ==
  ASSUME StateInv, NEW s \in Session, LeasedCommit(s), call[s] = "complete_scan_with_findings"
  PROVE  CommitSound(s)
<1> USE DEF StateInv
<1>1. s \in Worker /\ DataTypes /\ DOMAIN read[s] = Finding
  BY CompletionHasReadEverything, TypeOKHalves
<1>2. /\ lease.owner = s /\ scans[s] = "running"
      /\ SyncFindings(s) /\ scans' = [scans EXCEPT ![s] = "completed"]
      /\ UNCHANGED <<lease, rows, order>>
  BY <1>1, CommittersOwnTheLease DEF Write, OwnerCall, ScanWrite
<1>3. DOMAIN results[s] \subseteq Finding  BY <1>1 DEF TypeOK
<1>4. /\ DOMAIN finding' = DOMAIN finding \cup DOMAIN results[s]
      /\ finding' = [f \in DOMAIN finding' |-> finding'[f]]
      /\ \A f \in DOMAIN finding' :
           /\ finding'[f] \in FindingRow
           /\ finding'[f].seen = s
                \/ (f \in DOMAIN finding /\ finding'[f].seen = finding[f].seen)
  <2>1. /\ DOMAIN finding' = DOMAIN finding \cup DOMAIN results[s]
        /\ finding' = [f \in DOMAIN finding' |-> finding'[f]]
        /\ \A f \in DOMAIN finding' : finding'[f] = Synced(s, f, RowOf(f), read[s][f])
    BY <1>2 DEF SyncFindings
  <2>2. DOMAIN finding' \subseteq DOMAIN read[s]  BY <1>1, <1>3, <2>1 DEF DataTypes
  <2> QED  BY <1>1, <2>1, <2>2, SyncedRows
<1>5. DataTypes'
  BY <1>1, <1>2, <1>3, <1>4 DEF DataTypes
<1>6. RowsMatchStatus'
  BY <1>1, <1>2 DEF RowsMatchStatus, ScanProgress, DataTypes
<1>7. FindingsOfCompletedScans'
  <2> SUFFICES ASSUME NEW f \in DOMAIN finding'
               PROVE  scans'[finding'[f].seen] \in {"completed", "gone"}
    BY DEF FindingsOfCompletedScans
  <2>1. CASE finding'[f].seen = s  BY <1>1, <1>2, <2>1 DEF DataTypes
  <2>2. CASE f \in DOMAIN finding /\ finding'[f].seen = finding[f].seen
    <3>1. finding[f].seen \in Worker /\ scans[finding[f].seen] \in {"completed", "gone"}
      BY <1>1, <2>2 DEF DataTypes, FindingRow, FindingsOfCompletedScans
    <3> QED  BY <1>1, <1>2, <2>2, <3>1 DEF DataTypes
  <2> QED  BY <1>4, <2>1, <2>2
<1>8. Outcome[s] = "running" /\ Outcome' = [Outcome EXCEPT ![s] = "completed"]
  BY <1>1, <1>2 DEF Outcome, Entry, DataTypes
<1>9. Ledger!Next
  BY <1>1, <1>8 DEF Ledger!Next, Ledger!Finish, Outcome
<1>10. \A w \in Worker \ {s} : scans'[w] = scans[w] /\ rows'[w] = rows[w]
  BY <1>1, <1>2 DEF DataTypes
<1> QED  BY <1>5, <1>6, <1>7, <1>9, <1>10 DEF CommitSound

LEMMA FailSound ==
  ASSUME StateInv, NEW s \in Session, LeasedCommit(s), call[s] = "fail_scan"
  PROVE  CommitSound(s)
<1> USE DEF StateInv
<1>1. s \in Worker /\ DataTypes  BY CallsOfSessions, TypeOKHalves DEF ScanWrite
<1>2. /\ lease.owner = s /\ scans[s] = "running"
      /\ scans' = [scans EXCEPT ![s] = "failed"] /\ rows' = [rows EXCEPT ![s] = {}]
      /\ UNCHANGED <<lease, order, finding>>
  BY <1>1, CommittersOwnTheLease DEF Write, Failed, OwnerCall, ScanWrite
<1>3. DataTypes'  BY <1>1, <1>2 DEF DataTypes
<1>4. RowsMatchStatus'  BY <1>1, <1>2 DEF RowsMatchStatus, DataTypes
<1>5. FindingsOfCompletedScans'
  BY <1>1, <1>2 DEF FindingsOfCompletedScans, DataTypes, FindingRow
<1>6. Outcome[s] = "running" /\ Outcome' = [Outcome EXCEPT ![s] = "failed"]
  BY <1>1, <1>2 DEF Outcome, Entry, DataTypes
<1>7. Ledger!Next
  BY <1>1, <1>6 DEF Ledger!Next, Ledger!Finish, Outcome
<1>8. \A w \in Worker \ {s} : scans'[w] = scans[w] /\ rows'[w] = rows[w]
  BY <1>1, <1>2 DEF DataTypes
<1> QED  BY <1>3, <1>4, <1>5, <1>7, <1>8 DEF CommitSound

LEMMA PruneSound ==
  ASSUME StateInv, NEW s \in Session, LeasedCommit(s), call[s] = "prune_scans"
  PROVE  CommitSound(s)
<1> USE DEF StateInv
<1> DEFINE old == {w \in Finished : Cardinality(Older(w)) >= Keep}
<1>1. s \in Worker /\ DataTypes  BY CallsOfSessions, TypeOKHalves
<1>2. /\ scans' = [w \in Worker |-> IF w \in old THEN "gone" ELSE scans[w]]
      /\ rows' = [w \in Worker |-> IF w \in old THEN {} ELSE rows[w]]
      /\ UNCHANGED <<lease, order, finding>>
  BY CommittersOwnTheLease DEF Write, Prune
<1>3. old \subseteq Worker /\ \A w \in old : scans[w] \in {"completed", "failed"}
  BY DEF Finished
<1> HIDE DEF old
<1>4. DataTypes'  BY <1>1, <1>2 DEF DataTypes
<1>5. RowsMatchStatus'  BY <1>1, <1>2 DEF RowsMatchStatus, DataTypes
<1>6. FindingsOfCompletedScans'
  BY <1>1, <1>2, <1>3 DEF FindingsOfCompletedScans, DataTypes, FindingRow
<1>7. /\ \A w \in old : Outcome[w] \in {"completed", "failed"}
      /\ Outcome' = [w \in Worker |-> IF w \in old THEN "gone" ELSE Outcome[w]]
  BY <1>1, <1>2, <1>3 DEF Outcome, Entry
<1>8. Ledger!Next
  <2>1. Ledger!Prune(old)  BY <1>7 DEF Ledger!Prune, Outcome
  <2> QED  BY <1>3, <2>1 DEF Ledger!Next
<1>9. \A w \in Worker \ {s} :
        /\ scans'[w] = "running" => scans[w] = "running" /\ rows'[w] = rows[w]
        /\ scans[w] = "none" => scans'[w] = "none"
  BY <1>1, <1>2, <1>3 DEF DataTypes
<1> QED  BY <1>4, <1>5, <1>6, <1>8, <1>9 DEF CommitSound

LEMMA ReleaseSound ==
  ASSUME StateInv, NEW s \in Session, LeasedCommit(s), call[s] \in {"end_scan", "renew_lease"}
  PROVE  CommitSound(s)
<1> USE DEF StateInv
<1>1. DataTypes  BY TypeOKHalves
<1>2. UNCHANGED <<scans, rows, order, finding>>
  BY CommittersOwnTheLease DEF Write
<1>3. FindingsOfCompletedScans' /\ RowsMatchStatus'
  BY <1>2 DEF FindingsOfCompletedScans, RowsMatchStatus
<1>4. CASE call[s] = "end_scan"
  <2>1. s \in Worker  BY <1>4, CallsOfSessions
  <2>2. lease.owner = s /\ lease' = [owner |-> None, live |-> FALSE]
    BY <1>4, <2>1, CommittersOwnTheLease DEF Write, OwnerCall
  <2>3. DataTypes'  BY <1>1, <1>2, <2>2 DEF DataTypes
  <2>4. CASE scans[s] = "running"
    <3>1. Outcome[s] = "running" /\ Outcome' = [Outcome EXCEPT ![s] = "failed"]
      <4>1. s # None  BY <2>1, PgAssumption
      <4>2. lease'.owner = None /\ scans' = scans /\ lease.owner = s  BY <1>2, <2>2
      <4>3. Entry(s) = "running" /\ Entry(s)' = "failed"
        BY <2>4, <4>1, <4>2 DEF Entry
      <4>4. \A w \in Worker \ {s} : Entry(w)' = Entry(w)
        BY <4>2, PgAssumption DEF Entry
      <4> QED  BY <2>1, <4>3, <4>4 DEF Outcome
    <3>2. Ledger!Next
      BY <2>1, <3>1 DEF Ledger!Next, Ledger!Finish, Outcome
    <3> QED  BY <1>2, <1>3, <1>4, <2>3, <3>2 DEF CommitSound
  <2>5. CASE scans[s] # "running"
    <3>1. UNCHANGED Outcome
      BY <1>1, <1>2, <2>2, <2>5, PgAssumption DEF Outcome, Entry
    <3> QED  BY <1>2, <1>3, <1>4, <2>3, <3>1 DEF CommitSound
  <2> QED  BY <2>4, <2>5
<1>5. CASE call[s] = "renew_lease"
  <2>1. s \in Client /\ request[s].token \in Worker  BY <1>5, CallsOfSessions
  <2>2. lease.owner = request[s].token /\ lease' = [lease EXCEPT !.live = TRUE]
    BY <1>5, <2>1, CommittersOwnTheLease, PgAssumption DEF Write, OwnerCall, TokenOf
  <2>3. DataTypes'  BY <1>1, <1>2, <2>1, <2>2, PgAssumption DEF DataTypes
  <2>4. UNCHANGED Outcome  BY <1>1, <1>2, <2>2 DEF Outcome, Entry, DataTypes
  <2> QED  BY <1>2, <1>3, <1>5, <2>3, <2>4 DEF CommitSound
<1> QED  BY <1>4, <1>5

LEMMA ClearSound ==
  ASSUME StateInv, NEW s \in Session, LeasedCommit(s), call[s] = "clear_all_if_idle"
  PROVE  CommitSound(s)
<1> USE DEF StateInv
<1>1. DataTypes  BY TypeOKHalves
<1>2. /\ scans' = [w \in Worker |-> IF scans[w] = "none" THEN "none" ELSE "gone"]
      /\ rows' = [w \in Worker |-> {}] /\ finding' = Nothing
      /\ lease' = [owner |-> None, live |-> FALSE] /\ UNCHANGED order
  BY CommittersOwnTheLease DEF Write, Clear
<1>3. DataTypes'  BY <1>1, <1>2 DEF DataTypes, Nothing
<1>4. RowsMatchStatus' /\ FindingsOfCompletedScans'
  BY <1>2 DEF RowsMatchStatus, FindingsOfCompletedScans, Nothing
<1>5. Outcome' = [w \in Worker |-> IF Outcome[w] = "none" THEN "none" ELSE "gone"]
  BY <1>1, <1>2 DEF Outcome, Entry
<1>6. Ledger!Next  BY <1>5 DEF Ledger!Next, Ledger!Clear, Outcome
<1> QED  BY <1>2, <1>3, <1>4, <1>6 DEF CommitSound

LEMMA CommitsAreSound ==
  ASSUME StateInv, NEW s \in Session, LeasedCommit(s)
  PROVE  CommitSound(s)
  BY AcquireSound, StartSound, StoreSound, CompleteSound, FailSound, PruneSound, ReleaseSound,
     ClearSound DEF LeasedCommit, LeasedCall, OwnerCall

-------------------------------------------------------------------------------
(* What a step does to one session.                                        *)

Same(t) ==
  /\ call'[t] = call[t] /\ at'[t] = at[t]
  /\ t \in Worker => read'[t] = read[t] /\ results'[t] = results[t]
  /\ t \in Client => request'[t] = request[t]

LEMMA SessionSteps ==
  ASSUME TypeOK, [Next]_vars, NEW t \in Session
  PROVE  \/ Same(t)
         \/ t \in Client /\ \E r \in Request : Open(t, r)
         \/ Select(t) \/ Execute(t) \/ Leaves(t) \/ Commit(t)
<1>1. DOMAIN call = Session /\ DOMAIN results = Worker /\ DOMAIN read = Worker
      /\ DOMAIN at = Session /\ DOMAIN request = Client
  BY DEF TypeOK
<1>2. ASSUME NEW c \in Client, NEW r \in Request, Open(c, r), c # t  PROVE Same(t)
  BY <1>1, <1>2 DEF Open, Same
<1>3. ASSUME NEW s \in Session, Select(s) \/ Execute(s), s # t  PROVE Same(t)
  BY <1>1, <1>3 DEF Select, Execute, Same
<1>4. ASSUME NEW s \in Session, Leaves(s) \/ Commit(s), s # t  PROVE Same(t)
  <2>1. PICK next : Return(s, next)  BY <1>4 DEF Leaves, Commit
  <2> QED  BY <1>4, <2>1, ReturnEffect DEF Same
<1>5. Expire \/ (\E f \in Finding : SnoozeEnds(f)) \/ UNCHANGED vars => Same(t)
  BY DEF Expire, SnoozeEnds, vars, Same
<1> QED  BY Steps, <1>2, <1>3, <1>4, <1>5

(* Only completing a scan selects, and the lease row is locked by then.    *)
LEMMA SelectingSteps ==
  ASSUME TypeOK, RequestsMatch, NEW s \in Session, Select(s)
  PROVE  /\ s \in Worker /\ call[s] = "complete_scan_with_findings" /\ at[s] > 1
         /\ \E keys \in SUBSET Finding :
              /\ read' = [read EXCEPT ![s] = [f \in DOMAIN read[s] \cup keys |->
                             IF f \in keys THEN RowOf(f) ELSE read[s][f]]]
              /\ \A f \in Finding :
                   Completing(results[s])[at[s]] = Selecting(results[s], f) => f \in keys
<1> DEFINE next == Statements(s)[at[s]]
<1>1. /\ at[s] \in Nat \ {0} /\ at[s] <= Len(Statements(s)) /\ next[2] = "select"
  BY DEF TypeOK, Select, InProgress
<1>2. Statements(s) \in Seq(Locks(s))  BY StatementsOfSessions
<1>3. next \in Locks(s)
  <2> DEFINE q == Statements(s)
  <2>1. q \in Seq(Locks(s))  BY <1>2
  <2>2. at[s] \in 1..Len(q)  BY <1>1, <2>1
  <2> HIDE DEF q
  <2>3. q[at[s]] \in Locks(s)  BY <2>1, <2>2
  <2> QED  BY <2>3 DEF q
<1>4. \A l \in Lock \cup Share : l[2] # "select"  BY DEF Lock, Share, LeaseRow
<1>5. call[s] = "complete_scan_with_findings"
  BY <1>1, <1>3, <1>4 DEF Locks
<1>6. s \in Worker  BY <1>5, CallsOfSessions DEF ScanWrite
<1>7. Statements(s) = Completing(results[s]) /\ Statements(s)[1] = LeaseRow
  BY <1>5, StatementsOfSessions DEF LeaseFirst, LeasedCall, OwnerCall
<1>8. at[s] > 1  BY <1>1, <1>7 DEF LeaseRow
<1>9. next \in Selection(results[s])
  BY <1>1, <1>3, <1>4, <1>5 DEF Locks
<1> DEFINE keys == IF next[1] = "others" THEN Finding \ DOMAIN results[s] ELSE {next[1]}
<1>10. read' = [read EXCEPT ![s] = [f \in DOMAIN read[s] \cup keys |->
                  IF f \in keys THEN RowOf(f) ELSE read[s][f]]]
  BY <1>6 DEF Select, TypeOK
<1>11. keys \in SUBSET Finding
  BY <1>9, PgAssumption DEF Selection, Selecting
<1>12. ASSUME NEW f \in Finding, next = Selecting(results[s], f)  PROVE f \in keys
  BY <1>12, PgAssumption DEF Selecting
<1> QED  BY <1>5, <1>6, <1>7, <1>8, <1>10, <1>11, <1>12

LEMMA CommitsReturn ==
  ASSUME TypeOK, RequestsMatch, NEW s \in Session, Commit(s)
  PROVE  \/ s \in Worker /\ After(s) \in WorkerCall /\ Return(s, After(s))
         \/ s \in Client /\ Return(s, "closed")
         \/ /\ s \in Client /\ call[s] = "connect" /\ request[s] \in Request
            /\ request[s].op \in ClientCall /\ request[s].op # "closed"
            /\ Return(s, request[s].op)
<1>1. call[s] \notin {"closed", "done"}  BY DEF Commit
<1>2. CASE s \in Worker
  <2>1. call[s] \in WorkerCall  BY <1>2, CallsOfSessions
  <2>2. After(s) \in WorkerCall  BY <1>1, <2>1 DEF After, WorkerCall
  <2> QED  BY <1>2, <2>2 DEF Commit
<1>3. CASE s \in Client
  <2>1. s \notin Worker  BY <1>3, PgAssumption
  <2>2. call[s] = "connect" => request[s] \in Request  BY <1>3 DEF RequestsMatch
  <2>3. request[s] \in Request => request[s].op \in ClientCall /\ request[s].op # "closed"
    BY DEF ClientCall, Request
  <2> QED  BY <1>3, <2>1, <2>2, <2>3 DEF Commit
<1> QED  BY <1>2, <1>3 DEF Session

LEMMA NextSessionTypes ==
  ASSUME TypeOK, RequestsMatch, [Next]_vars
  PROVE  SessionTypes'
<1>1. SessionTypes /\ DataTypes  BY TypeOKHalves
<1>2. ASSUME NEW c \in Client, NEW r \in Request, Open(c, r)  PROVE SessionTypes'
  <2>1. /\ call' = [call EXCEPT ![c] = "connect"] /\ request' = [request EXCEPT ![c] = r]
        /\ UNCHANGED <<at, early, read, results>>
    BY <1>2 DEF Open
  <2>2. served' \in 0..MaxRequests
    BY <1>1, <1>2, PgAssumption DEF Open, Weight, SessionTypes
  <2>3. c \notin Worker  BY PgAssumption
  <2>4. (\A w \in Worker : call'[w] \in WorkerCall) /\ (\A d \in Client : call'[d] \in ClientCall)
    BY <1>1, <2>1, <2>3 DEF SessionTypes, Session, ClientCall
  <2>5. DOMAIN call' = Session /\ request' \in [Client -> Request \cup {None}]
    BY <1>1, <2>1 DEF SessionTypes
  <2> QED  BY <1>1, <2>1, <2>2, <2>4, <2>5 DEF SessionTypes, ResultsTyped, ReadTyped
<1>3. ASSUME NEW s \in Session, Select(s)  PROVE SessionTypes'
  <2>1. at' = [at EXCEPT ![s] = @ + 1] /\ UNCHANGED <<call, early, results, request, served>>
    BY <1>3 DEF Select
  <2>2. PICK keys \in SUBSET Finding :
          read' = [read EXCEPT ![s] = [f \in DOMAIN read[s] \cup keys |->
                     IF f \in keys THEN RowOf(f) ELSE read[s][f]]]
    BY <1>3, SelectingSteps
  <2>3. \A f \in keys : RowOf(f) \in FindingRow \cup {None}
    BY <1>1 DEF RowOf, DataTypes
  <2>4. DOMAIN read' = Worker /\ \A w \in Worker : ReadTyped(w)'
    BY <1>1, <2>2, <2>3 DEF SessionTypes, ReadTyped
  <2>5. at' \in [Session -> Nat \ {0}]  BY <1>1, <2>1 DEF SessionTypes
  <2>6. \A w \in Worker : ResultsTyped(w)'
    BY <1>1, <2>1 DEF SessionTypes, ResultsTyped
  <2> QED  BY <1>1, <2>1, <2>4, <2>5, <2>6 DEF SessionTypes
<1>4. ASSUME NEW s \in Session, Execute(s)  PROVE SessionTypes'
  BY <1>1, <1>4 DEF Execute, SessionTypes, ResultsTyped, ReadTyped
<1>5. ASSUME NEW s \in Session, Leaves(s)  PROVE SessionTypes'
  <2>1. CASE s \in Worker
    <3>1. PICK next \in {"end_scan", "fail_scan", "done"} : Return(s, next)
      BY <1>5, <2>1 DEF Leaves
    <3>2. next \in WorkerCall /\ s \notin Client  BY <2>1, PgAssumption DEF WorkerCall
    <3> QED  BY <3>1, <3>2, ReturnTypes
  <2>2. CASE s \notin Worker
    <3>1. Return(s, "closed")  BY <1>5, <2>2 DEF Leaves
    <3>2. "closed" \in ClientCall  BY DEF ClientCall
    <3> QED  BY <2>2, <3>1, <3>2, ReturnTypes
  <2> QED  BY <2>1, <2>2
<1>6. ASSUME NEW s \in Session, Commit(s)  PROVE SessionTypes'
  <2>1. CASE s \in Worker
    <3>1. s \notin Client /\ After(s) \in WorkerCall /\ Return(s, After(s))
      BY <1>6, <2>1, CommitsReturn, PgAssumption
    <3> QED  BY <3>1, ReturnTypes
  <2>2. CASE s \in Client
    <3>1. s \notin Worker /\ "closed" \in ClientCall  BY <2>2, PgAssumption DEF ClientCall
    <3>2. PICK next \in ClientCall : Return(s, next)
      BY <1>6, <3>1, CommitsReturn
    <3> QED  BY <3>1, <3>2, ReturnTypes
  <2> QED  BY <2>1, <2>2 DEF Session
<1>7. CASE Expire
  BY <1>1, <1>7 DEF Expire, SessionTypes, ResultsTyped, ReadTyped
<1>8. ASSUME NEW f \in Finding, SnoozeEnds(f)  PROVE SessionTypes'
  BY <1>1, <1>8 DEF SnoozeEnds, SessionTypes, ResultsTyped, ReadTyped
<1>9. CASE UNCHANGED vars
  BY <1>1, <1>9 DEF vars, SessionTypes, ResultsTyped, ReadTyped
<1> QED  BY Steps, <1>2, <1>3, <1>4, <1>5, <1>6, <1>7, <1>8, <1>9

-------------------------------------------------------------------------------
(* The inductive step, one part of the invariant at a time.                *)

LEMMA NextRequestsMatch ==
  ASSUME TypeOK, RequestsMatch, [Next]_vars
  PROVE  RequestsMatch'
<1> SUFFICES ASSUME NEW c \in Client
             PROVE  /\ call'[c] # "closed" => request'[c] \in Request
                    /\ call'[c] \notin {"closed", "connect"} => call'[c] = request'[c].op
  BY DEF RequestsMatch
<1>1. c \in Session /\ c \notin Worker  BY PgAssumption DEF Session
<1>2. CASE Same(c)  BY <1>2 DEF Same, RequestsMatch
<1>3. ASSUME NEW r \in Request, Open(c, r)
      PROVE  call'[c] = "connect" /\ request'[c] = r
  BY <1>1, <1>3 DEF Open, TypeOK
<1>4. CASE Select(c)  BY <1>1, <1>4, SelectingSteps
<1>5. CASE Execute(c)  BY <1>5 DEF Execute, RequestsMatch
<1>6. CASE Leaves(c)
  <2>1. Return(c, "closed")  BY <1>1, <1>6 DEF Leaves
  <2> QED  BY <1>1, <2>1, ReturnEffect
<1>7. CASE Commit(c)
  <2>1. CASE Return(c, "closed")  BY <1>1, <2>1, ReturnEffect
  <2>2. CASE request[c] \in Request /\ request[c].op # "closed" /\ Return(c, request[c].op)
    <3>1. call'[c] = request[c].op /\ request'[c] = request[c]  BY <1>1, <2>2, ReturnEffect
    <3> QED  BY <2>2, <3>1
  <2> QED  BY <1>1, <1>7, <2>1, <2>2, CommitsReturn
<1> QED  BY <1>1, <1>2, <1>3, <1>4, <1>5, <1>6, <1>7, SessionSteps

(* After a step a session holds the lease row only if it did before or has *)
(* just locked it, which no other session had.                             *)
Acquires(t) == Execute(t) /\ at[t] = 1 /\ ~Refused(t) /\ \A u \in Session \ {t} : ~Holding(u)

LEMMA HoldingSteps ==
  ASSUME TypeOK, RequestsMatch, [Next]_vars, NEW t \in Session, Holding(t)'
  PROVE  /\ call'[t] = call[t] /\ (t \in Client => request'[t] = request[t])
         /\ Holding(t) \/ Acquires(t)
<1>1. CASE Same(t)  BY <1>1 DEF Same, Holding
<1>2. ASSUME NEW r \in Request, t \in Client, Open(t, r)  PROVE FALSE
  <2>1. call'[t] = "connect"  BY <1>2 DEF Open, TypeOK
  <2> QED  BY <2>1 DEF Holding, LeasedCall, OwnerCall
<1>3. CASE Select(t)
  BY <1>3, SelectingSteps DEF Select, Holding
<1>4. CASE Execute(t)
  <2>1. call' = call /\ request' = request /\ InProgress(t) /\ Blockers(t) = {}
        /\ ~(at[t] = 1 /\ Refused(t))
    BY <1>4 DEF Execute
  <2>2. call[t] \in LeasedCall  BY <2>1 DEF Holding
  <2>3. CASE at[t] > 1  BY <2>1, <2>2, <2>3 DEF Holding
  <2>4. CASE at[t] = 1
    <3>1. Statements(t)[at[t]] = LeaseRow  BY <2>2, <2>4, StatementsOfSessions DEF LeaseFirst
    <3>2. ASSUME NEW u \in Session \ {t}, Holding(u)  PROVE FALSE
      <4>1. Statements(u)[1] = LeaseRow  BY <3>2, StatementsOfSessions DEF LeaseFirst, Holding
      <4>2. 1 \in 1..(at[u] - 1)  BY <3>2 DEF Holding, TypeOK
      <4>3. LeaseRow \in Held(u)  BY <4>1, <4>2 DEF Held
      <4>4. Conflict(LeaseRow, LeaseRow)  BY DEF Conflict, LeaseRow
      <4>5. u \in Blockers(t)  BY <2>1, <3>1, <4>3, <4>4 DEF Blockers
      <4> QED  BY <2>1, <4>5
    <3> QED  BY <1>4, <2>1, <2>4, <3>2 DEF Acquires
  <2> QED  BY <2>1, <2>3, <2>4 DEF TypeOK
<1>5. ASSUME Leaves(t) \/ Commit(t)  PROVE FALSE
  <2>1. PICK next : Return(t, next)  BY <1>5 DEF Leaves, Commit
  <2>2. at'[t] = 1  BY <2>1, ReturnEffect
  <2> QED  BY <2>2 DEF Holding
<1> QED  BY <1>1, <1>2, <1>3, <1>4, <1>5, SessionSteps

LEMMA NextOneHolder ==
  ASSUME TypeOK, RequestsMatch, OneHolder, [Next]_vars
  PROVE  OneHolder'
<1> SUFFICES ASSUME NEW s \in Session, NEW t \in Session, Holding(s)', Holding(t)', s # t
             PROVE  FALSE
  BY DEF OneHolder
<1>1. (Holding(s) \/ Acquires(s)) /\ (Holding(t) \/ Acquires(t))  BY HoldingSteps
<1>2. ASSUME NEW u \in Session, NEW v \in Session, u # v, Acquires(u), Acquires(v)  PROVE ~Holding(v)'
  <2>1. at'[v] = at[v]  BY <1>2 DEF Acquires, Execute, TypeOK
  <2> QED  BY <1>2, <2>1 DEF Acquires, Holding
<1> QED  BY <1>1, <1>2 DEF OneHolder, Acquires

(* The commit of a leased method leaves the lease row free.                *)
LEMMA CommitsRelease ==
  ASSUME TypeOK, RequestsMatch, OneHolder, ReadsStand, NEW s \in Session, LeasedCommit(s)
  PROVE  /\ \A t \in Session : ~Holding(t)'
         /\ \A w \in Worker : DOMAIN read'[w] = {}
<1>1. Holding(s)  BY CommittersHold
<1>2. PICK next : Return(s, next)  BY DEF LeasedCommit, Commit
<1>3. ASSUME NEW t \in Session, t # s  PROVE ~Holding(t)' /\ (t \in Worker => DOMAIN read'[t] = {})
  <2>1. ~Holding(t)  BY <1>1, <1>3 DEF OneHolder
  <2>2. call'[t] = call[t] /\ at'[t] = at[t] /\ (t \in Worker => read'[t] = read[t])
    BY <1>2, <1>3, ReturnEffect
  <2> QED  BY <2>1, <2>2 DEF Holding, ReadsStand
<1>4. ~Holding(s)' /\ (s \in Worker => DOMAIN read'[s] = {})
  BY <1>2, ReturnEffect DEF Holding
<1> QED  BY <1>3, <1>4 DEF Session

LEMMA NextHolderMayWrite ==
  ASSUME TypeOK, RequestsMatch, OneHolder, HolderMayWrite, ReadsStand, [Next]_vars
  PROVE  HolderMayWrite'
<1> SUFFICES ASSUME NEW t \in Session, Holding(t)'
             PROVE  /\ call'[t] \in OwnerCall => lease'.owner = TokenOf(t)'
                    /\ call'[t] \in ScanWrite => scans'[t] = "running"
  BY DEF HolderMayWrite
<1>1. Quiet
  BY CommitsRelease, QuietSteps
<1>2. call'[t] = call[t] /\ (t \in Client => request'[t] = request[t])
      /\ (Holding(t) \/ Acquires(t))
  BY HoldingSteps
<1>3. TokenOf(t)' = TokenOf(t)  BY <1>2 DEF TokenOf, Session
<1>4. CASE Holding(t)  BY <1>1, <1>2, <1>3, <1>4 DEF HolderMayWrite, Quiet
<1>5. CASE Acquires(t)
  <2>1. ~Refused(t)  BY <1>5 DEF Acquires
  <2>2. CASE call[t] \in {"start_scan", "prune_scans", "end_scan", "renew_lease"}
    <3>1. HoldsLease(t)  BY <2>1, <2>2 DEF Refused
    <3> QED  BY <1>1, <1>2, <1>3, <2>2, <3>1 DEF HoldsLease, Quiet, ScanWrite
  <2>3. CASE call[t] \in ScanWrite
    <3>1. HoldsLease(t) /\ scans[t] = "running"  BY <2>1, <2>3 DEF Refused, ScanWrite
    <3> QED  BY <1>1, <1>2, <1>3, <3>1 DEF HoldsLease, Quiet
  <2> QED  BY <1>2, <2>2, <2>3 DEF OwnerCall, ScanWrite
<1> QED  BY <1>2, <1>4, <1>5

LEMMA NextScanProgress ==
  ASSUME StateInv, OneHolder, [Next]_vars
  PROVE  ScanProgress'
<1> USE DEF StateInv
<1> SUFFICES ASSUME NEW w \in Worker
             PROVE  /\ call'[w] \in {"try_start_scan", "start_scan"} => scans'[w] = "none"
                    /\ scans'[w] = "running" =>
                         /\ call'[w] \in {"get_previous_hashes", "store_document"} => rows'[w] = {}
                         /\ call'[w] = "store_result" => rows'[w] = {"documents"}
                         /\ call'[w] = "complete_scan_with_findings" =>
                              rows'[w] = {"documents", "audit_results"}
  BY DEF ScanProgress
<1>1. w \in Session /\ w \notin Client /\ call[w] \in WorkerCall
  BY PgAssumption DEF Session, TypeOK
<1>2. ASSUME NEW s \in Session, LeasedCommit(s), s # w
      PROVE  /\ call'[w] = call[w]
             /\ scans'[w] = "running" => scans[w] = "running" /\ rows'[w] = rows[w]
             /\ scans[w] = "none" => scans'[w] = "none"
  <2>1. PICK next : Return(s, next)  BY <1>2 DEF LeasedCommit, Commit
  <2>2. call'[w] = call[w]  BY <1>1, <1>2, <2>1, ReturnEffect
  <2> QED  BY <1>2, <2>2, CommitsAreSound DEF CommitSound
<1>3. ASSUME LeasedCommit(w)
      PROVE  call'[w] = After(w) /\ CommitSound(w)
  <2>1. Return(w, After(w))  BY <1>3 DEF LeasedCommit, Commit
  <2>2. call'[w] = After(w)  BY <1>1, <2>1, ReturnEffect
  <2> QED  BY <1>1, <1>3, <2>2, CommitsAreSound
<1>4. CASE \E s \in Session : LeasedCommit(s) /\ s # w
  BY <1>2, <1>4 DEF ScanProgress
<1>5. CASE LeasedCommit(w)
  <2>1. call[w] \notin {"get_previous_hashes", "done"} /\ call'[w] = After(w)
    BY <1>3, <1>5 DEF LeasedCommit, LeasedCall, OwnerCall
  <2>2. \/ call[w] = "try_start_scan" /\ call'[w] = "start_scan"
        \/ call[w] = "start_scan" /\ call'[w] = "get_previous_hashes"
        \/ call[w] = "store_document" /\ call'[w] = "store_result"
        \/ call[w] = "store_result" /\ call'[w] = "complete_scan_with_findings"
        \/ call'[w] \in {"prune_scans", "end_scan", "done"}
    BY <1>1, <2>1 DEF After, WorkerCall
  <2> QED  BY <1>3, <1>5, <2>2 DEF CommitSound
<1>6. CASE \A s \in Session : ~LeasedCommit(s)
  <2>1. scans' = scans /\ rows' = rows  BY <1>6, QuietSteps DEF Quiet
  <2>2. CASE call'[w] = call[w]  BY <2>1, <2>2 DEF ScanProgress
  <2>3. CASE Leaves(w)
    <3>1. PICK next \in {"end_scan", "fail_scan", "done"} : Return(w, next)  BY <2>3 DEF Leaves
    <3>2. call'[w] = next  BY <1>1, <3>1, ReturnEffect
    <3> QED  BY <3>2
  <2>4. CASE Commit(w)
    <3>1. call[w] = "get_previous_hashes"
      BY <1>1, <1>6, <2>4 DEF LeasedCommit, Commit, LeasedCall, OwnerCall, WorkerCall
    <3>2. Return(w, "store_document")  BY <2>4, <3>1 DEF Commit, After
    <3>3. call'[w] = "store_document"  BY <1>1, <3>2, ReturnEffect
    <3> QED  BY <2>1, <3>1, <3>3 DEF ScanProgress
  <2>5. Same(w) \/ Select(w) \/ Execute(w) => call'[w] = call[w]
    BY DEF Same, Select, Execute
  <2> QED  BY <1>1, <2>2, <2>3, <2>4, <2>5, SessionSteps
<1> QED  BY <1>1, <1>4, <1>5, <1>6

LEMMA NextReadsStand ==
  ASSUME StateInv, OneHolder, [Next]_vars
  PROVE  ReadsStand'
<1> USE DEF StateInv
<1> DEFINE Stands(w) ==
      \A f \in DOMAIN read[w] :
        /\ read[w][f] # None <=> f \in DOMAIN finding
        /\ f \in DOMAIN finding => read[w][f].hash = finding[f].hash
                                   /\ read[w][f].seen = finding[f].seen
<1> SUFFICES ASSUME NEW w \in Worker, DOMAIN read'[w] # {}
             PROVE  Holding(w)' /\ call'[w] = "complete_scan_with_findings" /\ Stands(w)'
  BY DEF ReadsStand
<1>1. w \in Session /\ w \notin Client  BY PgAssumption DEF Session
<1>2. Quiet  BY CommitsRelease, QuietSteps
<1>3. CASE Same(w)
  BY <1>2, <1>3 DEF Same, Holding, ReadsStand, Quiet
<1>4. CASE Execute(w)
  <2>1. call' = call /\ read' = read /\ at'[w] = at[w] + 1
    BY <1>1, <1>4 DEF Execute, TypeOK
  <2>2. Holding(w) /\ call[w] = "complete_scan_with_findings" /\ Stands(w)
    BY <2>1 DEF ReadsStand
  <2>3. Holding(w)'  BY <1>1, <2>1, <2>2 DEF Holding, TypeOK
  <2> QED  BY <1>2, <2>1, <2>2, <2>3 DEF Quiet
<1>5. CASE Select(w)
  <2>1. call' = call /\ finding' = finding /\ at'[w] = at[w] + 1
    BY <1>1, <1>5 DEF Select, TypeOK, data
  <2>2. call[w] = "complete_scan_with_findings" /\ at[w] > 1
    BY <1>1, <1>5, SelectingSteps
  <2>3. Holding(w)'  BY <1>1, <2>1, <2>2 DEF Holding, TypeOK, LeasedCall, OwnerCall
  <2>4. PICK keys \in SUBSET Finding :
          read' = [read EXCEPT ![w] = [f \in DOMAIN read[w] \cup keys |->
                     IF f \in keys THEN RowOf(f) ELSE read[w][f]]]
    BY <1>1, <1>5, SelectingSteps
  <2>5. read'[w] = [f \in DOMAIN read[w] \cup keys |->
                      IF f \in keys THEN RowOf(f) ELSE read[w][f]]
    BY <2>4 DEF TypeOK
  <2>6. ASSUME NEW f \in DOMAIN read'[w]
        PROVE  /\ read'[w][f] # None <=> f \in DOMAIN finding
               /\ f \in DOMAIN finding => read'[w][f].hash = finding[f].hash
                                          /\ read'[w][f].seen = finding[f].seen
    <3>1. CASE f \in keys
      <4>1. read'[w][f] = RowOf(f)  BY <2>5, <3>1
      <4>2. f \in DOMAIN finding => finding[f] # None  BY PgAssumption DEF TypeOK
      <4> QED  BY <4>1, <4>2 DEF RowOf
    <3>2. CASE f \notin keys
      <4>1. f \in DOMAIN read[w] /\ read'[w][f] = read[w][f]  BY <2>5, <3>2
      <4> QED  BY <4>1 DEF ReadsStand
    <3> QED  BY <3>1, <3>2
  <2> QED  BY <2>1, <2>2, <2>3, <2>6
<1>6. ASSUME Leaves(w) \/ Commit(w)  PROVE FALSE
  <2>1. PICK next : Return(w, next)  BY <1>6 DEF Leaves, Commit
  <2> QED  BY <1>1, <2>1, ReturnEffect
<1> QED  BY <1>1, <1>3, <1>4, <1>5, <1>6, SessionSteps

LEMMA NextReadsCover ==
  ASSUME TypeOK, RequestsMatch, ReadsCover, [Next]_vars
  PROVE  ReadsCover'
<1> SUFFICES ASSUME NEW w \in Worker, call'[w] = "complete_scan_with_findings",
                    NEW i \in 1..(at'[w] - 1), NEW f \in Finding,
                    Completing(results'[w])[i] = Selecting(results'[w], f)
             PROVE  f \in DOMAIN read'[w]
  BY DEF ReadsCover, Completing, Selecting
<1>1. w \in Session /\ w \notin Client /\ at[w] \in Nat \ {0}
  BY PgAssumption DEF Session, TypeOK
<1>2. CASE Same(w)  BY <1>2 DEF Same, ReadsCover
<1>3. CASE Select(w)
  <2>1. call' = call /\ results' = results /\ at'[w] = at[w] + 1
    BY <1>1, <1>3 DEF Select, TypeOK
  <2>2. PICK keys \in SUBSET Finding :
          /\ read' = [read EXCEPT ![w] = [g \in DOMAIN read[w] \cup keys |->
                        IF g \in keys THEN RowOf(g) ELSE read[w][g]]]
          /\ \A g \in Finding :
               Completing(results[w])[at[w]] = Selecting(results[w], g) => g \in keys
    BY <1>1, <1>3, SelectingSteps
  <2>3. DOMAIN read'[w] = DOMAIN read[w] \cup keys  BY <2>2 DEF TypeOK
  <2>4. CASE i = at[w]  BY <2>1, <2>2, <2>3, <2>4
  <2>5. CASE i \in 1..(at[w] - 1)  BY <2>1, <2>3, <2>5 DEF ReadsCover
  <2> QED  BY <1>1, <2>1, <2>4, <2>5
<1>4. CASE Execute(w)
  <2>1. call' = call /\ results' = results /\ read' = read /\ at'[w] = at[w] + 1
        /\ Statements(w)[at[w]][2] # "select"
    BY <1>1, <1>4 DEF Execute, TypeOK
  <2>2. Completing(results[w])[at[w]] # Selecting(results[w], f)
    <3>1. Statements(w) = Completing(results[w])  BY <1>1, <2>1, StatementsOfSessions
    <3> QED  BY <2>1, <3>1 DEF Selecting
  <2>3. i \in 1..(at[w] - 1)  BY <1>1, <2>1, <2>2
  <2> QED  BY <2>1, <2>3 DEF ReadsCover
<1>5. ASSUME Leaves(w) \/ Commit(w)  PROVE FALSE
  <2>1. PICK next : Return(w, next)  BY <1>5 DEF Leaves, Commit
  <2>2. at'[w] = 1  BY <1>1, <2>1, ReturnEffect
  <2> QED  BY <2>2
<1> QED  BY <1>1, <1>2, <1>3, <1>4, <1>5, SessionSteps

(* One scan's worker at a time is past its first statement, what it found  *)
(* there stands, and what it selected was not added or removed since.      *)
LEMMA InductiveInvariant == Spec => []IInv
<1>1. Init => IInv
  <2> SUFFICES ASSUME Init  PROVE IInv  OBVIOUS
  <2>0. \A s \in Session : at[s] = 1 /\ early[s] = FALSE
    BY DEF Init
  <2>1. (\A w \in Worker : call[w] = "try_start_scan" /\ w \in Session)
        /\ (\A c \in Client : call[c] = "closed" /\ c \in Session)
    BY PgAssumption DEF Init, Session
  <2>2. DataTypes  BY DEF Init, DataTypes, Nothing
  <2>3. SessionTypes
    BY <2>1, PgAssumption DEF Init, SessionTypes, WorkerCall, ClientCall, ResultsTyped,
                              ReadTyped, Nothing
  <2>4. TypeOK  BY <2>2, <2>3, TypeOKHalves
  <2>5. RequestsMatch /\ ScanProgress
    BY <2>1 DEF Init, RequestsMatch, ScanProgress
  <2>6. OneHolder /\ HolderMayWrite
    BY <2>0 DEF OneHolder, HolderMayWrite, Holding
  <2>7. RowsMatchStatus /\ FindingsOfCompletedScans
    BY DEF Init, RowsMatchStatus, FindingsOfCompletedScans, Nothing
  <2>8. ReadsStand  BY DEF Init, ReadsStand, Nothing
  <2>9. ReadsCover  BY <2>0, <2>1 DEF ReadsCover
  <2> QED  BY <2>4, <2>5, <2>6, <2>7, <2>8, <2>9 DEF IInv
<1>2. IInv /\ [Next]_vars => IInv'
  <2> SUFFICES ASSUME IInv, [Next]_vars  PROVE IInv'  OBVIOUS
  <2>1. StateInv /\ OneHolder  BY DEF IInv, StateInv
  <2>2. DataTypes' /\ RowsMatchStatus' /\ FindingsOfCompletedScans'
    <3>1. CASE \E s \in Session : LeasedCommit(s)
      BY <2>1, <3>1, CommitsAreSound DEF CommitSound
    <3>2. CASE \A s \in Session : ~LeasedCommit(s)
      <4>1. Quiet /\ DataTypes'  BY <2>1, <3>2, QuietSteps DEF StateInv
      <4> QED  BY <2>1, <4>1 DEF StateInv, Quiet, RowsMatchStatus, FindingsOfCompletedScans
    <3> QED  BY <3>1, <3>2
  <2>3. SessionTypes'  BY <2>1, NextSessionTypes DEF StateInv
  <2>4. TypeOK'  BY <2>2, <2>3, TypeOKHalves, PTL
  <2>5. RequestsMatch' /\ OneHolder' /\ HolderMayWrite' /\ ScanProgress' /\ ReadsStand'
        /\ ReadsCover'
    BY <2>1, NextRequestsMatch, NextOneHolder, NextHolderMayWrite, NextScanProgress,
       NextReadsStand, NextReadsCover DEF StateInv
  <2> QED  BY <2>2, <2>4, <2>5 DEF IInv
<1> QED  BY <1>1, <1>2, PTL DEF Spec

-------------------------------------------------------------------------------
(* The theorems.                                                           *)

(* Every variable of PostgresStorage keeps its type, for any number of     *)
(* connections and findings, whatever fails.                               *)
THEOREM TypeCorrect == Spec => []TypeOK
  BY InductiveInvariant, PTL DEF IInv

(* A scan's rows match its status: abandoned, failed, pruned and cleared   *)
(* scans keep none, and no late worker adds one (postgres.py checks and    *)
(* locks the lease in the transaction that writes).                        *)
THEOREM ScansHaveTheirRows == Spec => []RowsMatchStatus
  BY InductiveInvariant, PTL DEF IInv

(* complete_scan_with_findings is atomic: the findings name completed      *)
(* scans only.                                                             *)
THEOREM FindingsComeFromCompletedScans == Spec => []FindingsOfCompletedScans
  BY InductiveInvariant, PTL DEF IInv

(* A session that is waiting for another waits for the one that holds the  *)
(* lease row, unless one of the two is connecting.                         *)
LEMMA WaitersWaitForTheHolder ==
  ASSUME TypeOK, RequestsMatch, NEW s \in Session, NEW t \in Session, t \in Blockers(s),
         Blockers(t) # {}, call[s] # "connect", call[t] # "connect"
  PROVE  Holding(t) /\ t # s
<1>1. /\ at[s] \in Nat \ {0} /\ at[s] <= Len(Statements(s)) /\ t # s
      /\ \E l \in Held(t) : Conflict(l, Statements(s)[at[s]])
  BY DEF Blockers, InProgress, TypeOK
<1>2. at[t] \in Nat \ {0} /\ at[t] <= Len(Statements(t))
  BY DEF Blockers, InProgress, TypeOK
<1>3. PICK l \in Held(t) : Conflict(l, Statements(s)[at[s]])  BY <1>1
<1>4. PICK i \in 1..(at[t] - 1) : l = Statements(t)[i]  BY DEF Held
<1>5. at[t] > 1  BY <1>2, <1>4
<1>6. CASE call[t] \in LeasedCall  BY <1>1, <1>5, <1>6 DEF Holding
<1>7. CASE call[t] = "update_workflow"
  <2>1. Len(Statements(t)) = 2 /\ Statements(t)[1] = <<"finding_workflow", "write">>
    BY <1>7, StatementsOfSessions
  <2>2. i = 1  BY <1>2, <1>4, <2>1
  <2>3. l = <<"finding_workflow", "write">>  BY <1>4, <2>1, <2>2
  <2> DEFINE q == Statements(s)
  <2>4. q \in Seq(Locks(s))  BY StatementsOfSessions
  <2>5. at[s] \in 1..Len(q)  BY <1>1, <2>4
  <2> HIDE DEF q
  <2>6. q[at[s]] \in Locks(s)  BY <2>4, <2>5
  <2>7. q[at[s]] \in Lock \cup {y \in Locks(s) : y[2] = "select"}
    BY <2>6 DEF Locks, Selection, Selecting
  <2>8. \A y \in Lock : ~Conflict(<<"finding_workflow", "write">>, y)
    BY PgAssumption DEF Lock, LeaseRow, Conflict, Table
  <2>9. ~Conflict(l, q[at[s]])
    BY <2>3, <2>7, <2>8 DEF Conflict
  <2> QED  BY <1>3, <2>9 DEF q
<1>8. CASE call[t] \notin LeasedCall \cup {"update_workflow"}
  <2>1. Statements(t) = <<>>  BY <1>8 DEF Statements, LeasedCall, OwnerCall
  <2> QED  BY <1>2, <2>1
<1> QED  BY <1>6, <1>7, <1>8

(* Storage methods do not deadlock: whoever is in a circle of waiting      *)
(* sessions, one of them is running the DDL of connect().  The lease row   *)
(* has one holder, and a session in a circle would wait for that holder,   *)
(* which would have to wait for itself.                                    *)
THEOREM MethodsNeverDeadlock == Spec => []DeadlocksNeedAConnect
<1>1. IInv => DeadlocksNeedAConnect
  <2> SUFFICES ASSUME IInv, NEW D \in Deadlocks, \A s \in D : call[s] # "connect"
               PROVE  FALSE
    BY DEF DeadlocksNeedAConnect
  <2>1. /\ D # {} /\ D \subseteq Session
        /\ \A s \in D : Blockers(s) # {} /\ Blockers(s) \cap D # {}
    BY DEF Deadlocks
  <2>2. ASSUME NEW s \in D  PROVE \E t \in D \ {s} : Holding(t)
    <3>1. PICK t \in D : t \in Blockers(s)  BY <2>1
    <3>2. Holding(t) /\ t # s  BY <2>1, <3>1, WaitersWaitForTheHolder DEF IInv
    <3> QED  BY <3>2
  <2>3. PICK s \in D : Holding(s)  BY <2>1, <2>2
  <2>4. PICK t \in D \ {s} : Holding(t)  BY <2>2
  <2> QED  BY <2>1, <2>3, <2>4 DEF IInv, OneHolder
<1> QED  BY <1>1, InductiveInvariant, PTL

(* Only its own complete_scan_with_findings turns a running scan into a    *)
(* completed one.                                                          *)
LEMMA OnlyItsWorkerCompletesAScan ==
  ASSUME IInv, [Next]_vars, NEW w \in Worker, scans[w] = "running", scans'[w] = "completed"
  PROVE  w \in Session /\ LeasedCommit(w) /\ call[w] = "complete_scan_with_findings"
<1> USE DEF IInv
<1>1. StateInv  BY DEF StateInv
<1>2. PICK s \in Session : LeasedCommit(s)
  <2>1. CASE \A s \in Session : ~LeasedCommit(s)
    <3>1. scans' = scans  BY <2>1, QuietSteps DEF Quiet
    <3> QED  BY <3>1
  <2> QED  BY <2>1
<1>3. Write(s) /\ call[s] \in LeasedCall
  BY <1>1, <1>2, CommittersOwnTheLease DEF LeasedCommit
<1>4. scans' # scans  OBVIOUS
<1>5. call[s] \notin {"store_document", "store_result", "end_scan", "renew_lease"}
  BY <1>3, <1>4 DEF Write
<1>6. CASE call[s] = "try_start_scan"
  <2>1. scans'[w] \in {scans[w], "failed"}  BY <1>3, <1>6 DEF Write, Abandon, Failed, TypeOK
  <2> QED  BY <2>1
<1>7. CASE call[s] = "start_scan"
  <2>1. scans'[w] \in {scans[w], "running"}  BY <1>3, <1>7 DEF Write, TypeOK
  <2> QED  BY <2>1
<1>8. CASE call[s] = "fail_scan"
  <2>1. scans'[w] \in {scans[w], "failed"}  BY <1>3, <1>8 DEF Write, Failed, TypeOK
  <2> QED  BY <2>1
<1>9. CASE call[s] = "prune_scans"
  <2>1. scans'[w] \in {scans[w], "gone"}  BY <1>3, <1>9 DEF Write, Prune
  <2> QED  BY <2>1
<1>10. CASE call[s] = "clear_all_if_idle"
  <2>1. scans'[w] \in {"none", "gone"}  BY <1>3, <1>10 DEF Write, Clear
  <2> QED  BY <2>1
<1>11. CASE call[s] = "complete_scan_with_findings"
  <2>1. scans' = [scans EXCEPT ![s] = "completed"]  BY <1>3, <1>11 DEF Write
  <2>2. w = s  BY <2>1 DEF TypeOK
  <2> QED  BY <1>2, <1>11, <2>2
<1> QED  BY <1>3, <1>5, <1>6, <1>7, <1>8, <1>9, <1>10, <1>11 DEF LeasedCall, OwnerCall

(* The sync of a completing scan treats every finding as it would with     *)
(* nobody else connected, but for the reviews committed after it selected  *)
(* the finding, which stand or are lost in the ways the property lists.    *)
THEOREM SyncIsSerial == Spec => SyncIsSerialButForRaces
<1>1. ASSUME IInv, [Next]_vars, NEW w \in Worker, scans[w] = "running", scans'[w] = "completed",
             NEW f \in DOMAIN finding'
      PROVE  SerialButForAReview(w, f)
  <2> DEFINE old == read[w][f]
             row == finding[f]
  <2>1. w \in Session /\ LeasedCommit(w) /\ call[w] = "complete_scan_with_findings"
    BY <1>1, OnlyItsWorkerCompletesAScan
  <2>2. StateInv /\ TypeOK /\ ReadsStand  BY <1>1 DEF IInv, StateInv
  <2>3. DOMAIN read[w] = Finding  BY <2>1, <2>2, CompletionHasReadEverything
  <2>4. SyncFindings(w)  BY <2>1, <2>2, CommittersOwnTheLease DEF Write
  <2>5. f \in DOMAIN finding \cup DOMAIN results[w]
        /\ finding'[f] = Synced(w, f, RowOf(f), old)
    BY <1>1, <2>4 DEF SyncFindings
  <2>6. f \in Finding  BY <2>2, <2>5 DEF TypeOK
  <2>7. /\ old # None <=> f \in DOMAIN finding
        /\ f \in DOMAIN finding => old.hash = row.hash /\ old.seen = row.seen
    BY <2>2, <2>3, <2>6 DEF ReadsStand
  <2>8. CASE f \notin DOMAIN finding \/ old = row
    <3>1. RowOf(f) = old  BY <2>7, <2>8 DEF RowOf
    <3> QED  BY <2>5, <3>1 DEF SerialButForAReview
  <2>9. CASE f \in DOMAIN finding /\ old # row
    <3>1. old \in FindingRow /\ row \in FindingRow
      BY <2>2, <2>3, <2>6, <2>7, <2>9 DEF TypeOK
    <3>2. ReviewedSince(old, row)
      <4>1. row = [old EXCEPT !.state = row.state, !.until = row.until]
        BY <2>7, <2>9, <3>1 DEF FindingRow
      <4> QED  BY <2>7, <2>9, <3>1, <4>1 DEF ReviewedSince, FindingRow
    <3>3. RowOf(f) = row  BY <2>9 DEF RowOf
    <3>4. CASE f \in DOMAIN results[w] /\ Reopens(old, results[w][f])
      <4>1. finding'[f] = [state |-> "open", hash |-> results[w][f], until |-> None, seen |-> w]
        BY <2>5, <3>4 DEF Synced
      <4>2. finding'[f].state = "open"  BY <4>1
      <4> QED  BY <2>9, <3>2, <3>4, <4>2 DEF SerialButForAReview
    <3>5. CASE f \in DOMAIN results[w] /\ ~Reopens(old, results[w][f])
      <4>1. finding'[f] = [row EXCEPT !.hash = results[w][f], !.seen = w]
        BY <2>5, <2>7, <2>9, <3>3, <3>5 DEF Synced
      <4> QED  BY <2>9, <3>2, <3>5, <4>1 DEF SerialButForAReview
    <3>6. CASE f \notin DOMAIN results[w] /\ old.state # "fixed"
      <4>1. finding'[f] = [row EXCEPT !.state = "fixed"]
        BY <2>5, <3>3, <3>6 DEF Synced
      <4> QED  BY <2>9, <3>2, <3>6, <4>1 DEF SerialButForAReview
    <3>7. CASE f \notin DOMAIN results[w] /\ old.state = "fixed"
      <4>1. finding'[f] = row  BY <2>5, <3>3, <3>7 DEF Synced
      <4> QED  BY <2>9, <3>2, <3>7, <4>1 DEF SerialButForAReview
    <3> QED  BY <3>4, <3>5, <3>6, <3>7
  <2> QED  BY <2>8, <2>9
<1>2. IInv /\ [Next]_vars =>
        \A w \in Worker : scans[w] = "running" /\ scans'[w] = "completed" =>
          \A f \in DOMAIN finding' : SerialButForAReview(w, f)
  BY <1>1
<1> QED  BY <1>2, InductiveInvariant, PTL DEF Spec, SyncIsSerialButForRaces

(* PostgresStorage implements ScanLedger, as SQLite's store does: one      *)
(* running scan at a time, and one outcome each that nothing overwrites.   *)
THEOREM RefinesLedger == Spec => LedgerSpec
<1>1. Init => Ledger!Init
  BY DEF Init, Ledger!Init, Entry
<1>2. IInv /\ [Next]_vars => [Ledger!Next]_Outcome
  <2> SUFFICES ASSUME IInv, [Next]_vars  PROVE Ledger!Next \/ UNCHANGED Outcome
    OBVIOUS
  <2>1. StateInv  BY DEF IInv, StateInv
  <2>2. CASE \E s \in Session : LeasedCommit(s)
    BY <2>1, <2>2, CommitsAreSound DEF CommitSound
  <2>3. CASE \A s \in Session : ~LeasedCommit(s)
    <3>1. Quiet  BY <2>1, <2>3, QuietSteps DEF StateInv
    <3> QED  BY <3>1 DEF Quiet, Outcome, Entry
  <2> QED  BY <2>2, <2>3
<1> QED
  BY <1>1, <1>2, InductiveInvariant, PTL DEF Spec, LedgerSpec, Ledger!Spec, Outcome
===============================================================================
