-------------------------- MODULE DebugBrowserProofs --------------------------
(***************************************************************************)
(* Theorems about ScanKeys and QueryRows of DebugBrowser, for any keys,    *)
(* buckets, rows, limits and number of changes.                            *)
(***************************************************************************)
EXTENDS DebugBrowser, FiniteSetTheorems, WellFoundedInduction, TLAPS

TypeInv ==
    /\ view \in {"none", "names", "rows", "keys"}
    /\ step \in {"client", "count", "fetch", "scan", "examine", "answer", "done"}
    /\ present \subseteq Things /\ stayed \subseteq present
    /\ view \in {"keys", "none"} => at \in 0..(Buckets - 1) /\ next \in 0..(Buckets - 1)
    /\ view = "none" => step = "done" /\ at = 0 /\ next = 0
    /\ view = "keys" => step \in {"scan", "examine", "answer", "done"}
    /\ view # "keys" => found = {} /\ batch = {}

(* Buckets that the client has not come to *)
Ahead(k) == Bucket[k] >= next /\ (next # 0 \/ step = "scan")

(* A key that stays is on a page, or lost, or about to be shown, or in a   *)
(* bucket still to come. A request that fails puts the cursor back to      *)
(* where the page began, before all that was found for it.                 *)
KeyInv(k) ==
    \/ k \in shown \cup lost
    \/ k \in found \cup batch /\ Bucket[k] >= at
    \/ Ahead(k)

KeysInv ==
    view = "keys" =>
        /\ next >= at \/ (next = 0 /\ step # "scan")
        /\ step = "scan" => batch = {}
        /\ step \in {"answer", "done"} => batch = {}
        /\ step = "done" => found = {} /\ next = 0
        /\ \A k \in stayed \cap Matching : KeyInv(k)

BrowserInv == TypeInv /\ KeysInv

-----------------------------------------------------------------------------

(* The client arrives or leaves. *)
LEMMA BrowseStep ==
    ASSUME BrowserInv, NEW what \in {"names", "rows", "keys"}, NEW first, Browse(what, first),
           first \in {"client", "fetch", "scan"}, what = "keys" => first = "scan"
    PROVE  BrowserInv'
<1>1. /\ view = "none" /\ view' = what /\ step' = first /\ stayed' = present'
      /\ present' \subseteq Things
      /\ UNCHANGED <<at, batch, next, found, shown>>
  BY DEF Browse, clientVars
<1>2. TypeInv'
  BY <1>1 DEF BrowserInv, TypeInv
<1>3. ASSUME view' = "keys", NEW k \in stayed' PROVE Ahead(k)'
  BY <1>1, <1>3, BrowserAssumption DEF BrowserInv, TypeInv, Ahead
<1>4. KeysInv'
  BY <1>1, <1>3 DEF BrowserInv, TypeInv, KeysInv, KeyInv
<1> QED BY <1>2, <1>4 DEF BrowserInv

(* The steps of lists of names and of rows. *)
LEMMA RowsStep ==
    ASSUME BrowserInv, FetchNames \/ Introspect \/ CountRows \/ FetchRows \/ Leave
    PROVE  BrowserInv'
<1>1. CASE FetchNames \/ FetchRows
  <2>1. /\ view' = view /\ view \in {"names", "rows"} /\ step' \in {"client", "done"}
        /\ UNCHANGED <<present, stayed, found, batch>>
    BY <1>1 DEF FetchNames, FetchRows
  <2> QED BY <2>1 DEF BrowserInv, TypeInv, KeysInv
<1>2. CASE Introspect \/ CountRows
  BY <1>2 DEF Introspect, CountRows, BrowserInv, TypeInv, KeysInv, clientVars
<1>3. CASE Leave
  BY <1>3, BrowserAssumption DEF Leave, BrowserInv, TypeInv, KeysInv, clientVars
<1> QED BY <1>1, <1>2, <1>3

(* The steps of ScanKeys: no key falls between the batch and the cursor unnoticed. *)
LEMMA KeysStep ==
    ASSUME BrowserInv, Scan \/ Examine \/ EndOfBatch \/ AnswerKeys
    PROVE  BrowserInv'
<1> USE BrowserAssumption
<1>1. stayed \cap Matching \subseteq Things /\ \A k \in Things : Bucket[k] \in 0..(Buckets - 1)
  BY DEF BrowserInv, TypeInv
<1>2. CASE Scan
  <2>1. PICK b \in next..(Buckets - 1) : batch' = InBuckets(next, b) /\ next' = (b + 1) % Buckets
    BY <1>2 DEF Scan, clientVars
  <2>2. /\ view = "keys" /\ step = "scan" /\ view' = "keys" /\ step' = "examine"
        /\ UNCHANGED <<present, stayed, at, found, shown, lost>>
    BY <1>2 DEF Scan, clientVars
  <2>3. at \in 0..(Buckets - 1) /\ next \in 0..(Buckets - 1) /\ next >= at /\ batch = {}
    BY <2>2 DEF BrowserInv, TypeInv, KeysInv
  <2>4. next' = IF b = Buckets - 1 THEN 0 ELSE b + 1
    BY <2>1, <2>3
  <2>5. TypeInv'
    BY <2>2, <2>3, <2>4 DEF BrowserInv, TypeInv
  <2>6. ASSUME NEW k \in stayed \cap Matching PROVE KeyInv(k)'
    <3>1. KeyInv(k) /\ k \in present /\ Bucket[k] \in 0..(Buckets - 1)
      BY <1>1, <2>2, <2>6 DEF BrowserInv, TypeInv, KeysInv
    <3>2. CASE Ahead(k)
      <4>1. CASE Bucket[k] <= b
        BY <2>1, <2>2, <2>3, <3>1, <3>2, <4>1 DEF Ahead, InBuckets, KeyInv
      <4>2. CASE Bucket[k] > b
        BY <2>1, <2>2, <2>3, <2>4, <3>1, <4>2 DEF Ahead, KeyInv
      <4> QED BY <2>1, <2>3, <3>1, <4>1, <4>2
    <3>3. CASE ~Ahead(k)
      BY <2>2, <2>3, <3>1, <3>3 DEF KeyInv
    <3> QED BY <3>2, <3>3
  <2>7. next' >= at' \/ next' = 0
    BY <2>2, <2>3, <2>4
  <2> QED BY <2>2, <2>5, <2>6, <2>7 DEF BrowserInv, KeysInv
<1>3. CASE Examine
  <2>1. /\ view = "keys" /\ step = "examine"
        /\ UNCHANGED <<view, step, present, limit, at, next, shown, stayed>>
    BY <1>3 DEF Examine, clientVars
  <2>2. PICK k \in batch :
           /\ batch' = batch \ {k}
           /\ \/ k \notin Matching \cap present /\ UNCHANGED <<found, lost>>
              \/ k \in Matching /\ lost' = lost \cup {k} /\ UNCHANGED found
              \/ k \in Matching /\ found' = found \cup {k} /\ UNCHANGED lost
    BY <1>3 DEF Examine, clientVars
  <2>3. \A x \in stayed \cap Matching : KeyInv(x) => KeyInv(x)'
    BY <2>1, <2>2 DEF KeyInv, Ahead, BrowserInv, TypeInv
  <2> QED BY <2>1, <2>3 DEF BrowserInv, TypeInv, KeysInv
<1>4. CASE EndOfBatch
  <2>1. /\ view = "keys" /\ step = "examine" /\ view' = "keys"
        /\ lost' = lost \cup batch /\ batch' = {}
        /\ step' \in {"scan", "answer"} /\ (step' = "scan" => next # 0)
        /\ UNCHANGED <<present, at, next, found, shown, stayed>>
    BY <1>4 DEF EndOfBatch, clientVars
  <2>2. \A x \in stayed \cap Matching : KeyInv(x) => KeyInv(x)'
    BY <2>1 DEF KeyInv, Ahead
  <2>3. next' >= at' \/ (next' = 0 /\ step' # "scan")
    BY <2>1 DEF BrowserInv, KeysInv
  <2> QED BY <2>1, <2>2, <2>3 DEF BrowserInv, TypeInv, KeysInv
<1>5. CASE AnswerKeys
  <2>1. /\ view = "keys" /\ step = "answer" /\ view' = "keys"
        /\ Show(found) /\ found' = {} /\ at' = next
        /\ step' = IF next = 0 THEN "done" ELSE "scan"
        /\ UNCHANGED <<present, batch, next, lost, stayed>>
    BY <1>5 DEF AnswerKeys, clientVars
  <2>2. batch = {} /\ at \in 0..(Buckets - 1) /\ next \in 0..(Buckets - 1)
    BY <2>1 DEF BrowserInv, TypeInv, KeysInv
  <2>3. shown' = shown \cup found
    BY <2>1 DEF Show
  <2>4. \A x \in stayed \cap Matching : KeyInv(x) => KeyInv(x)'
    BY <1>1, <2>1, <2>2, <2>3 DEF KeyInv, Ahead
  <2> QED BY <2>1, <2>2, <2>3, <2>4 DEF BrowserInv, TypeInv, KeysInv
<1> QED BY <1>2, <1>3, <1>4, <1>5

(* Failures and changes in the tables: a key that has gone or come has not stayed. *)
LEMMA OtherStep ==
    ASSUME BrowserInv, RequestFails \/ ThingAppears \/ ThingDisappears
    PROVE  BrowserInv'
<1> USE BrowserAssumption
<1>1. CASE RequestFails
  <2>1. CASE view = "keys"
    <3>1. /\ step = "scan" /\ view' = "keys" /\ step' = "scan" /\ next' = at /\ found' = {}
          /\ UNCHANGED <<present, at, batch, shown, lost, stayed>>
      BY <1>1, <2>1 DEF RequestFails, BrowserInv, TypeInv, clientVars
    <3>2. /\ batch = {} /\ next >= at /\ at \in 0..(Buckets - 1) /\ next \in 0..(Buckets - 1)
      BY <2>1, <3>1 DEF BrowserInv, TypeInv, KeysInv
    <3>3. \A x \in stayed \cap Matching : KeyInv(x) => KeyInv(x)'
      <4> SUFFICES ASSUME NEW x \in stayed \cap Matching, KeyInv(x) PROVE KeyInv(x)'
        OBVIOUS
      <4>1. Bucket[x] \in 0..(Buckets - 1)
        BY DEF BrowserInv, TypeInv
      <4> QED BY <3>1, <3>2, <4>1 DEF KeyInv, Ahead
    <3> QED BY <2>1, <3>1, <3>2, <3>3 DEF BrowserInv, TypeInv, KeysInv
  <2>2. CASE view # "keys"
    <3>1. /\ view \in {"names", "rows"} /\ view' = view /\ step' \in {"client", "fetch"}
          /\ found' = {} /\ UNCHANGED <<present, batch, shown, stayed>>
      BY <1>1, <2>2 DEF RequestFails, BrowserInv, TypeInv, clientVars
    <3> QED BY <3>1 DEF BrowserInv, TypeInv, KeysInv
  <2> QED BY <2>1, <2>2
<1>2. CASE ThingAppears \/ ThingDisappears
  <2>1. /\ stayed' \subseteq stayed /\ stayed' \subseteq present' /\ present' \subseteq Things
        /\ UNCHANGED <<view, step, at, batch, next, found, shown, lost>>
    BY <1>2 DEF ThingAppears, ThingDisappears, BrowserInv, TypeInv, clientVars
  <2>2. \A x : KeyInv(x) => KeyInv(x)'
    BY <2>1 DEF KeyInv, Ahead
  <2> QED BY <2>1, <2>2 DEF BrowserInv, TypeInv, KeysInv
<1> QED BY <1>1, <1>2

(* The invariant about the cursor, and with it what ScanKeys promises.     *)
THEOREM InvariantHolds == BrowserSpec => []BrowserInv
<1>1. BrowserInit => BrowserInv
  <2> SUFFICES ASSUME BrowserInit PROVE BrowserInv
    OBVIOUS
  <2>1. TypeInv
    BY BrowserAssumption DEF BrowserInit, TypeInv
  <2> QED BY <2>1 DEF BrowserInit, BrowserInv, KeysInv
<1>2. ASSUME BrowserInv, [BrowserNext]_browserVars PROVE BrowserInv'
  <2>1. CASE ListDatabases \/ ListTables \/ DescribeTable \/ QueryRows \/ ScanKeys
    BY <1>2, <2>1, BrowseStep DEF ListDatabases, ListTables, DescribeTable, QueryRows, ScanKeys
  <2>2. CASE UNCHANGED browserVars
    BY <1>2, <2>2 DEF browserVars, BrowserInv, TypeInv, KeysInv, KeyInv, Ahead, clientVars
  <2> QED
    BY <1>2, <2>1, <2>2, RowsStep, KeysStep, OtherStep DEF BrowserNext
<1> QED BY <1>1, <1>2, PTL DEF BrowserSpec

(* A key that stays and matches is on one of the pages, unless its TYPE or *)
(* TTL failed or it stood behind the limit in its batch.                   *)
THEOREM KeysAreShown == BrowserSpec => []KeysLostOnlyByCut
<1>1. BrowserInv => KeysLostOnlyByCut
  <2> SUFFICES ASSUME BrowserInv, view = "keys", step = "done", NEW k \in stayed \cap Matching
               PROVE  k \in shown \cup lost
    BY DEF KeysLostOnlyByCut, BrowserInv, TypeInv
  <2> QED BY DEF BrowserInv, KeysInv, KeyInv, Ahead
<1> QED BY <1>1, InvariantHolds, PTL

-----------------------------------------------------------------------------
(* Ranks *)

RankIn(P, x) == Cardinality({y \in P : y <= x})

Rows == {P \in SUBSET Nat : IsFiniteSet(P)}

(* A rank is a number, and that of a row counts the row. *)
LEMMA RankType ==
    ASSUME NEW P \in Rows, NEW x
    PROVE  /\ IsFiniteSet({y \in P : y <= x}) /\ RankIn(P, x) \in Nat
           /\ x \in P => RankIn(P, x) >= 1
<1>1. IsFiniteSet({y \in P : y <= x})
  BY FS_Subset DEF Rows
<1>2. RankIn(P, x) \in Nat
  BY <1>1, FS_CardinalityType DEF RankIn
<1>3. ASSUME x \in P
      PROVE  RankIn(P, x) # 0
  <2>1. x \in {y \in P : y <= x}
    BY <1>3 DEF Rows
  <2> QED BY <1>1, <2>1, FS_EmptySet DEF RankIn
<1> QED BY <1>1, <1>2, <1>3

(* Ranks are in the order of the rows. *)
LEMMA RankOrder ==
    ASSUME NEW P \in Rows, NEW x \in P, NEW z \in P, x < z
    PROVE  RankIn(P, x) < RankIn(P, z)
<1> DEFINE X == {y \in P : y <= x}
           Z == {y \in P : y <= z}
<1>1. X \subseteq Z /\ z \in Z /\ z \notin X
  <2>1. P \subseteq Nat
    BY DEF Rows
  <2>2. z \in Z /\ z \notin X
    BY <2>1
  <2>3. ASSUME NEW y \in P, y <= x
        PROVE  y <= z
    <3>1. x \in Nat /\ y \in Nat /\ z \in Nat
      BY <2>1
    <3> QED BY <2>3, <3>1
  <2> QED BY <2>2, <2>3
<1>2. IsFiniteSet(X) /\ IsFiniteSet(Z)
  BY RankType
<1>3. Cardinality(X) \in Nat /\ Cardinality(Z) \in Nat
  BY <1>2, FS_CardinalityType
<1>4. Cardinality(X) <= Cardinality(Z) /\ Cardinality(X) # Cardinality(Z)
  BY <1>1, <1>2, FS_Subset
<1> QED BY <1>3, <1>4 DEF RankIn

(* No two rows have the same rank. *)
LEMMA RankIsUnique ==
    ASSUME NEW P \in Rows, NEW x \in P, NEW z \in P, RankIn(P, x) = RankIn(P, z)
    PROVE  x = z
<1>1. x \in Nat /\ z \in Nat
  BY DEF Rows
<1>2. RankIn(P, x) \in Nat
  BY RankType
<1>3. x < z \/ z < x \/ x = z
  BY <1>1
<1> QED BY <1>2, <1>3, RankOrder

(* A row that comes raises the ranks from its own place on. *)
LEMMA RankGrows ==
    ASSUME NEW P \in Rows, NEW x \in Nat \ P, NEW z \in Nat
    PROVE  /\ P \cup {x} \in Rows
           /\ RankIn(P \cup {x}, z) = IF x <= z THEN RankIn(P, z) + 1 ELSE RankIn(P, z)
<1>1. P \cup {x} \in Rows
  BY FS_AddElement DEF Rows
<1> DEFINE Z == {y \in P : y <= z}
<1>2. IsFiniteSet(Z) /\ x \notin Z
  BY RankType
<1>3. CASE x <= z
  <2>1. {y \in P \cup {x} : y <= z} = Z \cup {x}
    BY <1>3
  <2> QED BY <1>1, <1>2, <1>3, <2>1, FS_AddElement DEF RankIn
<1>4. CASE ~(x <= z)
  <2>1. {y \in P \cup {x} : y <= z} = Z
    BY <1>4
  <2> QED BY <1>1, <1>4, <2>1 DEF RankIn
<1> QED BY <1>3, <1>4

(* A set of rows has a first one. *)
LEMMA FirstRow ==
    ASSUME NEW T \in Rows, T # {}
    PROVE  \E x \in T : \A z \in T : x <= z
<1> DEFINE upTo(x) == {y \in T : y <= x}
           F == {upTo(x) : x \in T}
<1>1. F \subseteq FiniteSubsetsOf(T) /\ F # {}
  <2>1. ASSUME NEW x \in T
        PROVE  upTo(x) \in FiniteSubsetsOf(T)
    BY RankType DEF FiniteSubsetsOf
  <2> QED BY <2>1
<1>2. PICK U \in F : \A V \in F : ~(<<V, U>> \in StrictSubsetOrdering(T))
  BY <1>1, FS_StrictSubsetOrderingWellFounded, WFMin
<1>3. PICK x \in T : U = upTo(x)
  BY <1>2
<1>4. ASSUME NEW z \in T, ~(x <= z)
      PROVE  FALSE
  <2>1. x \in Nat /\ z \in Nat /\ z < x
    BY <1>4 DEF Rows
  <2>2. upTo(z) \subseteq upTo(x)
    <3> SUFFICES ASSUME NEW y \in T, y <= z
                 PROVE  y <= x
      OBVIOUS
    <3>1. y \in Nat
      BY DEF Rows
    <3> QED BY <2>1, <3>1
  <2>3. x \in upTo(x) /\ x \notin upTo(z)
    BY <2>1
  <2>4. upTo(z) \in F /\ <<upTo(z), upTo(x)>> \in StrictSubsetOrdering(T)
    BY <2>2, <2>3 DEF StrictSubsetOrdering
  <2> QED BY <1>2, <1>3, <2>4
<1> QED BY <1>4

(* When there is a row behind place n, there is one at the next place. *)
LEMMA NextRank ==
    ASSUME NEW P \in Rows, NEW n \in Nat, NEW z \in P, RankIn(P, z) > n
    PROVE  \E x \in P : RankIn(P, x) = n + 1
<1> DEFINE T == {y \in P : RankIn(P, y) > n}
<1>1. T \in Rows /\ T # {}
  BY FS_Subset DEF Rows
<1>2. PICK x \in T : \A y \in T : x <= y
  BY <1>1, FirstRow
<1>3. x \in P /\ RankIn(P, x) > n /\ RankIn(P, x) \in Nat
  BY <1>2, RankType
<1> DEFINE X == {y \in P : y <= x}
           L == X \ {x}
<1>4. IsFiniteSet(X) /\ x \in X
  BY <1>3, RankType DEF Rows
<1>5. IsFiniteSet(L) /\ Cardinality(L) = RankIn(P, x) - 1
  BY <1>4, FS_RemoveElement DEF RankIn
<1>6. \A y \in L : RankIn(P, y) \in 1..n
  <2> SUFFICES ASSUME NEW y \in L
               PROVE  RankIn(P, y) \in 1..n
    OBVIOUS
  <2>1. y \in P /\ ~(x <= y)
    BY <1>3 DEF Rows
  <2>2. y \notin T
    BY <1>2, <2>1
  <2>3. RankIn(P, y) \in Nat /\ RankIn(P, y) >= 1
    BY <2>1, RankType
  <2> QED BY <2>1, <2>2, <2>3
<1> DEFINE f == [y \in L |-> RankIn(P, y)]
<1>7. f \in Injection(L, 1..n)
  <2>1. f \in [L -> 1..n]
    BY <1>6
  <2>2. \A y, w \in L : f[y] = f[w] => y = w
    BY RankIsUnique
  <2> QED BY <2>1, <2>2 DEF Injection, IsInjective
<1> HIDE DEF f, L
<1>8. Cardinality(L) <= n
  <2>1. IsFiniteSet(1..n) /\ Cardinality(1..n) = n
    BY FS_Interval
  <2> QED BY <1>7, <2>1, FS_Injection
<1>9. RankIn(P, x) = n + 1
  BY <1>3, <1>5, <1>8
<1> QED BY <1>3, <1>9

-----------------------------------------------------------------------------
(* Pages of rows *)

(* The rows of st at the first n places of P that are not in sh, and those of *)
(* sh at the places behind. *)
UnseenOf(P, st, sh, n) == {x \in st : RankIn(P, x) <= n /\ x \notin sh}
DoubledOf(P, sh, n) == {x \in P \cap sh : RankIn(P, x) > n}

(* They are finitely many. *)
LEMMA PartsAreFinite ==
    ASSUME NEW P \in Rows, NEW st \in SUBSET P, NEW sh, NEW n
    PROVE  /\ IsFiniteSet(UnseenOf(P, st, sh, n)) /\ Cardinality(UnseenOf(P, st, sh, n)) \in Nat
           /\ IsFiniteSet(DoubledOf(P, sh, n)) /\ Cardinality(DoubledOf(P, sh, n)) \in Nat
<1>1. UnseenOf(P, st, sh, n) \in SUBSET P /\ DoubledOf(P, sh, n) \in SUBSET P
  BY DEF UnseenOf, DoubledOf
<1>2. IsFiniteSet(UnseenOf(P, st, sh, n)) /\ IsFiniteSet(DoubledOf(P, sh, n))
  BY <1>1, FS_Subset DEF Rows
<1> QED BY <1>2, FS_CardinalityType

(* A set that has at most one element that another one lacks. *)
LEMMA OneMore ==
    ASSUME NEW S, NEW T, IsFiniteSet(T), \A y, z \in S : y \notin T /\ z \notin T => y = z
    PROVE  IsFiniteSet(S) /\ Cardinality(S) \in Nat /\ Cardinality(S) <= Cardinality(T) + 1
<1>1. Cardinality(T) \in Nat
  BY FS_CardinalityType
<1>2. PICK x : S \subseteq T \cup {x}
  <2>1. CASE S \subseteq T
    BY <2>1
  <2>2. CASE ~(S \subseteq T)
    <3>1. PICK y \in S : y \notin T
      BY <2>2
    <3>2. S \subseteq T \cup {y}
      BY <3>1
    <3> QED BY <3>2
  <2> QED BY <2>1, <2>2
<1>3. IsFiniteSet(T \cup {x}) /\ Cardinality(T \cup {x}) \in Nat
  BY FS_AddElement, FS_CardinalityType
<1>4. Cardinality(T \cup {x}) <= Cardinality(T) + 1
  BY <1>1, FS_AddElement
<1>5. IsFiniteSet(S) /\ Cardinality(S) <= Cardinality(T \cup {x})
  BY <1>2, <1>3, FS_Subset
<1>6. Cardinality(S) \in Nat
  BY <1>5, FS_CardinalityType
<1> QED BY <1>1, <1>3, <1>4, <1>5, <1>6

(* A row that comes moves at most one row that was shown behind the places seen. *)
LEMMA RowComes ==
    ASSUME NEW P \in Rows, NEW st \in SUBSET P, NEW sh, NEW n \in Nat, NEW x \in Nat \ P
    PROVE  LET Q == P \cup {x}
           IN  /\ Q \in Rows
               /\ Cardinality(UnseenOf(Q, st, sh, n)) <= Cardinality(UnseenOf(P, st, sh, n))
               /\ Cardinality(DoubledOf(Q, sh, n)) <= Cardinality(DoubledOf(P, sh, n)) + 1
<1> DEFINE Q == P \cup {x}
<1>1. Q \in Rows /\ Q \subseteq Nat /\ P \subseteq Nat
  BY RankGrows DEF Rows
<1>2. \A z \in Q : /\ RankIn(P, z) \in Nat /\ RankIn(Q, z) \in Nat
                  /\ RankIn(Q, z) = IF x <= z THEN RankIn(P, z) + 1 ELSE RankIn(P, z)
  <2>1. \A z : RankIn(P, z) \in Nat /\ RankIn(Q, z) \in Nat
    BY <1>1, RankType
  <2>2. \A z \in Nat : RankIn(P \cup {x}, z) = IF x <= z THEN RankIn(P, z) + 1 ELSE RankIn(P, z)
    BY <1>1, RankGrows
  <2> QED BY <1>1, <2>1, <2>2
<1>3. UnseenOf(Q, st, sh, n) \subseteq UnseenOf(P, st, sh, n)
  <2> SUFFICES ASSUME NEW z \in st, RankIn(Q, z) <= n
               PROVE  RankIn(P, z) <= n
    BY DEF UnseenOf
  <2>1. z \in Q
    OBVIOUS
  <2> QED BY <1>2, <2>1
<1>4. Cardinality(UnseenOf(Q, st, sh, n)) <= Cardinality(UnseenOf(P, st, sh, n))
  BY <1>3, PartsAreFinite, FS_Subset
<1>5. ASSUME NEW y \in DoubledOf(Q, sh, n), NEW z \in DoubledOf(Q, sh, n),
             y \notin DoubledOf(P, sh, n), z \notin DoubledOf(P, sh, n), y < z
      PROVE  FALSE
  <2>1. y \in Q /\ z \in Q /\ RankIn(Q, y) > n /\ RankIn(Q, z) > n
    BY DEF DoubledOf
  <2>2. RankIn(Q, y) < RankIn(Q, z)
    BY <1>1, <1>5, <2>1, RankOrder
  <2>3. \A w \in {y, z} : w # x => RankIn(P, w) <= n
    BY <1>2, <1>5, <2>1 DEF DoubledOf
  <2>4. x \in Nat /\ y \in Nat /\ z \in Nat
    BY <1>1, <2>1
  <2>5. /\ RankIn(P, y) \in Nat /\ RankIn(Q, y) \in Nat
        /\ RankIn(Q, y) = IF x <= y THEN RankIn(P, y) + 1 ELSE RankIn(P, y)
    BY <1>2, <2>1
  <2>6. /\ RankIn(P, z) \in Nat /\ RankIn(Q, z) \in Nat
        /\ RankIn(Q, z) = IF x <= z THEN RankIn(P, z) + 1 ELSE RankIn(P, z)
    BY <1>2, <2>1
  <2>7. z # x => RankIn(Q, z) <= n + 1
    BY <2>3, <2>6
  <2>8. z = x => RankIn(Q, y) = RankIn(P, y) /\ RankIn(P, y) <= n
    BY <1>5, <2>3, <2>4, <2>5
  <2> QED BY <2>1, <2>2, <2>5, <2>6, <2>7, <2>8
<1>6. Cardinality(DoubledOf(Q, sh, n)) <= Cardinality(DoubledOf(P, sh, n)) + 1
  <2>1. \A y, z \in DoubledOf(Q, sh, n) :
           y \notin DoubledOf(P, sh, n) /\ z \notin DoubledOf(P, sh, n) => y = z
    <3> SUFFICES ASSUME NEW y \in DoubledOf(Q, sh, n), NEW z \in DoubledOf(Q, sh, n),
                        y \notin DoubledOf(P, sh, n), z \notin DoubledOf(P, sh, n)
                 PROVE  y = z
      OBVIOUS
    <3>1. y \in Nat /\ z \in Nat
      BY <1>1 DEF DoubledOf
    <3>2. y < z \/ z < y \/ y = z
      BY <3>1
    <3> QED BY <1>5, <3>2
  <2>2. IsFiniteSet(DoubledOf(P, sh, n))
    BY PartsAreFinite
  <2> QED BY <2>1, <2>2, OneMore
<1> QED BY <1>1, <1>4, <1>6

(* A row that goes moves at most one row that was not shown before them. *)
LEMMA RowGoes ==
    ASSUME NEW P \in Rows, NEW st \in SUBSET P, NEW sh, NEW n \in Nat, NEW x \in P
    PROVE  LET Q == P \ {x}
           IN  /\ Q \in Rows
               /\ Cardinality(UnseenOf(Q, st \ {x}, sh, n)) <= Cardinality(UnseenOf(P, st, sh, n)) + 1
               /\ Cardinality(DoubledOf(Q, sh, n)) <= Cardinality(DoubledOf(P, sh, n))
<1> DEFINE Q == P \ {x}
<1>1. Q \in Rows /\ Q \subseteq Nat /\ P \subseteq Nat /\ x \in Nat \ Q /\ Q \cup {x} = P
  BY FS_RemoveElement DEF Rows
<1> HIDE DEF Q
<1>2. \A z \in Q : /\ RankIn(P, z) \in Nat /\ RankIn(Q, z) \in Nat
                  /\ RankIn(P, z) = IF x <= z THEN RankIn(Q, z) + 1 ELSE RankIn(Q, z)
  <2>1. \A z : RankIn(P, z) \in Nat /\ RankIn(Q, z) \in Nat
    BY <1>1, RankType
  <2>2. \A z \in Nat : RankIn(Q \cup {x}, z) = IF x <= z THEN RankIn(Q, z) + 1 ELSE RankIn(Q, z)
    BY <1>1, RankGrows
  <2> QED BY <1>1, <2>1, <2>2
<1>3. DoubledOf(Q, sh, n) \subseteq DoubledOf(P, sh, n)
  <2> SUFFICES ASSUME NEW z \in Q, RankIn(Q, z) > n
               PROVE  z \in P /\ RankIn(P, z) > n
    BY DEF DoubledOf
  <2> QED BY <1>1, <1>2
<1>4. Cardinality(DoubledOf(Q, sh, n)) <= Cardinality(DoubledOf(P, sh, n))
  BY <1>3, PartsAreFinite, FS_Subset
<1>5. \A y, z \in UnseenOf(Q, st \ {x}, sh, n) :
         y \notin UnseenOf(P, st, sh, n) /\ z \notin UnseenOf(P, st, sh, n) => y = z
  <2> SUFFICES ASSUME NEW y \in UnseenOf(Q, st \ {x}, sh, n), NEW z \in UnseenOf(Q, st \ {x}, sh, n),
                      y \notin UnseenOf(P, st, sh, n), z \notin UnseenOf(P, st, sh, n)
               PROVE  y = z
    OBVIOUS
  <2>1. \A w \in {y, z} : w \in P /\ RankIn(P, w) = n + 1
    <3> SUFFICES ASSUME NEW w \in {y, z}
                 PROVE  w \in P /\ RankIn(P, w) = n + 1
      OBVIOUS
    <3>1. w \in st /\ w \in P /\ w # x /\ w \notin sh /\ RankIn(Q, w) <= n /\ ~(RankIn(P, w) <= n)
      BY DEF UnseenOf
    <3>2. w \in Q
      BY <1>1, <3>1
    <3> QED BY <1>2, <3>1, <3>2
  <2> QED BY <2>1, RankIsUnique
<1>6. Cardinality(UnseenOf(Q, st \ {x}, sh, n)) <= Cardinality(UnseenOf(P, st, sh, n)) + 1
  <2>1. IsFiniteSet(UnseenOf(P, st, sh, n))
    BY PartsAreFinite
  <2> QED BY <1>5, <2>1, OneMore
<1> QED BY <1>1, <1>4, <1>6 DEF Q

(* A page of the next m places shows what is there. *)
LEMMA RowsShown ==
    ASSUME NEW P \in Rows, NEW st \in SUBSET P, NEW sh, NEW n \in Nat, NEW m \in Nat
    PROVE  LET S == {x \in P : RankIn(P, x) \in (n + 1)..(n + m)}
           IN  /\ Cardinality(S \cap sh) \in Nat
               /\ Cardinality(UnseenOf(P, st, sh \cup S, n + m)) <= Cardinality(UnseenOf(P, st, sh, n))
               /\ Cardinality(S \cap sh) + Cardinality(DoubledOf(P, sh \cup S, n + m))
                    <= Cardinality(DoubledOf(P, sh, n))
<1> DEFINE S == {x \in P : RankIn(P, x) \in (n + 1)..(n + m)}
           A == DoubledOf(P, sh \cup S, n + m)
           B == S \cap sh
           D == DoubledOf(P, sh, n)
<1>1. \A x \in P : RankIn(P, x) \in Nat
  BY RankType
<1>2. UnseenOf(P, st, sh \cup S, n + m) \subseteq UnseenOf(P, st, sh, n)
  <2> SUFFICES ASSUME NEW x \in st, RankIn(P, x) <= n + m, x \notin S
               PROVE  RankIn(P, x) <= n
    BY DEF UnseenOf
  <2>1. RankIn(P, x) \in Nat /\ RankIn(P, x) \notin (n + 1)..(n + m)
    BY <1>1
  <2> QED BY <2>1
<1>3. Cardinality(UnseenOf(P, st, sh \cup S, n + m)) <= Cardinality(UnseenOf(P, st, sh, n))
  BY <1>2, PartsAreFinite, FS_Subset
<1>4. A \subseteq D /\ B \subseteq D /\ A \cap B = {}
  <2>1. ASSUME NEW x \in A
        PROVE  x \in D /\ x \notin S
    <3>1. x \in P /\ x \in sh \cup S /\ RankIn(P, x) > n + m /\ RankIn(P, x) \in Nat
      BY <1>1 DEF DoubledOf
    <3>2. RankIn(P, x) \notin (n + 1)..(n + m) /\ RankIn(P, x) > n
      BY <3>1
    <3> QED BY <3>1, <3>2 DEF DoubledOf
  <2>2. ASSUME NEW x \in B
        PROVE  x \in D
    BY <1>1 DEF DoubledOf
  <2> QED BY <2>1, <2>2
<1>5. IsFiniteSet(D)
  BY PartsAreFinite
<1> HIDE DEF A, B, D
<1>6. IsFiniteSet(A) /\ IsFiniteSet(B)
  BY <1>4, <1>5, FS_Subset
<1>7. Cardinality(A) \in Nat /\ Cardinality(B) \in Nat
  BY <1>6, FS_CardinalityType
<1>8. Cardinality(A \cup B) = Cardinality(A) + Cardinality(B) - Cardinality(A \cap B)
  BY <1>6, FS_Union
<1>9. Cardinality(A \cap B) = 0 /\ Cardinality(A \cup B) <= Cardinality(D)
  BY <1>4, <1>5, FS_EmptySet, FS_Subset
<1>10. Cardinality(B) + Cardinality(A) <= Cardinality(D)
  BY <1>7, <1>8, <1>9
<1> QED BY <1>3, <1>7, <1>10 DEF A, B, D

(* In this order, without a broken read, and before the largest offset. *)
Definite == ~unsorted /\ lost = {} /\ at <= MaxOffset + limit

Unseen == UnseenOf(present, stayed, shown, at)
Doubled == DoubledOf(present, shown, at)

RowsTypeOK ==
    /\ step \in {"client", "count", "fetch", "done"}
    /\ limit \in Nat /\ limit >= 1 /\ at \in Nat
    /\ repeats \in Nat /\ added \in Nat /\ removed \in Nat

(* While pages are to come each row that went has moved at most one row before *)
(* the offset, and each one that came at most one back behind it; the total is *)
(* that of the table as long as nothing has come or gone. *)
PagesInv ==
    /\ removed = 0 => shown \subseteq present
    /\ added + removed = 0 => stayed = present
    /\ added + removed = 0 /\ step = "fetch" => total = Cardinality(present)
    /\ Definite /\ step # "done" =>
          /\ Cardinality(Unseen) <= removed
          /\ repeats + Cardinality(Doubled) <= added

RowsInv ==
    /\ view = "none" => shown = {} /\ repeats = 0 /\ added = 0 /\ removed = 0
    /\ view = "rows" => RowsTypeOK /\ PagesInv
    /\ RowsPagedOnce

(* The rows that may be present are finitely many. *)
LEMMA RowsAreFinite ==
    ASSUME NEW P \in SUBSET Things
    PROVE  P \in Rows
<1>1. IsFiniteSet(Things) /\ Things \subseteq Nat
  BY BrowserAssumption
<1>2. IsFiniteSet(P)
  BY <1>1, FS_Subset
<1> QED BY <1>1, <1>2 DEF Rows

(* A client that comes has seen nothing, and there is nothing before offset 0. *)
LEMMA BrowseKeepsRows ==
    ASSUME BrowserInv, RowsInv, NEW what \in {"names", "rows", "keys"}, NEW first,
           Browse(what, first), what = "rows" => first = "client"
    PROVE  RowsInv'
<1>1. view = "none" /\ view' = what /\ step' = first /\ stayed' = present'
  BY DEF Browse
<1>2. UNCHANGED <<at, shown, repeats, added, removed>>
  BY DEF Browse, clientVars
<1>3. CASE what # "rows"
  BY <1>1, <1>3 DEF RowsInv, RowsPagedOnce
<1>4. CASE what = "rows"
  <2>1. at' = 0 /\ shown' = {} /\ repeats' = 0 /\ added' = 0 /\ removed' = 0
    BY <1>1, <1>2 DEF RowsInv, BrowserInv, TypeInv
  <2>2. limit' \in Nat /\ limit' >= 1
    <3>1. PICK raw \in RawLimits : limit' = ClampInt(raw, 1, MaxLimit)
      BY DEF Browse
    <3>2. raw = Junk \/ (raw \in Int /\ raw # Junk)
      BY BrowserAssumption
    <3>3. MaxLimit \in Nat /\ MaxLimit >= 1
      BY BrowserAssumption
    <3>4. CASE raw = Junk
      BY <3>1, <3>4 DEF ClampInt
    <3>5. CASE raw \in Int /\ raw # Junk
      <4>1. limit' = IF raw < 1 THEN 1 ELSE IF raw > MaxLimit THEN MaxLimit ELSE raw
        BY <3>1, <3>5 DEF ClampInt
      <4> QED BY <3>3, <3>5, <4>1
    <3> QED BY <3>2, <3>4, <3>5
  <2>3. RowsTypeOK'
    BY <1>1, <1>4, <2>1, <2>2 DEF RowsTypeOK
  <2>4. present' \in Rows
    BY RowsAreFinite DEF Browse
  <2>5. UnseenOf(present', stayed', shown', 0) = {}
    <3>1. \A x \in present' : RankIn(present', x) \in Nat /\ RankIn(present', x) >= 1
      BY <2>4, RankType
    <3> QED BY <1>1, <3>1 DEF UnseenOf
  <2>6. DoubledOf(present', shown', 0) = {}
    BY <2>1 DEF DoubledOf
  <2>7. Cardinality(Unseen') <= removed' /\ repeats' + Cardinality(Doubled') <= added'
    BY <2>1, <2>5, <2>6, FS_EmptySet DEF Unseen, Doubled
  <2>8. PagesInv'
    BY <1>1, <1>4, <2>1, <2>7 DEF PagesInv
  <2> QED BY <1>1, <1>4, <2>3, <2>8 DEF RowsInv, RowsPagedOnce
<1> QED BY <1>3, <1>4

(* A page of rows, and the page after the last one. *)
LEMMA FetchKeepsRows ==
    ASSUME BrowserInv, RowsInv, FetchRows
    PROVE  RowsInv'
<1>1. /\ view = "rows" /\ view' = "rows" /\ step = "fetch" /\ at' = at + limit
      /\ UNCHANGED <<present, limit, total, unsorted, stayed, added, removed>>
      /\ RowsTypeOK /\ PagesInv
  BY DEF FetchRows, RowsInv
<1>2. PICK rows \in Slice(Offset, Offset + limit) :
         /\ ReadRows(rows)
         /\ step' = IF UNCHANGED clientVars \/ at > MaxOffset THEN "done" ELSE "client"
  BY DEF FetchRows
<1>3. present \in Rows /\ stayed \in SUBSET present
  BY RowsAreFinite DEF BrowserInv, TypeInv
<1>4. rows \subseteq present
  BY <1>2 DEF Slice
<1>5. PICK got : /\ got \subseteq rows /\ Show(got)
                /\ \/ got = rows /\ lost' = lost
                   \/ rows \ got # {} /\ lost' = lost \cup (rows \ got)
  <2>1. CASE Show(rows) /\ UNCHANGED lost
    BY <2>1
  <2>2. CASE \E n \in rows : LET got == {x \in rows : x < n}
                            IN  Show(got) /\ lost' = lost \cup (rows \ got)
    <3>1. PICK n \in rows : /\ Show({x \in rows : x < n})
                           /\ lost' = lost \cup (rows \ {x \in rows : x < n})
      BY <2>2
    <3>2. n \in Nat
      BY <1>3, <1>4 DEF Rows
    <3>3. n \in rows \ {x \in rows : x < n}
      BY <3>2
    <3> QED BY <3>1, <3>3
  <2> QED BY <1>2, <2>1, <2>2 DEF ReadRows
<1>6. shown' = shown \cup got /\ repeats' = repeats + Cardinality(got \cap shown)
  BY <1>5 DEF Show
<1>7. Cardinality(got \cap shown) \in Nat
  <2>1. got \cap shown \in SUBSET present
    BY <1>4, <1>5
  <2> QED BY <1>3, <2>1, FS_Subset, FS_CardinalityType DEF Rows
<1>8. RowsTypeOK'
  BY <1>1, <1>2, <1>6, <1>7 DEF RowsTypeOK
<1>9. removed' = 0 => shown' \subseteq present'
  BY <1>1, <1>4, <1>5, <1>6 DEF PagesInv
<1> DEFINE S == {x \in present : RankIn(present, x) \in (at + 1)..(at + limit)}
<1>10. ASSUME Definite'
       PROVE  /\ at <= MaxOffset /\ got = S
              /\ Cardinality(Unseen') <= removed /\ repeats' + Cardinality(Doubled') <= added
  <2>1. lost = {} /\ ~unsorted /\ got = rows /\ at + limit <= MaxOffset + limit
    BY <1>1, <1>5, <1>10 DEF Definite
  <2>2. at \in Nat /\ limit \in Nat /\ MaxOffset \in Nat /\ at # Junk
    BY <1>1, BrowserAssumption DEF RowsTypeOK
  <2>3. at <= MaxOffset
    BY <2>1, <2>2
  <2>4. Offset = at
    BY <2>2, <2>3 DEF Offset, ClampInt
  <2>5. got = S
    BY <1>2, <2>1, <2>4 DEF Slice, Rank, RankIn
  <2>6. at <= MaxOffset + limit
    BY <2>2, <2>3
  <2>7. Cardinality(Unseen) <= removed /\ repeats + Cardinality(Doubled) <= added
    BY <1>1, <2>1, <2>6 DEF PagesInv, Definite
  <2>8. /\ Cardinality(S \cap shown) \in Nat
        /\ Cardinality(UnseenOf(present, stayed, shown \cup S, at + limit))
              <= Cardinality(UnseenOf(present, stayed, shown, at))
        /\ Cardinality(S \cap shown) + Cardinality(DoubledOf(present, shown \cup S, at + limit))
              <= Cardinality(DoubledOf(present, shown, at))
    BY <1>3, <2>2, RowsShown
  <2>9. /\ Unseen' = UnseenOf(present, stayed, shown \cup S, at + limit)
        /\ Doubled' = DoubledOf(present, shown \cup S, at + limit)
    BY <1>1, <1>6, <2>5 DEF Unseen, Doubled
  <2>10. repeats' = repeats + Cardinality(S \cap shown)
    BY <1>6, <2>5
  <2> HIDE DEF S
  <2>11. /\ Cardinality(Unseen) \in Nat /\ Cardinality(Doubled) \in Nat
         /\ Cardinality(Unseen') \in Nat /\ Cardinality(Doubled') \in Nat
    BY <1>3, <2>9, PartsAreFinite DEF Unseen, Doubled
  <2>12. removed \in Nat /\ added \in Nat /\ repeats \in Nat
    BY <1>1 DEF RowsTypeOK
  <2>13. Cardinality(Unseen') <= Cardinality(Unseen)
    BY <2>8, <2>9 DEF Unseen
  <2>14. Cardinality(S \cap shown) + Cardinality(Doubled') <= Cardinality(Doubled)
    BY <2>8, <2>9 DEF Doubled
  <2>15. Cardinality(Unseen') <= removed
    BY <2>7, <2>11, <2>12, <2>13
  <2>16. repeats' + Cardinality(Doubled') <= added
    BY <2>7, <2>8, <2>10, <2>11, <2>12, <2>14
  <2> QED BY <2>3, <2>5, <2>15, <2>16
<1>11. PagesInv'
  BY <1>1, <1>2, <1>9, <1>10 DEF PagesInv
<1>12. ASSUME Definite', step' = "done"
       PROVE  /\ Cardinality(stayed \ shown') <= removed /\ repeats' <= added
              /\ added + removed = 0 => Cardinality(shown') = total
  <2>1. at <= MaxOffset /\ got = S
    BY <1>10, <1>12
  <2>2. shown' = shown /\ repeats' = repeats
    BY <1>1, <1>2, <1>12, <2>1, BrowserAssumption DEF clientVars, RowsTypeOK
  <2>3. S \subseteq shown /\ Cardinality(S \cap shown) = 0
    BY <1>1, <1>6, <1>7, <2>1, <2>2 DEF RowsTypeOK
  <2>4. S = {}
    <3>1. IsFiniteSet(S)
      BY <1>3, FS_Subset DEF Rows
    <3>2. S \cap shown = S
      BY <2>3
    <3> HIDE DEF S
    <3> QED BY <2>3, <3>1, <3>2, FS_EmptySet
  <2>5. ASSUME NEW x \in present
        PROVE  RankIn(present, x) <= at
    <3>1. RankIn(present, x) \in Nat /\ at \in Nat /\ limit \in Nat /\ limit >= 1
      BY <1>1, <1>3, RankType DEF RowsTypeOK
    <3>2. SUFFICES ASSUME RankIn(present, x) > at
                   PROVE  FALSE
      BY <3>1
    <3>3. PICK z \in present : RankIn(present, z) = at + 1
      BY <1>3, <3>1, <3>2, NextRank
    <3>4. at + 1 \in (at + 1)..(at + limit)
      BY <3>1
    <3> QED BY <2>4, <3>3, <3>4
  <2>6. Unseen' = stayed \ shown'
    <3>1. at' = at + limit /\ at \in Nat /\ limit \in Nat
      BY <1>1 DEF RowsTypeOK
    <3>2. \A x \in stayed : RankIn(present, x) <= at + limit
      <4> SUFFICES ASSUME NEW x \in stayed
                   PROVE  RankIn(present, x) <= at + limit
        OBVIOUS
      <4>1. RankIn(present, x) \in Nat /\ RankIn(present, x) <= at
        BY <1>3, <2>5, RankType
      <4> QED BY <3>1, <4>1
    <3> QED BY <1>1, <3>1, <3>2 DEF Unseen, UnseenOf
  <2>7. Cardinality(stayed \ shown') <= removed
    BY <1>10, <1>12, <2>6
  <2>8. /\ Cardinality(Doubled') \in Nat /\ Cardinality(Unseen') \in Nat
        /\ repeats' \in Nat /\ added \in Nat /\ removed \in Nat
    BY <1>1, <1>3, <1>8, PartsAreFinite DEF Doubled, Unseen, RowsTypeOK
  <2>9. repeats' <= added
    BY <1>10, <1>12, <2>8
  <2>10. ASSUME added + removed = 0
         PROVE  Cardinality(shown') = total
    <3>1. removed = 0 /\ stayed = present /\ total = Cardinality(present)
      BY <1>1, <2>8, <2>10 DEF PagesInv
    <3>2. Cardinality(stayed \ shown') = 0 /\ IsFiniteSet(stayed \ shown')
      BY <1>3, <2>6, <2>7, <2>8, <3>1, PartsAreFinite, FS_Subset DEF Rows
    <3>3. stayed \ shown' = {}
      BY <3>2, FS_EmptySet
    <3>4. shown' = present
      BY <1>1, <1>9, <3>1, <3>3
    <3> QED BY <3>1, <3>4
  <2> QED BY <2>7, <2>9, <2>10
<1>13. RowsPagedOnce'
  BY <1>1, <1>12 DEF RowsPagedOnce, Definite
<1> QED BY <1>1, <1>8, <1>11, <1>13 DEF RowsInv

(* Rows come and go. *)
LEMMA ChangeKeepsRows ==
    ASSUME BrowserInv, RowsInv, ThingAppears \/ ThingDisappears
    PROVE  RowsInv'
<1>1. /\ view' = view /\ step' = step /\ step # "done"
      /\ UNCHANGED <<limit, at, total, shown, repeats, unsorted, lost>>
  BY DEF ThingAppears, ThingDisappears, clientVars
<1>2. view # "none"
  BY <1>1 DEF BrowserInv, TypeInv
<1>3. CASE view # "rows"
  BY <1>1, <1>2, <1>3 DEF RowsInv, RowsPagedOnce
<1>4. CASE view = "rows"
  <2>1. RowsTypeOK /\ PagesInv
    BY <1>4 DEF RowsInv
  <2>2. present \in Rows /\ stayed \in SUBSET present /\ Things \subseteq Nat
    BY RowsAreFinite, BrowserAssumption DEF BrowserInv, TypeInv
  <2>3. at \in Nat /\ repeats \in Nat /\ added \in Nat /\ removed \in Nat
    BY <2>1 DEF RowsTypeOK
  <2>4. /\ Cardinality(Unseen) \in Nat /\ Cardinality(Doubled) \in Nat
        /\ Definite => Cardinality(Unseen) <= removed /\ repeats + Cardinality(Doubled) <= added
    BY <1>1, <2>1, <2>2, PartsAreFinite DEF PagesInv, Unseen, Doubled
  <2>5. Definite' => Definite
    BY <1>1 DEF Definite
  <2>6. CASE ThingAppears
    <3>1. PICK x \in Things \ present : present' = present \cup {x}
      BY <2>6 DEF ThingAppears
    <3>2. stayed' = stayed /\ added' = added + 1 /\ removed' = removed
      BY <2>6 DEF ThingAppears
    <3>3. /\ present' \in Rows
          /\ Cardinality(Unseen') <= Cardinality(Unseen)
          /\ Cardinality(Doubled') <= Cardinality(Doubled) + 1
      BY <1>1, <2>2, <2>3, <3>1, <3>2, RowComes DEF Unseen, Doubled
    <3>4. Cardinality(Unseen') \in Nat /\ Cardinality(Doubled') \in Nat
      BY <2>2, <3>1, <3>2, <3>3, PartsAreFinite DEF Unseen, Doubled
    <3>5. RowsTypeOK'
      BY <1>1, <2>1, <3>2 DEF RowsTypeOK
    <3>6. removed' = 0 => shown' \subseteq present'
      BY <1>1, <2>1, <3>1, <3>2 DEF PagesInv
    <3>7. added' + removed' # 0
      BY <2>3, <3>2
    <3>8. Definite' => Cardinality(Unseen') <= removed' /\ repeats' + Cardinality(Doubled') <= added'
      BY <1>1, <2>3, <2>4, <2>5, <3>2, <3>3, <3>4
    <3> QED BY <1>1, <1>4, <3>5, <3>6, <3>7, <3>8 DEF RowsInv, PagesInv, RowsPagedOnce
  <2>7. CASE ThingDisappears
    <3>1. PICK x \in present : present' = present \ {x} /\ stayed' = stayed \ {x}
      BY <2>7 DEF ThingDisappears
    <3>2. added' = added /\ removed' = removed + 1
      BY <2>7 DEF ThingDisappears
    <3>3. /\ present' \in Rows
          /\ Cardinality(Unseen') <= Cardinality(Unseen) + 1
          /\ Cardinality(Doubled') <= Cardinality(Doubled)
      BY <1>1, <2>2, <2>3, <3>1, RowGoes DEF Unseen, Doubled
    <3>4. Cardinality(Unseen') \in Nat /\ Cardinality(Doubled') \in Nat
      BY <2>2, <3>1, <3>3, PartsAreFinite DEF Unseen, Doubled
    <3>5. RowsTypeOK'
      BY <1>1, <2>1, <3>2 DEF RowsTypeOK
    <3>6. removed' # 0 /\ added' + removed' # 0
      BY <2>3, <3>2
    <3>7. Definite' => Cardinality(Unseen') <= removed' /\ repeats' + Cardinality(Doubled') <= added'
      BY <1>1, <2>3, <2>4, <2>5, <3>2, <3>3, <3>4
    <3> QED BY <1>1, <1>4, <3>5, <3>6, <3>7 DEF RowsInv, PagesInv, RowsPagedOnce
  <2> QED BY <2>6, <2>7
<1> QED BY <1>3, <1>4

(* The other steps show no rows. *)
LEMMA OthersKeepRows ==
    ASSUME BrowserInv, RowsInv,
           FetchNames \/ Introspect \/ CountRows \/ RequestFails \/ Leave
             \/ Scan \/ Examine \/ EndOfBatch \/ AnswerKeys \/ UNCHANGED browserVars
    PROVE  RowsInv'
<1>1. CASE FetchNames \/ Scan \/ Examine \/ EndOfBatch \/ AnswerKeys
  <2>1. view' = view /\ view \in {"names", "keys"}
    BY <1>1 DEF FetchNames, Scan, Examine, EndOfBatch, AnswerKeys
  <2> QED BY <2>1 DEF RowsInv, RowsPagedOnce
<1>2. CASE Introspect \/ CountRows \/ RequestFails
  <2>1. /\ view' = view /\ view # "none"
        /\ UNCHANGED <<present, limit, at, shown, repeats, stayed, added, removed, lost>>
    BY <1>2 DEF Introspect, CountRows, RequestFails, clientVars, BrowserInv, TypeInv
  <2>2. unsorted => unsorted'
    BY <1>2, Zenon DEF Introspect, CountRows, RequestFails
  <2>3. CASE view # "rows"
    BY <2>1, <2>3 DEF RowsInv, RowsPagedOnce
  <2>4. CASE view = "rows"
    <3>1. /\ step # "done" /\ step' \in {"client", "count", "fetch"}
          /\ step' = "fetch" => total' = Cardinality(present)
      BY <1>2, <2>4 DEF Introspect, CountRows, RequestFails
    <3>2. RowsTypeOK'
      BY <2>1, <2>4, <3>1 DEF RowsInv, RowsTypeOK
    <3>3. PagesInv'
      BY <2>1, <2>2, <2>4, <3>1 DEF RowsInv, PagesInv, Definite, Unseen, Doubled
    <3> QED BY <2>1, <2>4, <3>1, <3>2, <3>3 DEF RowsInv, RowsPagedOnce
  <2> QED BY <2>3, <2>4
<1>3. CASE Leave
  BY <1>3 DEF Leave, RowsInv, RowsPagedOnce
<1>4. CASE UNCHANGED browserVars
  BY <1>4 DEF browserVars, RowsInv, RowsTypeOK, PagesInv, RowsPagedOnce, Definite, Unseen, Doubled
<1> QED BY <1>1, <1>2, <1>3, <1>4

(* Paging through rows in a definite order misses no more of the rows that *)
(* stayed than were deleted meanwhile, repeats no more than were inserted, and *)
(* shows the true total of a table nobody changes, for every number of rows, *)
(* limit and number of changes. *)
THEOREM RowsAreShownOnce == BrowserSpec => []RowsPagedOnce
<1>1. BrowserInit => RowsInv
  BY DEF BrowserInit, RowsInv, RowsPagedOnce
<1>2. BrowserInv /\ RowsInv /\ [BrowserNext]_browserVars => RowsInv'
  <2> SUFFICES ASSUME BrowserInv, RowsInv, [BrowserNext]_browserVars
               PROVE  RowsInv'
    OBVIOUS
  <2>1. CASE ListDatabases \/ ListTables \/ DescribeTable \/ QueryRows \/ ScanKeys
    BY <2>1, BrowseKeepsRows DEF ListDatabases, ListTables, DescribeTable, QueryRows, ScanKeys
  <2> QED
    BY <2>1, FetchKeepsRows, ChangeKeepsRows, OthersKeepRows DEF BrowserNext
<1>3. RowsInv => RowsPagedOnce
  BY DEF RowsInv
<1> QED BY <1>1, <1>2, <1>3, InvariantHolds, PTL DEF BrowserSpec
=============================================================================
