-------------------------- MODULE UsageStats_proofs --------------------------
(***************************************************************************)
(* Proofs about UsageStats: a summary that says the key was used counts a  *)
(* request, a walk through the log misses no row stored when it began, and *)
(* a walk comes to its end although it makes the log longer.  They rest on *)
(* the rank of a row among the newer ones, which only grows, and on the    *)
(* rows the requests add to the log, one each.                             *)
(***************************************************************************)
EXTENDS UsageStats, FiniteSetTheorems, SequenceTheorems, WellFoundedInduction, TLAPS

\* Only a walk goes on to a second page, and it ends without a full one.
RoleInv ==
    \A r \in Requests :
       /\ role[r] \in {"call", "summary", "walk"}
       /\ more[r] => role[r] = "walk" /\ page[r] > 1 /\ pc[r] # "done"
       /\ pc[r] \in {"idle", "count", "read"} /\ page[r] > 1 => more[r]
       /\ pc[r] = "stamped" => stamp[r] # Nil

\* A key that was used has a row, and a summary has counted it.
UsedInv ==
    /\ lastUsed # Nil => Len(log) > 0
    /\ \A r \in Requests : seenUsed[r] # Nil =>
          /\ Len(log) > 0
          /\ role[r] = "summary" /\ pc[r] \in {"read", "served", "stamped", "done"}
             => total[r] > 0

\* The walk goes on.
Walking(r) == /\ role[r] = "walk"
              /\ \/ pc[r] \in {"idle", "count", "read"}
                 \/ pc[r] \in {"served", "stamped"} /\ more[r]

\* The rows before row i in the order of the pages.
Newer(i) == {j \in Ids : log[j].at > log[i].at}

\* What a walk has not been given is further down than its next page.
PlaceInv ==
    \A r \in Requests : Walking(r) =>
       \A i \in start[r] : Untied(i) /\ i \notin got[r] =>
          Offset(page[r]) <= Cardinality(Newer(i))

\* The other requests that may have logged their row.
Over(r) == {q \in Requests \ {r} : pc[q] = "done"}

\* The rows logged since a walk began: one for each page but the one it is at,
\* and one for every other request that has ended.
GrowthInv ==
    \A r \in Requests : WalksAlone(r) =>
       /\ pc[r] \in {"count", "read"} \/ (pc[r] = "idle" /\ page[r] > 1) =>
             Len(log) <= Cardinality(start[r]) + (page[r] - 1) + Cardinality(Over(r))
       /\ pc[r] \in {"served", "stamped"} /\ more[r] =>
             Len(log) <= Cardinality(start[r]) + (page[r] - 2) + Cardinality(Over(r))

StatsInv == /\ TypeOK /\ RoleInv /\ UsedInv /\ PlaceInv /\ GrowthInv
            /\ WalkMissesNothing /\ WalkIsShort
-------------------------------------------------------------------------------
(* The log and its pages *)

LEMMA LogTypes ==
    ASSUME log \in Seq(Rows)
    PROVE  /\ Len(log) \in Nat /\ Ids = 1..Len(log)
           /\ IsFiniteSet(Ids) /\ Cardinality(Ids) = Len(log)
           /\ \A i \in Ids : /\ log[i] \in Rows /\ log[i].at \in 0..MaxTime
                             /\ log[i].at \in Nat /\ log[i].endpoint \in Endpoints
<1>1. Len(log) \in Nat /\ Ids = 1..Len(log)
  BY LenProperties DEF Ids
<1>2. IsFiniteSet(1..Len(log)) /\ Cardinality(1..Len(log)) = Len(log)
  <2> DEFINE n == Len(log)
  <2>1. n \in Nat
    BY <1>1
  <2> HIDE DEF n
  <2>2. IsFiniteSet(1..n) /\ Cardinality(1..n) = IF 1 > n THEN 0 ELSE n - 1 + 1
    BY <2>1, FS_Interval
  <2>3. IsFiniteSet(1..n) /\ Cardinality(1..n) = n
    BY <2>1, <2>2
  <2> QED BY <2>3 DEF n
<1>3. \A i \in Ids : log[i] \in Rows
  BY <1>1, ElementOfSeq
<1>4. \A w \in Rows : w.at \in 0..MaxTime /\ w.at \in Nat /\ w.endpoint \in Endpoints
  BY BoundsAssumption DEF Rows
<1> QED BY <1>1, <1>2, <1>3, <1>4

LEMMA LogTyped ==
    log \in Seq(Rows) => (Len(log) \in Nat /\ Ids = 1..Len(log) /\ IsFiniteSet(Ids))
BY LogTypes

LEMMA LogTypedThen ==
    (log \in Seq(Rows))' => (Len(log) \in Nat /\ Ids = 1..Len(log) /\ IsFiniteSet(Ids))'
BY LogTyped, PTL

LEMMA MinOfTwo ==
    ASSUME NEW a \in Nat, NEW b \in Nat
    PROVE  /\ Min({a, b}) \in Nat
           /\ a <= b => Min({a, b}) = a
           /\ b <= a => Min({a, b}) = b
<1>1. CASE a <= b
  <2>1. a \in {a, b} /\ \A y \in {a, b} : a <= y
    BY <1>1
  <2>2. Min({a, b}) \in {a, b} /\ \A y \in {a, b} : Min({a, b}) <= y
    BY <2>1 DEF Min
  <2> QED BY <1>1, <2>2
<1>2. CASE b <= a
  <2>1. b \in {a, b} /\ \A y \in {a, b} : b <= y
    BY <1>2
  <2>2. Min({a, b}) \in {a, b} /\ \A y \in {a, b} : Min({a, b}) <= y
    BY <2>1 DEF Min
  <2> QED BY <1>2, <2>2
<1> QED BY <1>1, <1>2

\* A bounded set of numbers has a largest.
LEMMA LargestOf ==
    ASSUME NEW n \in Nat, NEW T, T \subseteq 0..n, T # {}
    PROVE  Max(T) \in T
<1> DEFINE U == {n - x : x \in T}
           R == OpToRel(<, Nat)
<1>1. U \subseteq Nat
  OBVIOUS
<1>2. U # {}
  OBVIOUS
<1>3. IsWellFoundedOn(R, Nat)
  BY NatLessThanWellFounded, Zenon
<1>4. \A a, b \in Nat : a < b => <<a, b>> \in R
  BY DEF OpToRel
<1> HIDE DEF R, U
<1>5. PICK u \in U : \A w \in U : <<w, u>> \notin R
  BY <1>1, <1>2, <1>3, WFMin
<1>6. PICK x \in T : u = n - x
  BY <1>5 DEF U
<1>7. ASSUME NEW y \in T PROVE x >= y
  <2>1. n - y \in U /\ n - x \in U
    BY DEF U
  <2>2. ~(n - y < n - x)
    BY <1>1, <1>4, <1>5, <1>6, <2>1
  <2>3. n \in Nat /\ x \in Nat /\ y \in Nat
    OBVIOUS
  <2> QED BY <2>2, <2>3
<1> QED BY <1>7 DEF Max

\* A row no other has the time of is among the first n if fewer are newer.
LEMMA NewestRows ==
    ASSUME log \in Seq(Rows), NEW n \in Nat, NEW A \in Newest(n)
    PROVE  /\ A \subseteq Ids /\ IsFiniteSet(A)
           /\ n <= Len(log) => Cardinality(A) = n
           /\ Len(log) <= n => A = Ids
           /\ \A i \in Ids : i \in A => Cardinality(Newer(i)) < n
           /\ \A i \in Ids : Untied(i) /\ i \notin A => n <= Cardinality(Newer(i))
<1>1. /\ A \subseteq Ids /\ Cardinality(A) = Min({n, Len(log)})
      /\ \A i \in A, j \in Ids \ A : log[i].at >= log[j].at
  BY DEF Newest, kSubset
<1>2. /\ Len(log) \in Nat /\ IsFiniteSet(Ids) /\ Cardinality(Ids) = Len(log)
      /\ \A i \in Ids : log[i].at \in Nat
  BY LogTypes
<1>3. /\ IsFiniteSet(A) /\ Cardinality(A) \in Nat
      /\ Cardinality(A) = Len(log) => A = Ids
  BY <1>1, <1>2, FS_Subset, FS_CardinalityType
<1>4. n <= Len(log) => Cardinality(A) = n
  BY <1>1, <1>2, MinOfTwo
<1>5. Len(log) <= n => A = Ids
  BY <1>1, <1>2, <1>3, MinOfTwo
<1>6. ASSUME NEW i \in Ids
      PROVE  IsFiniteSet(Newer(i)) /\ Cardinality(Newer(i)) \in Nat
  <2>1. Newer(i) \in SUBSET Ids
    BY DEF Newer
  <2> QED BY <1>2, <2>1, FS_Subset, FS_CardinalityType
<1>7. ASSUME NEW i \in Ids, i \in A PROVE Cardinality(Newer(i)) < n
  <2>1. Newer(i) \in SUBSET (A \ {i})
    BY <1>1, <1>2, <1>7 DEF Newer
  <2>2. IsFiniteSet(A \ {i}) /\ Cardinality(A \ {i}) = Cardinality(A) - 1
    BY <1>3, <1>7, FS_RemoveElement
  <2>3. Cardinality(Newer(i)) <= Cardinality(A) - 1
    BY <2>1, <2>2, FS_Subset
  <2>4. Cardinality(A) <= n
    BY <1>1, <1>2, <1>3, MinOfTwo
  <2> QED BY <1>3, <1>6, <2>3, <2>4
<1>8. ASSUME NEW i \in Ids, Untied(i), i \notin A PROVE n <= Cardinality(Newer(i))
  <2>1. A \in SUBSET Newer(i)
    <3> SUFFICES ASSUME NEW j \in A PROVE j \in Newer(i)
      OBVIOUS
    <3>1. j \in Ids /\ j # i /\ log[j].at >= log[i].at
      BY <1>1, <1>8
    <3>2. log[j].at # log[i].at
      BY <1>8, <3>1 DEF Untied
    <3> QED BY <1>2, <3>1, <3>2 DEF Newer
  <2>2. Cardinality(A) <= Cardinality(Newer(i))
    BY <1>6, <2>1, FS_Subset
  <2>3. Cardinality(A) = n
    BY <1>2, <1>4, <1>5, <1>8
  <2> QED BY <2>2, <2>3
<1> QED BY <1>1, <1>3, <1>4, <1>5, <1>7, <1>8

\* Rows are only added: the rank of a row grows, and ties are not undone.
LEMMA LogGrows ==
    ASSUME log \in Seq(Rows), log' \in Seq(Rows),
           log' = log \/ \E w \in Rows : log' = Append(log, w)
    PROVE  /\ Ids \subseteq Ids'
           /\ Len(log') <= Len(log) + 1 /\ Len(log) <= Len(log')
           /\ \A i \in Ids : /\ Untied(i)' => Untied(i)
                             /\ Cardinality(Newer(i)) \in Nat
                             /\ Cardinality(Newer(i))' \in Nat
                             /\ Cardinality(Newer(i)) <= Cardinality(Newer(i))'
<1>1. /\ Len(log) \in Nat /\ Ids = 1..Len(log) /\ IsFiniteSet(Ids)
      /\ \A i \in Ids : log[i].at \in Nat
  BY LogTypes
<1>2. Len(log') \in Nat /\ Ids' = 1..Len(log') /\ IsFiniteSet(Ids')
  BY LogTypedThen
<1>3. CASE log' = log
  <2>1. Ids' = Ids /\ \A i \in Ids : Newer(i)' = Newer(i) /\ (Untied(i)' <=> Untied(i))
    BY <1>3 DEF Ids, Newer, Untied
  <2>2. \A i \in Ids : Newer(i) \in SUBSET Ids
    BY DEF Newer
  <2>3. \A i \in Ids : Cardinality(Newer(i)) \in Nat
    BY <1>1, <2>2, FS_Subset, FS_CardinalityType
  <2> QED BY <1>1, <1>3, <2>1, <2>3
<1>4. CASE \E w \in Rows : log' = Append(log, w)
  <2>1. Len(log') = Len(log) + 1 /\ \A i \in 1..Len(log) : log'[i] = log[i]
    BY <1>4, AppendProperties
  <2>2. Ids \subseteq Ids'
    BY <1>1, <1>2, <2>1
  <2>3. ASSUME NEW i \in Ids PROVE /\ Untied(i)' => Untied(i)
                                   /\ Newer(i) \in SUBSET Newer(i)'
                                   /\ Newer(i)' \in SUBSET Ids'
    BY <1>1, <2>1, <2>2 DEF Newer, Untied
  <2>4. ASSUME NEW i \in Ids
        PROVE  /\ Cardinality(Newer(i)) \in Nat /\ Cardinality(Newer(i))' \in Nat
               /\ Cardinality(Newer(i)) <= Cardinality(Newer(i))'
    <3> DEFINE N == Newer(i)
               M == Newer(i)'
    <3>1. N \in SUBSET M /\ M \in SUBSET Ids'
      BY <2>3
    <3> HIDE DEF N, M
    <3>2. IsFiniteSet(M) /\ Cardinality(M) \in Nat
      BY <1>2, <3>1, FS_Subset, FS_CardinalityType
    <3>3. IsFiniteSet(N) /\ Cardinality(N) \in Nat /\ Cardinality(N) <= Cardinality(M)
      BY <3>1, <3>2, FS_Subset, FS_CardinalityType
    <3> QED BY <3>2, <3>3 DEF N, M
  <2> QED BY <1>1, <2>1, <2>2, <2>3, <2>4
<1> QED BY <1>3, <1>4

\* The rows of the pages before page p.
LEMMA OffsetOf ==
    ASSUME NEW p \in Nat \ {0}
    PROVE  /\ Offset(p) \in Nat /\ Offset(p) = (p - 1) * PerPage
           /\ Offset(p) + PerPage = Offset(p + 1) /\ Offset(1) = 0
           /\ Offset(p) + PerPage \in Nat
           /\ PerPage \in Nat \ {0}
<1>1. PerPage \in Nat \ {0}
  BY BoundsAssumption
<1>2. (p - 1) * PerPage \in Nat
  BY <1>1
<1>3. (p - 1) * PerPage + PerPage = (p + 1 - 1) * PerPage /\ (1 - 1) * PerPage = 0
  BY <1>1
<1> QED BY <1>1, <1>2, <1>3 DEF Offset
-------------------------------------------------------------------------------
(* Walks *)

Ended(r) == role[r] = "walk" /\ pc[r] \in {"served", "stamped", "done"} /\ ~more[r]

LEMMA Counts ==
    ASSUME TypeOK, NEW r \in Requests
    PROVE  /\ Len(log) \in Nat /\ page[r] \in Nat \ {0} /\ Cardinality(start[r]) \in Nat
           /\ Cardinality(Requests) \in Nat \ {0}
           /\ IsFiniteSet(Over(r)) /\ Cardinality(Over(r)) \in Nat
           /\ Cardinality(Over(r)) <= Cardinality(Requests) - 1
           /\ start[r] \subseteq Ids /\ got[r] \subseteq Ids
<1>1. log \in Seq(Rows) /\ start[r] \in SUBSET Ids /\ got[r] \in SUBSET Ids
      /\ page[r] \in Nat \ {0}
  BY DEF TypeOK
<1>2. Len(log) \in Nat /\ IsFiniteSet(Ids)
  BY <1>1, LogTypes
<1>3. Cardinality(start[r]) \in Nat
  BY <1>1, <1>2, FS_Subset, FS_CardinalityType
<1>4. /\ IsFiniteSet(Requests) /\ Cardinality(Requests) \in Nat
      /\ IsFiniteSet(Requests \ {r})
      /\ Cardinality(Requests \ {r}) = Cardinality(Requests) - 1
      /\ Cardinality(Requests \ {r}) \in Nat
  BY BoundsAssumption, FS_RemoveElement, FS_CardinalityType
<1>5. Over(r) \in SUBSET (Requests \ {r})
  BY DEF Over
<1>6. /\ IsFiniteSet(Over(r)) /\ Cardinality(Over(r)) \in Nat
      /\ Cardinality(Over(r)) <= Cardinality(Requests \ {r})
  BY <1>4, <1>5, FS_Subset, FS_CardinalityType
<1> QED BY <1>1, <1>2, <1>3, <1>4, <1>6

\* The place of a walk, and what one that has ended was given, stay while
\* rows are added.
LEMMA WalkStays ==
    ASSUME TypeOK, PlaceInv, WalkMissesNothing, log' \in Seq(Rows),
           NEW r \in Requests,
           log' = log \/ \E w \in Rows : log' = Append(log, w),
           start'[r] = start[r], got'[r] = got[r], page'[r] = page[r]
    PROVE  /\ Walking(r) => \A i \in start'[r] : Untied(i)' /\ i \notin got'[r] =>
                               Offset(page'[r]) <= Cardinality(Newer(i))'
           /\ Ended(r) => \A i \in start'[r] : Untied(i)' => i \in got'[r]
<1>1. log \in Seq(Rows) /\ start[r] \subseteq Ids /\ page[r] \in Nat \ {0}
  BY DEF TypeOK
<1>2. \A i \in Ids : /\ Untied(i)' => Untied(i)
                     /\ Cardinality(Newer(i)) \in Nat
                     /\ Cardinality(Newer(i))' \in Nat
                     /\ Cardinality(Newer(i)) <= Cardinality(Newer(i))'
  BY <1>1, LogGrows
<1>3. ASSUME Walking(r), NEW i \in start[r], Untied(i)', i \notin got[r]
      PROVE  Offset(page[r]) <= Cardinality(Newer(i))'
  <2>1. i \in Ids /\ Untied(i) /\ Offset(page[r]) \in Nat
    BY <1>1, <1>2, <1>3, OffsetOf
  <2>2. Offset(page[r]) <= Cardinality(Newer(i))
    BY <1>3, <2>1 DEF PlaceInv
  <2> QED BY <1>2, <2>1, <2>2
<1>4. ASSUME Ended(r), NEW i \in start[r], Untied(i)'
      PROVE  i \in got[r]
  <2>1. Untied(i)
    BY <1>1, <1>2, <1>4
  <2> QED BY <1>4, <2>1 DEF WalkMissesNothing, Ended
<1> QED BY <1>3, <1>4

\* The two invariants of the walks, from the statement above for each.
LEMMA WalksStay ==
    ASSUME \A r \in Requests :
              /\ Walking(r)' => \A i \in start'[r] : Untied(i)' /\ i \notin got'[r] =>
                                   Offset(page'[r]) <= Cardinality(Newer(i))'
              /\ Ended(r)' => \A i \in start'[r] : Untied(i)' => i \in got'[r]
    PROVE  PlaceInv' /\ WalkMissesNothing'
<1>1. \A r \in Requests : Offset(page[r])' = Offset(page'[r])
  BY DEF Offset
<1>2. PlaceInv'
  BY <1>1 DEF PlaceInv
<1>3. WalkMissesNothing'
  BY DEF WalkMissesNothing, Ended
<1> QED BY <1>2, <1>3

\* The requests that are over stay so.
LEMMA OverGrows ==
    ASSUME NEW r \in Requests, \A q \in Requests : pc[q] = "done" => pc'[q] = "done"
    PROVE  /\ Over(r) \subseteq Over(r)' /\ Cardinality(Over(r)) \in Nat
           /\ Cardinality(Over(r)') \in Nat /\ Cardinality(Over(r)) <= Cardinality(Over(r)')
<1> DEFINE S == Over(r)
           T == Over(r)'
<1>1. S \subseteq T /\ T \in SUBSET Requests
  BY DEF Over
<1> HIDE DEF S, T
<1>2. IsFiniteSet(T) /\ Cardinality(T) \in Nat
  BY <1>1, BoundsAssumption, FS_Subset, FS_CardinalityType
<1>3. Cardinality(S) \in Nat /\ Cardinality(S) <= Cardinality(T)
  BY <1>1, <1>2, FS_Subset, FS_CardinalityType
<1> QED BY <1>1, <1>2, <1>3 DEF S, T

\* The steps that add no row and turn no page.
Moves(q) ==
    \/ pc'[q] = pc[q]
    \/ pc[q] = "count" /\ pc'[q] = "read"
    \/ pc[q] = "read" /\ role[q] = "summary" /\ pc'[q] = "served"
    \/ pc[q] = "served" /\ pc'[q] = "stamped"
    \/ pc[q] \in {"served", "stamped"} /\ pc'[q] = IF more[q] THEN "idle" ELSE "done"
    \/ pc[q] \in {"idle", "count", "read"} /\ pc'[q] = "failed"

LEMMA QuietStep ==
    ASSUME StatsInv, role' = role, log' = log, lastUsed' = lastUsed, seenUsed' = seenUsed,
           page' = page, more' = more, got' = got, start' = start,
           \A q \in Requests : /\ Moves(q)
                               /\ pc'[q] = "stamped" => stamp'[q] # Nil
                               /\ total'[q] = IF pc[q] = "count" /\ pc'[q] = "read"
                                              THEN Len(log) ELSE total[q]
    PROVE  RoleInv' /\ UsedInv' /\ PlaceInv' /\ GrowthInv' /\ WalkMissesNothing' /\ WalkIsShort'
<1> USE DEF StatsInv
<1>1. RoleInv'
  BY DEF RoleInv, Moves
<1>2. UsedInv'
  BY DEF UsedInv, Moves
<1>3. ASSUME NEW r \in Requests
      PROVE  (Walking(r)' => Walking(r)) /\ (Ended(r)' => Ended(r))
  BY DEF Moves, Walking, Ended
<1>4. PlaceInv' /\ WalkMissesNothing'
  <2>1. log' \in Seq(Rows)
    BY DEF TypeOK
  <2>2. ASSUME NEW r \in Requests
        PROVE  /\ Walking(r) => \A i \in start'[r] : Untied(i)' /\ i \notin got'[r] =>
                                   Offset(page'[r]) <= Cardinality(Newer(i))'
               /\ Ended(r) => \A i \in start'[r] : Untied(i)' => i \in got'[r]
    BY <2>1, WalkStays
  <2> QED BY <1>3, <2>2, WalksStay
<1>5. GrowthInv'
  <2> SUFFICES ASSUME NEW r \in Requests, WalksAlone(r)'
               PROVE  /\ pc'[r] \in {"count", "read"} \/ (pc'[r] = "idle" /\ page'[r] > 1) =>
                            Len(log') <= Cardinality(start'[r]) + (page'[r] - 1)
                                           + Cardinality(Over(r)')
                      /\ pc'[r] \in {"served", "stamped"} /\ more'[r] =>
                            Len(log') <= Cardinality(start'[r]) + (page'[r] - 2)
                                           + Cardinality(Over(r)')
    BY DEF GrowthInv
  <2>1. WalksAlone(r) /\ role[r] = "walk"
    BY DEF WalksAlone
  <2> DEFINE L == Len(log)
             s == Cardinality(start[r])
             p == page[r]
             d == Cardinality(Over(r))
             e == Cardinality(Over(r)')
  <2>2. L \in Nat /\ s \in Nat /\ p \in Nat /\ d \in Nat
    BY Counts
  <2>3. e \in Nat /\ d <= e
    <3>1. \A q \in Requests : pc[q] = "done" => pc'[q] = "done"
      BY DEF Moves
    <3> QED BY <3>1, OverGrows
  <2>4. /\ pc[r] \in {"count", "read"} \/ (pc[r] = "idle" /\ p > 1) => L <= s + (p - 1) + d
        /\ pc[r] \in {"served", "stamped"} /\ more[r] => L <= s + (p - 2) + d
    BY <2>1 DEF GrowthInv
  <2> HIDE DEF L, s, p, d, e
  <2>5. /\ L <= s + (p - 1) + d => L <= s + (p - 1) + e
        /\ L <= s + (p - 2) + d => L <= s + (p - 2) + e /\ L <= s + (p - 1) + e
    BY <2>2, <2>3
  <2>6. CASE pc'[r] \in {"served", "stamped"} /\ more[r]
    <3>1. pc[r] \in {"served", "stamped"}
      BY <2>1, <2>6 DEF Moves
    <3> QED BY <2>4, <2>5, <2>6, <3>1 DEF L, s, p, e
  <2>7. CASE pc'[r] \in {"count", "read"} \/ (pc'[r] = "idle" /\ p > 1)
    <3>1. \/ pc[r] \in {"count", "read"} \/ (pc[r] = "idle" /\ p > 1)
          \/ pc[r] \in {"served", "stamped"} /\ more[r]
      BY <2>7 DEF Moves
    <3>2. L <= s + (p - 1) + e
      BY <2>4, <2>5, <3>1
    <3> QED BY <2>7, <3>2 DEF L, s, p, e
  <2> QED BY <2>6, <2>7 DEF p
<1>6. WalkIsShort'
  BY DEF WalkIsShort, WalksAlone
<1> QED BY <1>1, <1>2, <1>4, <1>5, <1>6
-------------------------------------------------------------------------------
(* The steps *)

LEMMA InitStats == Init => StatsInv
<1> SUFFICES ASSUME Init PROVE StatsInv
  OBVIOUS
<1>1. role \in [Requests -> {"call", "summary", "walk"}]
  BY RolesAssumption DEF Init
<1>2. log \in Seq(Rows)
  BY LogsAssumption DEF Init
<1>3. /\ Len(log) \in Nat /\ Ids = 1..Len(log) /\ \A i \in Ids : log[i].at \in 0..MaxTime
  BY <1>2, LogTypes
<1>4. clock \in 0..MaxTime
  <2> DEFINE T == {log[i].at : i \in DOMAIN log} \cup {0}
  <2>1. T \subseteq 0..MaxTime /\ T # {} /\ MaxTime \in Nat
    BY <1>3, BoundsAssumption DEF Ids
  <2>2. clock = Max(T)
    BY DEF Init
  <2> HIDE DEF T
  <2> QED BY <2>1, <2>2, LargestOf
<1>5. lastUsed \in 0..MaxTime \cup {Nil} /\ (lastUsed # Nil => Len(log) > 0)
  <2>1. CASE log = <<>>
    BY <2>1 DEF Init
  <2>2. CASE log # <<>>
    <3>1. Len(log) \in Ids
      BY <1>2, <1>3, <2>2, EmptySeq
    <3> QED BY <1>3, <2>2, <3>1 DEF Init
  <2> QED BY <2>1, <2>2
<1>6. DOMAIN <<>> = {} /\ Cardinality({}) = 0
  BY FS_EmptySet, EmptySeq
<1>7. TypeOK
  <2>1. /\ pc \in [Requests -> {"idle", "count", "read", "served", "stamped", "done", "failed"}]
        /\ stamp \in [Requests -> 0..MaxTime \cup {Nil}]
        /\ seenUsed \in [Requests -> 0..MaxTime \cup {Nil}]
    BY DEF Init
  <2>2. total \in [Requests -> 0..Len(log)]
    BY <1>3 DEF Init
  <2>3. DOMAIN top = Requests /\ \A r \in Requests : /\ DOMAIN top[r] \subseteq Endpoints
                                                      /\ Cardinality(DOMAIN top[r]) <= TopLimit
    <3>1. TopLimit \in Nat
      BY BoundsAssumption
    <3>2. DOMAIN top = Requests /\ \A r \in Requests : top[r] = <<>>
      BY DEF Init
    <3> QED BY <1>6, <3>1, <3>2
  <2>4. /\ page \in [Requests -> Nat \ {0}] /\ more \in [Requests -> BOOLEAN]
        /\ got \in [Requests -> SUBSET Ids] /\ start \in [Requests -> SUBSET Ids]
    BY DEF Init
  <2> QED BY <1>2, <1>4, <1>5, <2>1, <2>2, <2>3, <2>4 DEF TypeOK, Init
<1>8. RoleInv
  BY <1>1 DEF Init, RoleInv
<1>9. UsedInv
  BY <1>5 DEF Init, UsedInv
<1>10. \A r \in Requests : start[r] = {} /\ page[r] = 1 /\ more[r] = FALSE
                           /\ pc[r] \in {"served", "idle"}
  BY DEF Init
<1>11. PlaceInv /\ WalkMissesNothing
  BY <1>10 DEF PlaceInv, WalkMissesNothing
<1>12. GrowthInv
  BY <1>10 DEF GrowthInv
<1>13. WalkIsShort
  <2> SUFFICES ASSUME NEW r \in Requests
               PROVE  (page[r] - 1) * (PerPage - 1)
                         <= Cardinality(start[r]) + Cardinality(Requests) - 1
    BY DEF WalkIsShort
  <2>1. Cardinality(start[r]) \in Nat /\ Cardinality(Requests) \in Nat \ {0}
    BY <1>7, Counts
  <2>2. (page[r] - 1) * (PerPage - 1) = 0
    BY <1>10, BoundsAssumption
  <2> QED BY <2>1, <2>2
<1> QED BY <1>7, <1>8, <1>9, <1>11, <1>12, <1>13 DEF StatsInv

LEMMA GetKeyStep == ASSUME StatsInv, NEW r \in Requests, GetKey(r) PROVE StatsInv'
<1> USE DEF StatsInv
<1>1. /\ pc[r] = "idle" /\ pc' = [pc EXCEPT ![r] = "count"]
      /\ seenUsed' = [seenUsed EXCEPT ![r] = lastUsed]
      /\ start' = [start EXCEPT ![r] = IF page[r] = 1 THEN Ids ELSE @]
      /\ role' = role /\ clock' = clock /\ log' = log /\ lastUsed' = lastUsed
      /\ stamp' = stamp /\ total' = total /\ top' = top /\ page' = page /\ more' = more
      /\ got' = got
  BY DEF GetKey, Goto, tables
<1>2. /\ pc'[r] = "count" /\ seenUsed'[r] = lastUsed
      /\ start'[r] = IF page[r] = 1 THEN Ids ELSE start[r]
      /\ \A q \in Requests : q # r => /\ pc'[q] = pc[q] /\ seenUsed'[q] = seenUsed[q]
                                      /\ start'[q] = start[q]
  BY <1>1 DEF TypeOK
<1>3. Ids' = Ids
  BY <1>1 DEF Ids
<1>4. TypeOK'
  <2>1. pc' \in [Requests -> {"idle", "count", "read", "served", "stamped", "done", "failed"}]
    BY <1>1 DEF TypeOK
  <2>2. seenUsed' \in [Requests -> 0..MaxTime \cup {Nil}]
    BY <1>1 DEF TypeOK
  <2>3. start' \in [Requests -> SUBSET Ids]
    BY <1>1 DEF TypeOK
  <2> QED BY <1>1, <1>3, <2>1, <2>2, <2>3 DEF TypeOK
<1>5. RoleInv'
  BY <1>1, <1>2 DEF RoleInv
<1>6. UsedInv'
  BY <1>1, <1>2 DEF UsedInv
<1>7. log \in Seq(Rows) /\ log' \in Seq(Rows)
  BY <1>1 DEF TypeOK
<1>8. PlaceInv' /\ WalkMissesNothing'
  <2>1. ASSUME NEW q \in Requests, start'[q] = start[q]
        PROVE  /\ Walking(q) => \A i \in start'[q] : Untied(i)' /\ i \notin got'[q] =>
                                   Offset(page'[q]) <= Cardinality(Newer(i))'
               /\ Ended(q) => \A i \in start'[q] : Untied(i)' => i \in got'[q]
    BY <1>1, <1>7, <2>1, WalkStays
  <2>2. ASSUME NEW q \in Requests
        PROVE  (Walking(q)' => Walking(q)) /\ (Ended(q)' => Ended(q) /\ q # r)
    BY <1>1, <1>2 DEF Walking, Ended
  <2>3. CASE page[r] = 1
    <3>1. Offset(page'[r]) = 0
      BY <1>1, <2>3, OffsetOf
    <3>2. \A i \in start'[r] : Cardinality(Newer(i))' \in Nat
      BY <1>1, <1>2, <1>7, <2>3, LogGrows
    <3>3. \A i \in start'[r] : Offset(page'[r]) <= Cardinality(Newer(i))'
      BY <3>1, <3>2
    <3>4. \A q \in Requests : q # r => start'[q] = start[q]
      BY <1>2
    <3> QED BY <2>1, <2>2, <3>3, <3>4, WalksStay
  <2>4. CASE page[r] # 1
    <3>1. \A q \in Requests : start'[q] = start[q]
      BY <1>2, <2>4
    <3> QED BY <2>1, <2>2, <3>1, WalksStay
  <2> QED BY <2>3, <2>4
<1>9. ASSUME NEW q \in Requests PROVE Over(q)' = Over(q)
  BY <1>1, <1>2 DEF Over
<1>10. Cardinality(Ids) = Len(log)
  BY <1>7, LogTypes
<1>11. /\ Len(log) \in Nat /\ page[r] \in Nat \ {0} /\ Cardinality(Requests) \in Nat \ {0}
       /\ Cardinality(Over(r)) \in Nat
  BY Counts
<1>12. GrowthInv'
  <2>1. CASE page[r] = 1
    <3>1. Len(log) <= Cardinality(start'[r]) + (page[r] - 1) + Cardinality(Over(r))
      BY <1>2, <1>10, <1>11, <2>1
    <3> QED BY <1>1, <1>2, <1>9, <3>1 DEF GrowthInv, WalksAlone
  <2>2. CASE page[r] # 1
    <3>1. page[r] > 1
      BY <1>11, <2>2
    <3> QED BY <1>1, <1>2, <1>9, <2>2, <3>1 DEF GrowthInv, WalksAlone
  <2> QED BY <2>1, <2>2
<1>13. WalkIsShort'
  <2>1. CASE page[r] = 1
    <3>1. (page[r] - 1) * (PerPage - 1) = 0
      BY <2>1, BoundsAssumption
    <3>2. (page[r] - 1) * (PerPage - 1) <= Cardinality(start'[r]) + Cardinality(Requests) - 1
      BY <1>2, <1>10, <1>11, <2>1, <3>1
    <3> QED BY <1>1, <1>2, <3>2 DEF WalkIsShort, WalksAlone
  <2>2. CASE page[r] # 1
    BY <1>1, <1>2, <2>2 DEF WalkIsShort, WalksAlone
  <2> QED BY <2>1, <2>2
<1> QED BY <1>4, <1>5, <1>6, <1>8, <1>12, <1>13

LEMMA CountRowsStep == ASSUME StatsInv, NEW r \in Requests, CountRows(r) PROVE StatsInv'
<1> USE DEF StatsInv
<1>1. /\ pc[r] = "count" /\ pc' = [pc EXCEPT ![r] = "read"]
      /\ total' = [total EXCEPT ![r] = Len(log)]
      /\ role' = role /\ clock' = clock /\ log' = log /\ lastUsed' = lastUsed
      /\ stamp' = stamp /\ seenUsed' = seenUsed /\ top' = top /\ page' = page /\ more' = more
      /\ got' = got /\ start' = start
  BY DEF CountRows, Goto, tables
<1>2. /\ pc'[r] = "read" /\ total'[r] = Len(log)
      /\ \A q \in Requests : q # r => pc'[q] = pc[q] /\ total'[q] = total[q]
  BY <1>1 DEF TypeOK
<1>3. TypeOK'
  <2>1. pc' \in [Requests -> {"idle", "count", "read", "served", "stamped", "done", "failed"}]
    BY <1>1 DEF TypeOK
  <2>2. total' \in [Requests -> 0..Len(log)]
    <3>1. Len(log) \in 0..Len(log)
      BY Counts
    <3> QED BY <1>1, <3>1 DEF TypeOK
  <2> QED BY <1>1, <2>1, <2>2 DEF TypeOK, Ids
<1>4. \A q \in Requests : /\ Moves(q)
                          /\ pc'[q] = "stamped" => stamp'[q] # Nil
                          /\ total'[q] = IF pc[q] = "count" /\ pc'[q] = "read"
                                         THEN Len(log) ELSE total[q]
  BY <1>1, <1>2 DEF Moves, RoleInv
<1> QED BY <1>1, <1>3, <1>4, QuietStep

\* The endpoints a summary lists are some that were called, TopLimit at most.
LEMMA MostCalledAre ==
    ASSUME TypeOK, NEW E \in MostCalled(TopLimit)
    PROVE  E \subseteq Endpoints /\ Cardinality(E) <= TopLimit
<1> DEFINE used == {log[i].endpoint : i \in Ids}
<1>1. log \in Seq(Rows)
  BY DEF TypeOK
<1>2. IsFiniteSet(Ids) /\ \A i \in Ids : log[i].endpoint \in Endpoints
  BY <1>1, LogTypes
<1>3. E \in SUBSET used /\ Cardinality(E) = Min({TopLimit, Cardinality(used)})
  BY DEF MostCalled, kSubset
<1>4. IsFiniteSet(used) /\ Cardinality(used) \in Nat
  <2> DEFINE f == [i \in Ids |-> log[i].endpoint]
  <2>1. f \in Surjection(Ids, used)
    BY DEF Surjection
  <2> HIDE DEF f, used
  <2> QED BY <1>2, <2>1, FS_Surjection, FS_CardinalityType
<1>5. used \subseteq Endpoints
  BY <1>2
<1> HIDE DEF used
<1>6. Min({TopLimit, Cardinality(used)}) <= TopLimit
  <2>1. TopLimit \in Nat
    BY BoundsAssumption
  <2> QED BY <1>4, <2>1, MinOfTwo
<1> QED BY <1>3, <1>5, <1>6

LEMMA TopEndpointsStep == ASSUME StatsInv, NEW r \in Requests, TopEndpoints(r) PROVE StatsInv'
<1> USE DEF StatsInv
<1>1. PICK E \in MostCalled(TopLimit) : top' = [top EXCEPT ![r] = [e \in E |-> Calls(e)]]
  BY DEF TopEndpoints
<1>2. /\ pc[r] = "read" /\ role[r] = "summary" /\ pc' = [pc EXCEPT ![r] = "served"]
      /\ role' = role /\ clock' = clock /\ log' = log /\ lastUsed' = lastUsed
      /\ stamp' = stamp /\ seenUsed' = seenUsed /\ total' = total /\ page' = page
      /\ more' = more /\ got' = got /\ start' = start
  BY DEF TopEndpoints, Goto, tables
<1>3. pc'[r] = "served" /\ \A q \in Requests : q # r => pc'[q] = pc[q]
  BY <1>2 DEF TypeOK
<1>4. TypeOK'
  <2>1. pc' \in [Requests -> {"idle", "count", "read", "served", "stamped", "done", "failed"}]
    BY <1>2 DEF TypeOK
  <2>2. /\ DOMAIN top' = Requests /\ DOMAIN top'[r] = E
        /\ \A q \in Requests : q # r => top'[q] = top[q]
    BY <1>1 DEF TypeOK
  <2>3. \A q \in Requests : /\ DOMAIN top'[q] \subseteq Endpoints
                            /\ Cardinality(DOMAIN top'[q]) <= TopLimit
    BY <2>2, MostCalledAre DEF TypeOK
  <2> QED BY <1>2, <2>1, <2>2, <2>3 DEF TypeOK, Ids
<1>5. \A q \in Requests : /\ Moves(q)
                          /\ pc'[q] = "stamped" => stamp'[q] # Nil
                          /\ total'[q] = IF pc[q] = "count" /\ pc'[q] = "read"
                                         THEN Len(log) ELSE total[q]
  BY <1>2, <1>3 DEF Moves, RoleInv
<1> QED BY <1>2, <1>4, <1>5, QuietStep

LEMMA StampStep == ASSUME StatsInv, NEW r \in Requests, Stamp(r) PROVE StatsInv'
<1> USE DEF StatsInv
<1>1. /\ pc[r] = "served" /\ pc' = [pc EXCEPT ![r] = "stamped"]
      /\ stamp' = [stamp EXCEPT ![r] = clock]
      /\ role' = role /\ clock' = clock /\ log' = log /\ lastUsed' = lastUsed
      /\ seenUsed' = seenUsed /\ total' = total /\ top' = top /\ page' = page
      /\ more' = more /\ got' = got /\ start' = start
  BY DEF Stamp, Goto, tables, reading
<1>2. /\ pc'[r] = "stamped" /\ stamp'[r] = clock
      /\ \A q \in Requests : q # r => pc'[q] = pc[q] /\ stamp'[q] = stamp[q]
  BY <1>1 DEF TypeOK
<1>3. clock # Nil
  BY BoundsAssumption DEF TypeOK
<1>4. TypeOK'
  <2>1. pc' \in [Requests -> {"idle", "count", "read", "served", "stamped", "done", "failed"}]
    BY <1>1 DEF TypeOK
  <2>2. stamp' \in [Requests -> 0..MaxTime \cup {Nil}]
    BY <1>1 DEF TypeOK
  <2> QED BY <1>1, <2>1, <2>2 DEF TypeOK, Ids
<1>5. \A q \in Requests : /\ Moves(q)
                          /\ pc'[q] = "stamped" => stamp'[q] # Nil
                          /\ total'[q] = IF pc[q] = "count" /\ pc'[q] = "read"
                                         THEN Len(log) ELSE total[q]
  BY <1>1, <1>2, <1>3 DEF Moves, RoleInv
<1> QED BY <1>1, <1>4, <1>5, QuietStep

LEMMA LogNothingStep == ASSUME StatsInv, NEW r \in Requests, LogNothing(r) PROVE StatsInv'
<1> USE DEF StatsInv
<1>1. /\ pc[r] \in {"served", "stamped"}
      /\ pc' = [pc EXCEPT ![r] = IF more[r] THEN "idle" ELSE "done"]
      /\ stamp' = [stamp EXCEPT ![r] = Nil]
      /\ role' = role /\ clock' = clock /\ log' = log /\ lastUsed' = lastUsed
      /\ seenUsed' = seenUsed /\ total' = total /\ top' = top /\ page' = page
      /\ more' = more /\ got' = got /\ start' = start
  BY DEF LogNothing, Respond, Goto, tables, reading
<1>2. /\ pc'[r] = IF more[r] THEN "idle" ELSE "done"
      /\ \A q \in Requests : q # r => pc'[q] = pc[q] /\ stamp'[q] = stamp[q]
  BY <1>1 DEF TypeOK
<1>3. TypeOK'
  <2>1. pc' \in [Requests -> {"idle", "count", "read", "served", "stamped", "done", "failed"}]
    BY <1>1 DEF TypeOK
  <2>2. stamp' \in [Requests -> 0..MaxTime \cup {Nil}]
    BY <1>1 DEF TypeOK
  <2> QED BY <1>1, <2>1, <2>2 DEF TypeOK, Ids
<1>4. \A q \in Requests : /\ Moves(q)
                          /\ pc'[q] = "stamped" => stamp'[q] # Nil
                          /\ total'[q] = IF pc[q] = "count" /\ pc'[q] = "read"
                                         THEN Len(log) ELSE total[q]
  BY <1>1, <1>2 DEF Moves, RoleInv
<1> QED BY <1>1, <1>3, <1>4, QuietStep

LEMMA RefuseStep == ASSUME StatsInv, NEW r \in Requests, Refuse(r) PROVE StatsInv'
<1> USE DEF StatsInv
<1>1. /\ pc[r] \in {"idle", "count", "read"} /\ pc' = [pc EXCEPT ![r] = "failed"]
      /\ role' = role /\ clock' = clock /\ log' = log /\ lastUsed' = lastUsed
      /\ stamp' = stamp /\ seenUsed' = seenUsed /\ total' = total /\ top' = top
      /\ page' = page /\ more' = more /\ got' = got /\ start' = start
  BY DEF Refuse, Goto, tables, reading
<1>2. pc'[r] = "failed" /\ \A q \in Requests : q # r => pc'[q] = pc[q]
  BY <1>1 DEF TypeOK
<1>3. TypeOK'
  <2>1. pc' \in [Requests -> {"idle", "count", "read", "served", "stamped", "done", "failed"}]
    BY <1>1 DEF TypeOK
  <2> QED BY <1>1, <2>1 DEF TypeOK, Ids
<1>4. \A q \in Requests : /\ Moves(q)
                          /\ pc'[q] = "stamped" => stamp'[q] # Nil
                          /\ total'[q] = IF pc[q] = "count" /\ pc'[q] = "read"
                                         THEN Len(log) ELSE total[q]
  BY <1>1, <1>2 DEF Moves, RoleInv
<1> QED BY <1>1, <1>3, <1>4, QuietStep

\* Nothing happens to the requests: the clock ticks, or the server is at rest.
LEMMA TickStep == ASSUME StatsInv, Tick \/ UNCHANGED vars PROVE StatsInv'
<1> USE DEF StatsInv
<1>1. /\ role' = role /\ log' = log /\ lastUsed' = lastUsed /\ pc' = pc /\ stamp' = stamp
      /\ seenUsed' = seenUsed /\ total' = total /\ top' = top
      /\ page' = page /\ more' = more /\ got' = got /\ start' = start
  BY DEF Tick, vars, tables, reading
<1>2. clock' \in 0..MaxTime
  <2>1. CASE Tick
    BY <2>1, BoundsAssumption DEF Tick, TypeOK
  <2>2. CASE UNCHANGED vars
    BY <2>2 DEF vars, TypeOK
  <2> QED BY <2>1, <2>2
<1>3. TypeOK'
  BY <1>1, <1>2 DEF TypeOK, Ids
<1>4. \A q \in Requests : /\ Moves(q)
                          /\ pc'[q] = "stamped" => stamp'[q] # Nil
                          /\ total'[q] = IF pc[q] = "count" /\ pc'[q] = "read"
                                         THEN Len(log) ELSE total[q]
  BY <1>1 DEF Moves, RoleInv
<1> QED BY <1>1, <1>3, <1>4, QuietStep

\* A page: what the second statement of get_usage_logs returns.
LEMMA PageRead ==
    ASSUME log \in Seq(Rows), NEW p \in Nat \ {0},
           NEW skipped \in Newest(Offset(p)), NEW read \in Newest(Offset(p) + PerPage),
           skipped \subseteq read
    PROVE  /\ Cardinality(read \ skipped) = PerPage => p * PerPage <= Len(log)
           /\ Cardinality(read \ skipped) # PerPage => read = Ids
<1>1. /\ Offset(p) \in Nat /\ Offset(p) + PerPage \in Nat /\ PerPage \in Nat \ {0}
      /\ Offset(p) + PerPage = Offset(p + 1)
  BY OffsetOf
<1>2. Offset(p) + PerPage = p * PerPage
  BY <1>1 DEF Offset
<1>3. Len(log) \in Nat /\ IsFiniteSet(Ids) /\ Cardinality(Ids) = Len(log)
  BY LogTypes
<1> DEFINE o == Offset(p)
           k == PerPage
           n == Len(log)
           s == Cardinality(skipped)
           m == Cardinality(read)
<1>4. /\ IsFiniteSet(skipped) /\ (o <= n => s = o) /\ (n <= o => skipped = Ids)
  BY <1>1, NewestRows
<1>5. /\ IsFiniteSet(read) /\ (o + k <= n => m = o + k) /\ (n <= o + k => read = Ids)
  BY <1>1, NewestRows
<1>6. s \in Nat /\ m \in Nat /\ (skipped = Ids => s = n) /\ (read = Ids => m = n)
  BY <1>3, <1>4, <1>5, FS_CardinalityType
<1>7. Cardinality(read \ skipped) = m - s
  <2>1. read \cap skipped = skipped
    OBVIOUS
  <2> QED BY <1>5, <2>1, FS_Difference
<1>8. o \in Nat /\ k \in Nat \ {0} /\ n \in Nat
  BY <1>1, <1>3
<1> HIDE DEF o, k, n, s, m
<1>9. ASSUME m - s = k PROVE o + k <= n
  <2> SUFFICES ASSUME n < o + k PROVE FALSE
    BY <1>8
  <2>1. m = n
    BY <1>5, <1>6, <1>8
  <2>2. CASE o <= n
    BY <1>4, <1>8, <1>9, <2>1, <2>2
  <2>3. CASE n <= o
    BY <1>4, <1>6, <1>8, <1>9, <2>1, <2>3
  <2> QED BY <1>8, <2>2, <2>3
<1>10. ASSUME m - s # k PROVE read = Ids
  <2> SUFFICES ASSUME o + k <= n PROVE FALSE
    BY <1>5, <1>8
  <2>1. m = o + k /\ s = o
    BY <1>4, <1>5, <1>8
  <2> QED BY <1>8, <1>10, <2>1
<1> QED BY <1>2, <1>7, <1>9, <1>10 DEF o, k, n

\* Pages of two rows or more gain on the log.
LEMMA Gaining ==
    ASSUME NEW p \in Nat \ {0}, NEW k \in Nat \ {0}, NEW n \in Nat, NEW s \in Nat,
           NEW d \in Nat, NEW R \in Nat, d <= R - 1,
           p * k <= n, n <= s + (p - 1) + d, NEW next, next = p + 1
    PROVE  (next - 1) * (k - 1) <= s + R - 1
<1>1. (next - 1) * (k - 1) = p * k - p
  <2>1. next - 1 = p
    OBVIOUS
  <2>2. p * (k - 1) = p * k - p
    OBVIOUS
  <2> QED BY <2>1, <2>2
<1>2. p * k \in Nat
  OBVIOUS
<1> HIDE <1>1
<1> DEFINE q == p * k
<1>3. q \in Nat /\ q <= n
  BY <1>2
<1> HIDE DEF q
<1>4. q - p <= s + R - 1
  BY <1>3
<1> QED BY <1>1, <1>4 DEF q

LEMMA SelectPageStep == ASSUME StatsInv, NEW r \in Requests, SelectPage(r) PROVE StatsInv'
<1> USE DEF StatsInv
<1>1. PICK skipped \in Newest(Offset(page[r])), read \in Newest(Offset(page[r]) + PerPage) :
         /\ skipped \subseteq read
         /\ got' = [got EXCEPT ![r] = @ \cup (read \ skipped)]
         /\ TurnPage(r, Cardinality(read \ skipped) = PerPage)
         /\ Goto(r, "served")
  BY DEF SelectPage
<1> DEFINE full == Cardinality(read \ skipped) = PerPage
<1>2. /\ pc[r] = "read" /\ role[r] = "walk" /\ pc' = [pc EXCEPT ![r] = "served"]
      /\ more' = [more EXCEPT ![r] = full]
      /\ page' = [page EXCEPT ![r] = IF full THEN @ + 1 ELSE @]
      /\ role' = role /\ clock' = clock /\ log' = log /\ lastUsed' = lastUsed
      /\ stamp' = stamp /\ seenUsed' = seenUsed /\ total' = total /\ top' = top
      /\ start' = start
  BY <1>1 DEF SelectPage, TurnPage, Goto, tables
<1>3. /\ pc'[r] = "served" /\ more'[r] = full /\ got'[r] = got[r] \cup (read \ skipped)
      /\ page'[r] = IF full THEN page[r] + 1 ELSE page[r]
      /\ \A q \in Requests : q # r => /\ pc'[q] = pc[q] /\ more'[q] = more[q]
                                      /\ got'[q] = got[q] /\ page'[q] = page[q]
  BY <1>1, <1>2 DEF TypeOK
<1>4. log \in Seq(Rows) /\ page[r] \in Nat \ {0} /\ start[r] \subseteq Ids
  BY DEF TypeOK
<1>5. /\ Offset(page[r]) \in Nat /\ Offset(page[r]) + PerPage \in Nat
      /\ Offset(page[r]) + PerPage = Offset(page[r] + 1)
  BY <1>4, OffsetOf
<1>6. /\ full => page[r] * PerPage <= Len(log)
      /\ ~full => read = Ids
  BY <1>1, <1>4, PageRead
<1>7. read \subseteq Ids
  BY <1>1, <1>4, <1>5, NewestRows
<1> HIDE DEF full
<1>8. TypeOK'
  <2>1. pc' \in [Requests -> {"idle", "count", "read", "served", "stamped", "done", "failed"}]
    BY <1>2 DEF TypeOK
  <2>2. page' \in [Requests -> Nat \ {0}]
    BY <1>2, <1>4 DEF TypeOK
  <2>3. more' \in [Requests -> BOOLEAN]
    BY <1>2 DEF TypeOK, full
  <2>4. got' \in [Requests -> SUBSET Ids]
    BY <1>1, <1>7 DEF TypeOK
  <2> QED BY <1>2, <2>1, <2>2, <2>3, <2>4 DEF TypeOK, Ids
<1>9. RoleInv'
  <2>1. full => page'[r] > 1
    BY <1>3, <1>4
  <2> QED BY <1>2, <1>3, <2>1 DEF RoleInv
<1>10. UsedInv'
  BY <1>2, <1>3 DEF UsedInv
<1>11. ASSUME NEW i \in start[r], Untied(i), i \notin got[r] PROVE i \notin skipped
  <2>1. Offset(page[r]) <= Cardinality(Newer(i))
    BY <1>2, <1>11 DEF PlaceInv, Walking
  <2>2. i \in Ids /\ Cardinality(Newer(i)) \in Nat
    BY <1>4, LogGrows, <1>2
  <2>3. i \in skipped => Cardinality(Newer(i)) < Offset(page[r])
    BY <1>1, <1>4, <1>5, <2>2, NewestRows
  <2> QED BY <1>5, <2>1, <2>2, <2>3
<1>12. PlaceInv' /\ WalkMissesNothing'
  <2>1. ASSUME NEW i \in Ids
        PROVE  (Untied(i)' <=> Untied(i)) /\ Cardinality(Newer(i))' = Cardinality(Newer(i))
    BY <1>2 DEF Untied, Newer, Ids
  <2>2. ASSUME full, NEW i \in start[r], Untied(i)', i \notin got'[r]
        PROVE  Offset(page'[r]) <= Cardinality(Newer(i))'
    <3>1. i \in Ids /\ Untied(i) /\ i \notin read
      BY <1>3, <1>4, <1>11, <2>1, <2>2
    <3>2. Offset(page[r]) + PerPage <= Cardinality(Newer(i))
      BY <1>1, <1>4, <1>5, <3>1, NewestRows
    <3> QED BY <1>3, <1>5, <2>1, <2>2, <3>1, <3>2
  <2>3. ASSUME ~full, NEW i \in start[r], Untied(i)'
        PROVE  i \in got'[r]
    BY <1>3, <1>4, <1>6, <1>11, <2>1, <2>3
  <2>4. (Walking(r)' => full) /\ (Ended(r)' => ~full)
    BY <1>2, <1>3 DEF Walking, Ended
  <2>5. ASSUME NEW q \in Requests, q # r
        PROVE  /\ Walking(q)' => \A i \in start'[q] : Untied(i)' /\ i \notin got'[q] =>
                                    Offset(page'[q]) <= Cardinality(Newer(i))'
               /\ Ended(q)' => \A i \in start'[q] : Untied(i)' => i \in got'[q]
    <3>1. Walking(q)' = Walking(q) /\ Ended(q)' = Ended(q)
      BY <1>2, <1>3, <2>5 DEF Walking, Ended
    <3>2. log' \in Seq(Rows)
      BY <1>2, <1>4
    <3>3. start'[q] = start[q] /\ got'[q] = got[q] /\ page'[q] = page[q]
      BY <1>2, <1>3, <2>5
    <3> QED BY <1>2, <3>1, <3>2, <3>3, WalkStays
  <2> QED BY <1>2, <2>2, <2>3, <2>4, <2>5, WalksStay
<1>13. ASSUME NEW q \in Requests PROVE Over(q)' = Over(q)
  BY <1>2, <1>3 DEF Over, RoleInv
<1>14. ASSUME WalksAlone(r), full
       PROVE  /\ Len(log) <= Cardinality(start[r]) + (page[r] - 1) + Cardinality(Over(r))
              /\ (page'[r] - 1) * (PerPage - 1)
                    <= Cardinality(start[r]) + Cardinality(Requests) - 1
  <2>1. Len(log) <= Cardinality(start[r]) + (page[r] - 1) + Cardinality(Over(r))
    BY <1>2, <1>14 DEF GrowthInv
  <2>2. /\ Len(log) \in Nat /\ Cardinality(start[r]) \in Nat
        /\ Cardinality(Requests) \in Nat /\ Cardinality(Over(r)) \in Nat
        /\ Cardinality(Over(r)) <= Cardinality(Requests) - 1
    BY Counts
  <2>3. (page'[r] - 1) * (PerPage - 1) <= Cardinality(start[r]) + Cardinality(Requests) - 1
    <3>1. PerPage \in Nat \ {0} /\ page[r] \in Nat \ {0} /\ page[r] * PerPage <= Len(log)
      BY <1>4, <1>6, <1>14, BoundsAssumption
    <3> DEFINE p == page[r]
               next == page'[r]
               n == Len(log)
               s == Cardinality(start[r])
               d == Cardinality(Over(r))
               R == Cardinality(Requests)
    <3>2. /\ p \in Nat \ {0} /\ n \in Nat /\ s \in Nat /\ d \in Nat /\ R \in Nat
          /\ d <= R - 1 /\ p * PerPage <= n /\ n <= s + (p - 1) + d /\ next = p + 1
      BY <1>3, <1>14, <2>1, <2>2, <3>1
    <3> HIDE DEF p, next, n, s, d, R
    <3>3. (next - 1) * (PerPage - 1) <= s + R - 1
      BY <3>1, <3>2, Gaining
    <3> QED BY <3>3 DEF next, s, R
  <2> QED BY <2>1, <2>3
<1>15. GrowthInv'
  <2>1. ASSUME WalksAlone(r), full
        PROVE  Len(log) <= Cardinality(start[r]) + (page'[r] - 2) + Cardinality(Over(r))
    BY <1>3, <1>4, <1>14, <2>1
  <2>2. \A q \in Requests : WalksAlone(q)' => WalksAlone(q)
    BY <1>2 DEF WalksAlone
  <2> QED BY <1>2, <1>3, <1>13, <2>1, <2>2 DEF GrowthInv
<1>16. WalkIsShort'
  <2>1. \A q \in Requests : WalksAlone(q)' => WalksAlone(q)
    BY <1>2 DEF WalksAlone
  <2>2. ASSUME NEW q \in Requests, WalksAlone(q)
        PROVE  (page'[q] - 1) * (PerPage - 1)
                  <= Cardinality(start[q]) + Cardinality(Requests) - 1
    <3>1. CASE q = r /\ full
      BY <1>14, <2>2, <3>1
    <3>2. CASE page'[q] = page[q]
      BY <2>2, <3>2 DEF WalkIsShort
    <3> QED BY <1>3, <3>1, <3>2
  <2> QED BY <1>2, <2>1, <2>2 DEF WalkIsShort
<1> QED BY <1>8, <1>9, <1>10, <1>12, <1>15, <1>16

LEMMA LogCallStep == ASSUME StatsInv, NEW r \in Requests, LogCall(r) PROVE StatsInv'
<1> USE DEF StatsInv
<1>1. PICK ep \in Endpoints : log' = Append(log, [at |-> stamp[r], endpoint |-> ep])
  BY DEF LogCall
<1>2. /\ pc[r] = "stamped" /\ lastUsed' = stamp[r] /\ stamp' = [stamp EXCEPT ![r] = Nil]
      /\ pc' = [pc EXCEPT ![r] = IF more[r] THEN "idle" ELSE "done"]
      /\ role' = role /\ clock' = clock /\ seenUsed' = seenUsed /\ total' = total
      /\ top' = top /\ page' = page /\ more' = more /\ got' = got /\ start' = start
  BY DEF LogCall, Respond, Goto, reading
<1>3. /\ pc'[r] = (IF more[r] THEN "idle" ELSE "done") /\ stamp'[r] = Nil
      /\ \A q \in Requests : q # r => pc'[q] = pc[q] /\ stamp'[q] = stamp[q]
  BY <1>2 DEF TypeOK
<1>4. stamp[r] \in 0..MaxTime
  BY <1>2 DEF RoleInv, TypeOK
<1>5. [at |-> stamp[r], endpoint |-> ep] \in Rows
  BY <1>4 DEF Rows
<1>6. /\ log \in Seq(Rows) /\ log' \in Seq(Rows) /\ Len(log') = Len(log) + 1
      /\ \E w \in Rows : log' = Append(log, w)
  BY <1>1, <1>5, AppendProperties DEF TypeOK
<1>7. Ids \subseteq Ids' /\ Len(log) \in Nat
  BY <1>6, LogGrows, LogTypes
<1>8. TypeOK'
  <2>1. pc' \in [Requests -> {"idle", "count", "read", "served", "stamped", "done", "failed"}]
    BY <1>2 DEF TypeOK
  <2>2. stamp' \in [Requests -> 0..MaxTime \cup {Nil}] /\ lastUsed' \in 0..MaxTime \cup {Nil}
    BY <1>2, <1>4 DEF TypeOK
  <2>3. total' \in [Requests -> 0..Len(log')]
    <3>1. 0..Len(log) \subseteq 0..Len(log')
      BY <1>6, <1>7
    <3> QED BY <1>2, <3>1 DEF TypeOK
  <2>4. got' \in [Requests -> SUBSET Ids'] /\ start' \in [Requests -> SUBSET Ids']
    <3>1. SUBSET Ids \subseteq SUBSET Ids'
      BY <1>7
    <3> QED BY <1>2, <3>1 DEF TypeOK
  <2> QED BY <1>2, <1>6, <2>1, <2>2, <2>3, <2>4 DEF TypeOK
<1>9. RoleInv'
  BY <1>2, <1>3 DEF RoleInv
<1>10. UsedInv'
  <2>1. Len(log') > 0
    BY <1>6, <1>7
  <2> QED BY <1>2, <1>3, <2>1 DEF UsedInv
<1>11. PlaceInv' /\ WalkMissesNothing'
  <2>1. ASSUME NEW q \in Requests
        PROVE  (Walking(q)' => Walking(q)) /\ (Ended(q)' => Ended(q))
    BY <1>2, <1>3 DEF Walking, Ended
  <2>2. ASSUME NEW q \in Requests
        PROVE  /\ Walking(q) => \A i \in start'[q] : Untied(i)' /\ i \notin got'[q] =>
                                   Offset(page'[q]) <= Cardinality(Newer(i))'
               /\ Ended(q) => \A i \in start'[q] : Untied(i)' => i \in got'[q]
    BY <1>2, <1>6, WalkStays
  <2> QED BY <2>1, <2>2, WalksStay
<1>12. GrowthInv'
  <2> SUFFICES ASSUME NEW q \in Requests, WalksAlone(q)'
               PROVE  /\ pc'[q] \in {"count", "read"} \/ (pc'[q] = "idle" /\ page'[q] > 1) =>
                            Len(log') <= Cardinality(start'[q]) + (page'[q] - 1)
                                           + Cardinality(Over(q)')
                      /\ pc'[q] \in {"served", "stamped"} /\ more'[q] =>
                            Len(log') <= Cardinality(start'[q]) + (page'[q] - 2)
                                           + Cardinality(Over(q)')
    BY DEF GrowthInv
  <2>1. WalksAlone(q) /\ role[q] = "walk" /\ \A x \in Requests \ {q} : role[x] # "walk"
    BY <1>2 DEF WalksAlone
  <2> DEFINE L == Len(log)
             s == Cardinality(start[q])
             p == page[q]
             d == Cardinality(Over(q))
  <2>2. L \in Nat /\ s \in Nat /\ p \in Nat /\ d \in Nat
    BY Counts
  <2>3. /\ pc[q] \in {"count", "read"} \/ (pc[q] = "idle" /\ p > 1) => L <= s + (p - 1) + d
        /\ pc[q] \in {"served", "stamped"} /\ more[q] => L <= s + (p - 2) + d
    BY <2>1 DEF GrowthInv
  <2>4. CASE q = r
    <3>1. Over(q)' = Over(q)
      BY <1>2, <1>3, <2>4 DEF Over
    <3>2. CASE more[q]
      <4>1. L <= s + (p - 2) + d
        BY <1>2, <2>3, <2>4, <3>2
      <4> HIDE DEF s, p, d
      <4>2. L + 1 <= s + (p - 1) + d
        BY <2>2, <4>1
      <4>3. pc'[q] = "idle"
        BY <1>3, <2>4, <3>2
      <4> QED BY <1>2, <1>6, <3>1, <4>2, <4>3 DEF s, p, d
    <3>3. CASE ~more[q]
      BY <1>2, <1>3, <2>4, <3>3
    <3> QED BY <3>2, <3>3
  <2>5. CASE q # r
    <3>1. pc'[r] = "done"
      BY <1>3, <2>1, <2>5 DEF RoleInv
    <3>2. Over(q)' = Over(q) \cup {r} /\ r \notin Over(q)
      BY <1>2, <1>3, <2>5, <3>1 DEF Over
    <3>3. Cardinality(Over(q)') = d + 1
      <4>1. IsFiniteSet(Over(q))
        BY Counts
      <4> QED BY <3>2, <4>1, FS_AddElement
    <3>4. pc'[q] = pc[q]
      BY <1>3, <2>5
    <3> HIDE DEF s, p, d
    <3>5. /\ L <= s + (p - 1) + d => L + 1 <= s + (p - 1) + (d + 1)
          /\ L <= s + (p - 2) + d => L + 1 <= s + (p - 2) + (d + 1)
      BY <2>2
    <3> QED BY <1>2, <1>6, <2>3, <3>3, <3>4, <3>5 DEF s, p
  <2> QED BY <2>4, <2>5
<1>13. WalkIsShort'
  BY <1>2 DEF WalkIsShort, WalksAlone
<1> QED BY <1>8, <1>9, <1>10, <1>11, <1>12, <1>13

\* StatsInv is inductive.
LEMMA NextStats == StatsInv /\ [Next]_vars => StatsInv'
<1> SUFFICES ASSUME StatsInv, [Next]_vars PROVE StatsInv'
  OBVIOUS
<1>1. CASE Tick \/ UNCHANGED vars
  BY <1>1, TickStep
<1> QED BY <1>1, GetKeyStep, CountRowsStep, TopEndpointsStep, SelectPageStep, StampStep,
           LogCallStep, LogNothingStep, RefuseStep DEF Next, Quiescent

LEMMA AlwaysStats == Spec => []StatsInv
BY InitStats, NextStats, PTL DEF Spec
-------------------------------------------------------------------------------
(* The theorems *)

\* The variables keep their types: what was counted or given is in the log, and
\* a summary lists TopLimit endpoints at most, all of them in use.
THEOREM UsageIsTyped == Spec => []TypeOK
<1>1. StatsInv => TypeOK
  BY DEF StatsInv
<1> QED BY <1>1, AlwaysStats, PTL

\* A summary with a last_used_at has a total above zero, whenever the log it
\* comes with was committed (two statements, and the log of the request that
\* authenticated the caller).
THEOREM UsedIsCounted == Spec => []UsedMeansCounted
<1>1. StatsInv => UsedMeansCounted
  <2> SUFFICES ASSUME StatsInv, NEW r \in Requests, Summarized(r), seenUsed[r] # Nil
               PROVE  total[r] > 0
    BY DEF UsedMeansCounted
  <2> QED BY DEF StatsInv, UsedInv, Summarized
<1> QED BY <1>1, AlwaysStats, PTL

\* Paging by offset misses no row that was stored at the start and shares its
\* called_at with no other, for any number of clients, rows and page sizes.
THEOREM WalkIsComplete == Spec => []WalkMissesNothing
<1>1. StatsInv => WalkMissesNothing
  BY DEF StatsInv
<1> QED BY <1>1, AlwaysStats, PTL

\* A walk that makes the log longer is bounded by the rows there were and the
\* other requests, if a page has two rows or more.
THEOREM WalkComesToItsEnd == Spec => []WalkIsShort
<1>1. StatsInv => WalkIsShort
  BY DEF StatsInv
<1> QED BY <1>1, AlwaysStats, PTL
-------------------------------------------------------------------------------
(* Sums over endpoints *)

LEMMA Products ==
    ASSUME NEW a \in Nat, NEW b \in Nat, NEW c \in Nat, a <= b
    PROVE  a * c <= b * c /\ c * a <= c * b /\ a * c \in Nat
OBVIOUS

\* A nonempty set of numbers has a smallest.
LEMMA SmallestOf ==
    ASSUME NEW T, T \subseteq Nat, T # {}
    PROVE  \E x \in T : \A y \in T : x <= y
<1> DEFINE R == OpToRel(<, Nat)
<1>1. IsWellFoundedOn(R, Nat)
  BY NatLessThanWellFounded, Zenon
<1>2. \A a, b \in Nat : a < b => <<a, b>> \in R
  BY DEF OpToRel
<1> HIDE DEF R
<1>3. PICK x \in T : \A y \in T : <<y, x>> \notin R
  BY <1>1, WFMin
<1>4. ASSUME NEW y \in T PROVE x <= y
  <2>1. x \in Nat /\ y \in Nat /\ ~(y < x)
    BY <1>2, <1>3
  <2> QED BY <2>1
<1> QED BY <1>4

\* Of the finite subsets with a property there is a smallest.
LEMMA SmallestSubset ==
    ASSUME NEW S, IsFiniteSet(S), NEW P, P \subseteq SUBSET S, P # {}
    PROVE  \E T \in P : \A x \in T : T \ {x} \notin P
<1> DEFINE N == {Cardinality(T) : T \in P}
<1>1. \A T \in P : IsFiniteSet(T) /\ Cardinality(T) \in Nat
  BY FS_Subset, FS_CardinalityType
<1>2. N \subseteq Nat /\ N # {}
  BY <1>1
<1> HIDE DEF N
<1>3. PICK n \in N : \A m \in N : n <= m
  BY <1>2, SmallestOf
<1>4. PICK T \in P : n = Cardinality(T)
  BY <1>3 DEF N
<1>5. ASSUME NEW x \in T, T \ {x} \in P PROVE FALSE
  <2>1. Cardinality(T \ {x}) = Cardinality(T) - 1
    BY <1>1, <1>5, FS_RemoveElement
  <2>2. Cardinality(T \ {x}) \in N
    BY <1>5 DEF N
  <2> QED BY <1>1, <1>3, <1>4, <2>1, <2>2
<1> QED BY <1>5

\* A measure that grows by g[x] with the element x is the sum of g.
LEMMA SumIsMeasure ==
    ASSUME NEW g, IsFiniteSet(DOMAIN g), NEW h \in [SUBSET DOMAIN g -> Nat], h[{}] = 0,
           \A T \in SUBSET DOMAIN g : \A x \in T : h[T] = g[x] + h[T \ {x}]
    PROVE  SumOf(g) = h[DOMAIN g]
<1> DEFINE S == DOMAIN g
           Pick(s) == CHOOSE x \in s : TRUE
           Folds(f) == f = [s \in SUBSET S |-> IF s = {} THEN 0
                                               ELSE g[Pick(s)] + f[s \ {Pick(s)}]]
           f == CHOOSE f : Folds(f)
<1>1. SumOf(g) = f[S]
  BY DEF SumOf, MapThenSumSet, MapThenFoldSet
<1>2. \A s : s # {} => Pick(s) \in s
  OBVIOUS
<1> HIDE DEF Pick
<1>3. Folds(h)
  <2>1. ASSUME NEW s \in SUBSET S
        PROVE  h[s] = IF s = {} THEN 0 ELSE g[Pick(s)] + h[s \ {Pick(s)}]
    BY <1>2
  <2> QED BY <2>1
<1>4. Folds(f)
  BY <1>3
<1> HIDE DEF f
<1>5. \A s \in SUBSET S : f[s] = IF s = {} THEN 0 ELSE g[Pick(s)] + f[s \ {Pick(s)}]
  BY <1>4
<1> DEFINE P == {s \in SUBSET S : f[s] # h[s]}
<1>6. P = {}
  <2> SUFFICES ASSUME P # {} PROVE FALSE
    OBVIOUS
  <2>1. PICK T \in P : \A x \in T : T \ {x} \notin P
    BY SmallestSubset
  <2>2. T \in SUBSET S /\ f[T] # h[T] /\ T # {}
    BY <1>5
  <2>3. Pick(T) \in T /\ f[T \ {Pick(T)}] = h[T \ {Pick(T)}]
    BY <1>2, <2>1, <2>2
  <2> QED BY <1>5, <2>2, <2>3
<1> QED BY <1>1, <1>6

\* The calls of some endpoints.
CallsOf(T) == {i \in Ids : log[i].endpoint \in T}

LEMMA CallsAdd ==
    ASSUME log \in Seq(Rows), NEW T, NEW x \in T
    PROVE  /\ Cardinality(CallsOf(T)) \in Nat /\ Calls(x) \in Nat
           /\ Cardinality(CallsOf(T \ {x})) \in Nat
           /\ Cardinality(CallsOf(T)) = Calls(x) + Cardinality(CallsOf(T \ {x}))
<1> DEFINE A == CallsOf(T \ {x})
           B == {i \in Ids : log[i].endpoint = x}
<1>1. IsFiniteSet(Ids)
  BY LogTypes
<1>2. A \in SUBSET Ids /\ B \in SUBSET Ids /\ CallsOf(T) \in SUBSET Ids
      /\ CallsOf(T) = A \cup B /\ A \cap B = {}
  BY DEF CallsOf
<1>3. Calls(x) = Cardinality(B)
  BY DEF Calls
<1>4. IsFiniteSet(A) /\ IsFiniteSet(B) /\ IsFiniteSet(CallsOf(T))
  BY <1>1, <1>2, FS_Subset
<1> HIDE DEF A, B
<1>5. Cardinality(A) \in Nat /\ Cardinality(B) \in Nat /\ Cardinality(CallsOf(T)) \in Nat
  BY <1>4, FS_CardinalityType
<1>6. Cardinality(A \cup B) = Cardinality(A) + Cardinality(B) - Cardinality(A \cap B)
  BY <1>4, FS_Union
<1>7. Cardinality(A \cap B) = 0
  BY <1>2, FS_EmptySet
<1>8. Cardinality(CallsOf(T)) = Cardinality(B) + Cardinality(A)
  BY <1>2, <1>5, <1>6, <1>7
<1> QED BY <1>3, <1>5, <1>8 DEF A

\* What the endpoints of a set were called at least, and at most.
LEMMA CallsBounded ==
    ASSUME log \in Seq(Rows), NEW S, IsFiniteSet(S), NEW t \in Nat
    PROVE  /\ (\A e \in S : t <= Calls(e)) => Cardinality(S) * t <= Cardinality(CallsOf(S))
           /\ (\A e \in S : Calls(e) <= t) => Cardinality(CallsOf(S)) <= Cardinality(S) * t
<1> DEFINE n(T) == Cardinality(T)
           c(T) == Cardinality(CallsOf(T))
           Low == {T \in SUBSET S : ~(n(T) * t <= c(T))}
           High == {T \in SUBSET S : ~(c(T) <= n(T) * t)}
<1>1. n({}) = 0 /\ c({}) = 0
  <2>1. CallsOf({}) = {}
    BY DEF CallsOf
  <2> QED BY <2>1, FS_EmptySet
<1>2. ASSUME NEW T \in SUBSET S, NEW x \in T
      PROVE  /\ n(T) \in Nat /\ n(T \ {x}) \in Nat /\ n(T) = n(T \ {x}) + 1
             /\ c(T) \in Nat /\ c(T \ {x}) \in Nat /\ Calls(x) \in Nat
             /\ c(T) = Calls(x) + c(T \ {x})
  <2>1. IsFiniteSet(T) /\ n(T) \in Nat
    BY FS_Subset, FS_CardinalityType
  <2>2. IsFiniteSet(T \ {x}) /\ n(T \ {x}) = n(T) - 1 /\ n(T \ {x}) \in Nat
    BY <2>1, FS_RemoveElement, FS_CardinalityType
  <2> QED BY <2>1, <2>2, CallsAdd
<1>3. n({}) * t <= c({}) /\ c({}) <= n({}) * t
  <2>1. 0 * t = 0
    OBVIOUS
  <2> QED BY <1>1, <2>1
<1>4. ASSUME NEW T \in SUBSET S, NEW x \in T
      PROVE  n(T) * t = n(T \ {x}) * t + t /\ n(T \ {x}) * t \in Nat
  <2> DEFINE m == n(T \ {x})
             k == n(T)
  <2>1. m \in Nat /\ k = m + 1
    BY <1>2
  <2> HIDE DEF m, k
  <2>2. k * t = m * t + t /\ m * t \in Nat
    BY <2>1
  <2> QED BY <2>2 DEF m, k
<1> HIDE DEF n, c
<1>5. ASSUME \A e \in S : t <= Calls(e) PROVE Low = {}
  <2> SUFFICES ASSUME Low # {} PROVE FALSE
    OBVIOUS
  <2>1. PICK T \in Low : \A x \in T : T \ {x} \notin Low
    BY SmallestSubset
  <2>2. T \in SUBSET S /\ ~(n(T) * t <= c(T)) /\ T # {}
    BY <1>3
  <2>3. PICK x \in T : TRUE
    BY <2>2
  <2>4. n(T \ {x}) * t <= c(T \ {x}) /\ t <= Calls(x)
    BY <1>5, <2>1, <2>2
  <2> DEFINE a == n(T \ {x}) * t
             b == n(T) * t
  <2>5. a \in Nat /\ b = a + t /\ a <= c(T \ {x}) /\ ~(b <= c(T))
    BY <1>4, <2>2, <2>4
  <2>6. c(T) \in Nat /\ c(T \ {x}) \in Nat /\ Calls(x) \in Nat /\ c(T) = Calls(x) + c(T \ {x})
    BY <1>2, <2>2
  <2> HIDE DEF a, b
  <2> QED BY <2>4, <2>5, <2>6
<1>6. ASSUME \A e \in S : Calls(e) <= t PROVE High = {}
  <2> SUFFICES ASSUME High # {} PROVE FALSE
    OBVIOUS
  <2>1. PICK T \in High : \A x \in T : T \ {x} \notin High
    BY SmallestSubset
  <2>2. T \in SUBSET S /\ ~(c(T) <= n(T) * t) /\ T # {}
    BY <1>3
  <2>3. PICK x \in T : TRUE
    BY <2>2
  <2>4. c(T \ {x}) <= n(T \ {x}) * t /\ Calls(x) <= t
    BY <1>6, <2>1, <2>2
  <2> DEFINE a == n(T \ {x}) * t
             b == n(T) * t
  <2>5. a \in Nat /\ b = a + t /\ c(T \ {x}) <= a /\ ~(c(T) <= b)
    BY <1>4, <2>2, <2>4
  <2>6. c(T) \in Nat /\ c(T \ {x}) \in Nat /\ Calls(x) \in Nat /\ c(T) = Calls(x) + c(T \ {x})
    BY <1>2, <2>2
  <2> HIDE DEF a, b
  <2> QED BY <2>4, <2>5, <2>6
<1>7. (\A e \in S : t <= Calls(e)) => n(S) * t <= c(S)
  BY <1>5
<1>8. (\A e \in S : Calls(e) <= t) => c(S) <= n(S) * t
  BY <1>6
<1> QED BY <1>7, <1>8 DEF n, c

\* What is said of a total and the breakdown that comes with it.
Covered(n, calls) ==
    n * Min({TopLimit, Cardinality(Endpoints)})
       <= Cardinality(Endpoints) * SumOf(calls)

\* The arithmetic of an average: a calls of the k endpoints listed, each at
\* least t, and b of the u - k others, each at most t.
LEMMA Average ==
    ASSUME NEW a \in Nat, NEW b \in Nat, NEW t \in Nat, NEW k \in Nat, NEW u \in Nat,
           NEW m \in Nat, k <= u, u <= m, k * t <= a, b <= (u - k) * t
    PROVE  (a + b) * k <= m * a
<1> DEFINE v == u - k
<1>1. v \in Nat /\ u = k + v
  OBVIOUS
<1>2. b <= v * t
  OBVIOUS
<1> HIDE DEF v
<1>3. b * k <= (v * t) * k
  <2>1. v * t \in Nat
    BY <1>1
  <2> QED BY <1>2, <2>1, Products
<1>4. (v * t) * k = v * (k * t)
  BY <1>1
<1>5. v * (k * t) <= v * a
  <2>1. k * t \in Nat
    OBVIOUS
  <2> QED BY <1>1, <2>1, Products
<1>6. (a + b) * k = a * k + b * k /\ u * a = k * a + v * a
  BY <1>1
<1>7. a * k = k * a /\ b * k \in Nat /\ k * a \in Nat /\ v * a \in Nat /\ u * a \in Nat
  BY <1>1
<1>8. u * a <= m * a
  BY Products
<1> DEFINE w == v * (k * t)
           x == b * k
           y == k * a
           z == v * a
<1>9. x <= w /\ w <= z /\ w \in Nat /\ x \in Nat /\ y \in Nat /\ z \in Nat
  BY <1>1, <1>3, <1>4, <1>5, <1>7
<1> HIDE DEF w, x, y, z
<1>10. (a + b) * k = y + x /\ u * a = y + z
  BY <1>6, <1>7 DEF x, y, z
<1>11. y + x <= y + z
  BY <1>9
<1>12. m * a \in Nat
  OBVIOUS
<1> QED BY <1>7, <1>8, <1>10, <1>11, <1>12

\* The endpoints called most have their share of the calls.
LEMMA TopShare ==
    ASSUME log \in Seq(Rows), NEW E \in MostCalled(TopLimit)
    PROVE  /\ E \subseteq Endpoints /\ Cardinality(CallsOf(E)) \in Nat
           /\ Len(log) * Min({TopLimit, Cardinality(Endpoints)})
                 <= Cardinality(Endpoints) * Cardinality(CallsOf(E))
<1> DEFINE used == {log[i].endpoint : i \in Ids}
           m == Cardinality(Endpoints)
           u == Cardinality(used)
           k == TopLimit
<1>1. /\ IsFiniteSet(Ids) /\ Cardinality(Ids) = Len(log) /\ Len(log) \in Nat
      /\ \A i \in Ids : log[i].endpoint \in Endpoints
  BY LogTypes
<1>2. /\ IsFiniteSet(Endpoints) /\ m \in Nat /\ k \in Nat \ {0}
  BY BoundsAssumption, FS_CardinalityType
<1>3. used \in SUBSET Endpoints /\ CallsOf(used) = Ids
  BY <1>1 DEF CallsOf
<1>4. IsFiniteSet(used) /\ u \in Nat /\ u <= m
  BY <1>2, <1>3, FS_Subset, FS_CardinalityType
<1>5. /\ E \in SUBSET used /\ Cardinality(E) = Min({k, u})
      /\ \A e \in E, f \in used \ E : Calls(e) >= Calls(f)
  BY DEF MostCalled, kSubset
<1>6. \A T : CallsOf(T) \in SUBSET Ids
  BY DEF CallsOf
<1>7. \A T : IsFiniteSet(CallsOf(T)) /\ Cardinality(CallsOf(T)) \in Nat
  BY <1>1, <1>6, FS_Subset, FS_CardinalityType
<1>8. CallsOf(used) = CallsOf(E) \cup CallsOf(used \ E) /\ CallsOf(E) \cap CallsOf(used \ E) = {}
  BY <1>5 DEF CallsOf
<1>9. IsFiniteSet(E) /\ IsFiniteSet(used \ E) /\ Cardinality(used \ E) = u - Cardinality(E)
  <2>1. IsFiniteSet(E)
    BY <1>4, <1>5, FS_Subset
  <2>2. used \cap E = E
    BY <1>5
  <2> QED BY <1>4, <2>1, <2>2, FS_Difference
<1> HIDE DEF used
<1> DEFINE a == Cardinality(CallsOf(E))
           b == Cardinality(CallsOf(used \ E))
<1>10. a \in Nat /\ b \in Nat /\ Len(log) = a + b
  <2>1. Cardinality(CallsOf(E) \cup CallsOf(used \ E))
           = a + b - Cardinality(CallsOf(E) \cap CallsOf(used \ E))
    BY <1>7, FS_Union
  <2>2. Cardinality(CallsOf(E) \cap CallsOf(used \ E)) = 0
    BY <1>8, FS_EmptySet
  <2>3. Len(log) = Cardinality(CallsOf(E) \cup CallsOf(used \ E))
    BY <1>1, <1>3, <1>8
  <2> QED BY <1>7, <2>1, <2>2, <2>3
<1>11. CASE u <= k
  <2>1. E = used
    BY <1>2, <1>4, <1>5, <1>11, MinOfTwo, FS_Subset
  <2>2. Len(log) = a
    BY <1>1, <1>3, <2>1
  <2>3. Min({k, m}) \in Nat /\ Min({k, m}) <= m
    BY <1>2, MinOfTwo
  <2>4. Min({k, m}) * a <= m * a /\ a * Min({k, m}) = Min({k, m}) * a
    <3> DEFINE c == Min({k, m})
    <3>1. c \in Nat /\ c <= m
      BY <2>3
    <3> HIDE DEF c, a, m
    <3>2. c * a <= m * a
      BY <1>2, <1>10, <3>1, Products DEF m
    <3>3. c * a = a * c
      BY <1>10, <3>1
    <3> QED BY <3>2, <3>3 DEF c
  <2> QED BY <1>3, <1>5, <1>7, <2>2, <2>4
<1>12. CASE k < u
  <2>1. Cardinality(E) = k /\ Min({k, m}) = k /\ k <= u
    BY <1>2, <1>4, <1>5, <1>12, MinOfTwo
  <2>2. E # {}
    BY <1>2, <2>1, FS_EmptySet
  <2> DEFINE T == {Calls(e) : e \in E}
  <2>3. T \subseteq Nat /\ T # {}
    <3>1. ASSUME NEW e PROVE Calls(e) \in Nat
      <4>1. {i \in Ids : log[i].endpoint = e} \in SUBSET Ids
        OBVIOUS
      <4> QED BY <1>1, <4>1, FS_Subset, FS_CardinalityType DEF Calls
    <3> QED BY <2>2, <3>1
  <2> HIDE DEF T
  <2>4. PICK t \in T : \A y \in T : t <= y
    BY <2>3, SmallestOf
  <2>5. PICK x \in E : t = Calls(x)
    BY <2>4 DEF T
  <2>6. t \in Nat /\ \A e \in E : t <= Calls(e)
    BY <2>3, <2>4 DEF T
  <2>7. \A f \in used \ E : Calls(f) <= t
    <3>1. ASSUME NEW f \in used \ E PROVE Calls(x) >= Calls(f)
      BY <1>5
    <3>2. \A f : Calls(f) \in Nat
      <4>1. ASSUME NEW f PROVE {i \in Ids : log[i].endpoint = f} \in SUBSET Ids
        OBVIOUS
      <4> QED BY <1>1, <4>1, FS_Subset, FS_CardinalityType DEF Calls
    <3> QED BY <2>5, <2>6, <3>1, <3>2
  <2>8. k * t <= a
    BY <1>9, <2>1, <2>6, CallsBounded
  <2>9. b <= (u - k) * t
    BY <1>9, <2>1, <2>6, <2>7, CallsBounded
  <2> HIDE DEF a, b, u, m
  <2>10. (a + b) * k <= m * a
    BY <1>2, <1>4, <1>10, <2>1, <2>6, <2>8, <2>9, Average
  <2>11. Len(log) * Min({k, m}) <= m * a
    BY <1>10, <2>1, <2>10
  <2>12. E \subseteq Endpoints
    BY <1>3, <1>5
  <2> QED BY <1>10, <2>11, <2>12 DEF a, m
<1> QED BY <1>2, <1>4, <1>11, <1>12

\* The sum of a breakdown is the number of the calls it stands for.
LEMMA BreakdownSum ==
    ASSUME log \in Seq(Rows), NEW E \in SUBSET Endpoints, NEW calls,
           calls = [e \in E |-> Calls(e)]
    PROVE  SumOf(calls) = Cardinality(CallsOf(E))
<1> DEFINE h == [T \in SUBSET E |-> Cardinality(CallsOf(T))]
<1>1. IsFiniteSet(E)
  BY BoundsAssumption, FS_Subset
<1>2. \A T : CallsOf(T) \in SUBSET Ids
  BY DEF CallsOf
<1>3. \A T : Cardinality(CallsOf(T)) \in Nat
  BY <1>2, LogTypes, FS_Subset, FS_CardinalityType
<1>4. h \in [SUBSET E -> Nat]
  BY <1>3
<1>5. h[{}] = 0
  <2>1. CallsOf({}) = {}
    BY DEF CallsOf
  <2> QED BY <2>1, FS_EmptySet
<1>6. \A T \in SUBSET E : \A x \in T : h[T] = calls[x] + h[T \ {x}]
  <2> SUFFICES ASSUME NEW T \in SUBSET E, NEW x \in T
               PROVE  h[T] = calls[x] + h[T \ {x}]
    OBVIOUS
  <2>1. Cardinality(CallsOf(T)) = Calls(x) + Cardinality(CallsOf(T \ {x}))
    BY CallsAdd
  <2> QED BY <2>1
<1>7. h[E] = Cardinality(CallsOf(E)) /\ DOMAIN calls = E
  OBVIOUS
<1>9. calls = [e \in E |-> Calls(e)] /\ DOMAIN calls = E
  OBVIOUS
<1> HIDE DEF h
<1>8. SumOf(calls) = h[DOMAIN calls]
  <2>1. /\ IsFiniteSet(DOMAIN calls) /\ h \in [SUBSET DOMAIN calls -> Nat] /\ h[{}] = 0
        /\ \A T \in SUBSET DOMAIN calls : \A x \in T : h[T] = calls[x] + h[T \ {x}]
    BY <1>1, <1>4, <1>5, <1>6, <1>9
  <2> QED BY ONLY <2>1, SumIsMeasure, Zenon
<1> QED BY <1>7, <1>8

LEMMA TopIsCovered ==
    ASSUME TypeOK, NEW r \in Requests, TopEndpoints(r)
    PROVE  Covered(total'[r], top'[r])
<1>1. PICK E \in MostCalled(TopLimit) : top' = [top EXCEPT ![r] = [e \in E |-> Calls(e)]]
  BY DEF TopEndpoints
<1>2. top'[r] = [e \in E |-> Calls(e)] /\ total' = total
  BY <1>1 DEF TypeOK, TopEndpoints
<1>3. log \in Seq(Rows) /\ total[r] \in 0..Len(log) /\ Len(log) \in Nat
  <2>1. log \in Seq(Rows) /\ total[r] \in 0..Len(log)
    BY DEF TypeOK
  <2> QED BY <2>1, LogTypes
<1> DEFINE n == total[r]
           l == Len(log)
           k == Min({TopLimit, Cardinality(Endpoints)})
           m == Cardinality(Endpoints)
           s == Cardinality(CallsOf(E))
<1>4. E \subseteq Endpoints /\ s \in Nat /\ l * k <= m * s
  BY <1>3, TopShare
<1>5. k \in Nat /\ m \in Nat /\ n \in Nat /\ l \in Nat /\ n <= l
  <2>1. m \in Nat /\ TopLimit \in Nat
    BY BoundsAssumption, FS_CardinalityType
  <2> QED BY <1>3, <2>1, MinOfTwo
<1>6. SumOf(top'[r]) = s
  BY <1>2, <1>3, <1>4, BreakdownSum
<1>7. n * k <= m * s
  <2> HIDE DEF n, l, k, m, s
  <2>1. n * k <= l * k /\ n * k \in Nat /\ l * k \in Nat
    BY <1>5, Products
  <2>2. m * s \in Nat
    BY <1>4, <1>5
  <2> QED BY <1>4, <2>1, <2>2
<1> QED BY <1>2, <1>6, <1>7 DEF Covered

LEMMA NextCovered == StatsInv /\ BreakdownCoversTotal /\ [Next]_vars => BreakdownCoversTotal'
<1> SUFFICES ASSUME StatsInv, BreakdownCoversTotal, [Next]_vars,
                    NEW r \in Requests, Summarized(r)'
             PROVE  Covered(total'[r], top'[r])
  BY DEF BreakdownCoversTotal, Covered
<1>1. TypeOK /\ RoleInv
  BY DEF StatsInv
<1>2. ASSUME Summarized(r), total'[r] = total[r], top'[r] = top[r]
      PROVE  Covered(total'[r], top'[r])
  BY <1>2 DEF BreakdownCoversTotal, Covered
<1>3. ASSUME role' = role, pc'[r] = pc[r], total'[r] = total[r], top'[r] = top[r]
      PROVE  Covered(total'[r], top'[r])
  BY <1>2, <1>3 DEF Summarized
<1>4. ASSUME NEW q \in Requests, GetKey(q) PROVE Covered(total'[r], top'[r])
  BY <1>1, <1>3, <1>4 DEF GetKey, Goto, TypeOK, Summarized
<1>5. ASSUME NEW q \in Requests, CountRows(q) PROVE Covered(total'[r], top'[r])
  BY <1>1, <1>3, <1>5 DEF CountRows, Goto, TypeOK, Summarized
<1>6. ASSUME NEW q \in Requests, TopEndpoints(q) PROVE Covered(total'[r], top'[r])
  <2>1. CASE q = r
    BY <1>1, <1>6, <2>1, TopIsCovered
  <2>2. CASE q # r
    BY <1>1, <1>3, <1>6, <2>2 DEF TopEndpoints, Goto, TypeOK
  <2> QED BY <2>1, <2>2
<1>7. ASSUME NEW q \in Requests, SelectPage(q) PROVE Covered(total'[r], top'[r])
  BY <1>1, <1>3, <1>7 DEF SelectPage, Goto, TypeOK, Summarized
<1>8. ASSUME NEW q \in Requests, Stamp(q) \/ LogCall(q) \/ LogNothing(q)
      PROVE  Covered(total'[r], top'[r])
  <2>1. role' = role /\ total' = total /\ top' = top
    BY <1>8 DEF Stamp, LogCall, LogNothing, reading
  <2>2. pc[q] \in {"served", "stamped"} /\ \A x \in Requests : x # q => pc'[x] = pc[x]
    BY <1>1, <1>8 DEF Stamp, LogCall, LogNothing, Respond, Goto, TypeOK
  <2>3. CASE q = r
    BY <1>2, <2>1, <2>2, <2>3 DEF Summarized
  <2>4. CASE q # r
    BY <1>3, <2>1, <2>2, <2>4
  <2> QED BY <2>3, <2>4
<1>9. ASSUME NEW q \in Requests, Refuse(q) PROVE Covered(total'[r], top'[r])
  BY <1>1, <1>3, <1>9 DEF Refuse, Goto, TypeOK, Summarized, reading
<1>10. CASE Tick \/ UNCHANGED vars
  BY <1>3, <1>10 DEF Tick, vars, reading
<1> QED BY <1>4, <1>5, <1>6, <1>7, <1>8, <1>9, <1>10 DEF Next, Quiescent

\* The endpoints a summary lists account for their share of its total, for any
\* number of endpoints and any limit, although the two were read one after the
\* other while the log grew.
THEOREM BreakdownIsFair == Spec => []BreakdownCoversTotal
<1>1. Init => BreakdownCoversTotal
  <2> SUFFICES ASSUME Init PROVE \A r \in Requests : ~Summarized(r)
    BY DEF BreakdownCoversTotal
  <2> QED BY DEF Init, Summarized
<1> QED BY <1>1, NextCovered, AlwaysStats, PTL DEF Spec
===============================================================================
