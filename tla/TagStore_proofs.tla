---------------------------- MODULE TagStore_proofs ----------------------------
(***************************************************************************)
(* Proofs about TagStore: agent_tags keeps its primary key, a request that *)
(* commits has replaced the tags of its agent, one that is refused has met *)
(* another that shares its agent or a tag, and a deadlock needs crossed    *)
(* lists.  They rest on three invariants: what a session has of its list,  *)
(* which rows it may still find (those it has loaded, and those of others  *)
(* it has met), and that no two transactions hold rows of one key.         *)
(***************************************************************************)
EXTENDS TagStore, FiniteSetTheorems, SequenceTheorems, WellFoundedInduction, TLAPS

SessionInv ==
    \A r \in Requests :
       /\ IF pc[r] = "idle" THEN appended[r] = Nil ELSE body[r] \in Bodies
       /\ reply[r] # Nil => pc[r] = "done"
       /\ r \notin Running => /\ newTags[r] = {} /\ added[r] = {} /\ removed[r] = {}
                              /\ waiting[r] = Nil
       /\ pc[r] = "create" => /\ todo[r] # <<>> /\ appended[r] = Nil /\ clearing[r] = {}
                              /\ Stored[Head(todo[r])] \notin newTags[r]
       /\ waiting[r] # Nil => /\ pc[r] = "flush" /\ waiting[r].agent = body[r].agent
                              /\ waiting[r].tag \in clearing[r]

\* Sessions that are open at once have met, and who has been met has begun.
MetInv == /\ \A r, q \in Running : r # q => q \in met[r]
          /\ \A r \in Requests : \A q \in met[r] : pc[q] # "idle"

\* The names that have been looked up.
Behind(r) == Len(body[r].tags) - Len(todo[r])
Looked(r) == {Stored[body[r].tags[i]] : i \in 1..Behind(r)}

\* They are linked, or about to be, in the order of the list.
ListInv ==
    \A r \in Running :
       /\ Len(todo[r]) <= Len(body[r].tags)
       /\ \A j \in 1..Len(todo[r]) : todo[r][j] = body[r].tags[Behind(r) + j]
       /\ newTags[r] \subseteq Looked(r)
       /\ appended[r] # Nil => appended[r] \in Looked(r)
       /\ {k.tag : k \in added[r]} \subseteq Looked(r)
       /\ Looked(r) \subseteq {k.tag : k \in added[r]} \cup {appended[r]}

\* A row is that of a request that has committed.  Those of its agent that a
\* session finds it has loaded, and deleted or still to delete, or they are of
\* somebody it has met.
RowInv ==
    /\ \A l \in links : pc[l.by] = "done" /\ body[l.by].agent = l.agent
    /\ \A r \in Running :
          /\ \A l \in links : l.agent = body[r].agent => l \in held[r] \/ l.by \in met[r]
          /\ \A l \in held[r] : pc[l.by] = "done" /\ l.agent = body[r].agent
          /\ \A l \in held[r] \cap links : l \in removed[r] \/ l.tag \in clearing[r]
          /\ waiting[r] # Nil => \A l \in held[r] \cap links :
                SameKey(l, waiting[r]) => l = waiting[r]

\* No two transactions hold a row of one key, and none adds one that is there.
HoldInv ==
    /\ \A r \in Requests :
          /\ removed[r] \subseteq links
          /\ \A l \in removed[r] : l.agent = body[r].agent
          /\ \A k \in added[r] : k.by = r /\ k.agent = body[r].agent
          /\ \A k \in added[r], l \in links \ removed[r] : ~SameKey(k, l)
    /\ \A r, q \in Requests : r # q =>
          /\ removed[r] \cap removed[q] = {}
          /\ \A k \in added[r], l \in added[q] \cup removed[q] : ~SameKey(k, l)

\* A tag that appeared since the SELECT is that of a request that was met.
SeenInv ==
    \A r \in Requests : pc[r] = "create" =>
       LET t == Stored[Head(todo[r])]
       IN  tags[t] # Nil => tags[t] \in met[r] /\ t \in Names(tags[t])

TagInv == /\ TypeOK /\ SessionInv /\ MetInv /\ ListInv /\ RowInv /\ HoldInv /\ SeenInv
          /\ RefusalNeedsOverlap /\ DeadlockNeedsCrossedLists
-------------------------------------------------------------------------------
(* Lists and names *)

\* A bounded set of numbers has a largest.
LEMMA LargestOf ==
    ASSUME NEW n \in Nat, NEW T, T \subseteq 1..n, T # {}
    PROVE  \E x \in T : \A y \in T : y <= x
<1> DEFINE U == {n - x : x \in T}
           R == OpToRel(<, Nat)
<1>1. U \subseteq Nat
  OBVIOUS
<1>2. U # {}
  OBVIOUS
<1>3. IsWellFoundedOn(R, Nat)
  BY NatLessThanWellFounded, Zenon
<1>4. \A a, b \in Nat : a < b => <<a, b>> \in R
  BY DEF OpToRel
<1> HIDE DEF R, U
<1>5. PICK u \in U : \A w \in U : <<w, u>> \notin R
  BY <1>1, <1>2, <1>3, WFMin
<1>6. PICK x \in T : u = n - x
  BY <1>5 DEF U
<1>7. ASSUME NEW y \in T PROVE y <= x
  <2>1. n - y \in U /\ n - x \in U
    BY DEF U
  <2>2. ~(n - y < n - x)
    BY <1>1, <1>4, <1>5, <1>6, <2>1
  <2>3. n \in Nat /\ x \in Nat /\ y \in Nat
    OBVIOUS
  <2> QED BY <2>2, <2>3
<1> QED BY <1>7

LEMMA SessionTypes ==
    ASSUME TypeOK, SessionInv, NEW r \in Running
    PROVE  /\ r \in Requests /\ body[r] \in Bodies /\ body[r].agent \in Agents
           /\ body[r].tags \in Seq(Spellings) /\ Len(body[r].tags) \in Nat
           /\ todo[r] \in Seq(Spellings) /\ Len(todo[r]) \in Nat
           /\ Running \subseteq Requests
<1>1. r \in Requests /\ body[r] \in Bodies
  BY DEF SessionInv, Running
<1> QED BY <1>1, LenProperties, TagAssumption DEF TypeOK, Running

\* The name a request is at.
LEMMA HeadName ==
    ASSUME TypeOK, SessionInv, ListInv, NEW r \in Running, todo[r] # <<>>
    PROVE  /\ Head(todo[r]) \in Spellings /\ Stored[Head(todo[r])] \in Tags
           /\ Behind(r) \in Nat /\ Behind(r) + 1 \in 1..Len(body[r].tags)
           /\ Head(todo[r]) = body[r].tags[Behind(r) + 1]
           /\ Stored[Head(todo[r])] \in Names(r)
           /\ Tail(todo[r]) \in Seq(Spellings) /\ Len(Tail(todo[r])) = Len(todo[r]) - 1
           /\ \A j \in 1..Len(Tail(todo[r])) : Tail(todo[r])[j] = todo[r][j + 1]
<1>1. /\ todo[r] \in Seq(Spellings) /\ body[r].tags \in Seq(Spellings)
      /\ Len(todo[r]) \in Nat /\ Len(body[r].tags) \in Nat
  BY SessionTypes
<1>2. /\ Head(todo[r]) \in Spellings /\ Head(todo[r]) = todo[r][1]
      /\ Len(todo[r]) \in Nat \ {0}
      /\ Tail(todo[r]) \in Seq(Spellings) /\ Len(Tail(todo[r])) = Len(todo[r]) - 1
      /\ \A j \in 1..Len(Tail(todo[r])) : Tail(todo[r])[j] = todo[r][j + 1]
  BY <1>1, HeadTailProperties, EmptySeq
<1>3. Len(todo[r]) <= Len(body[r].tags) /\ \A j \in 1..Len(todo[r]) :
         todo[r][j] = body[r].tags[Behind(r) + j]
  BY DEF ListInv
<1>4. Behind(r) \in Nat /\ Behind(r) + 1 \in 1..Len(body[r].tags)
  <2> DEFINE l == Len(todo[r])
             n == Len(body[r].tags)
  <2>1. l \in Nat \ {0} /\ n \in Nat /\ l <= n
    BY <1>1, <1>2, <1>3
  <2> HIDE DEF l, n
  <2>2. n - l \in Nat /\ n - l + 1 \in 1..n
    BY <2>1
  <2> QED BY <2>2 DEF l, n, Behind
<1>5. Head(todo[r]) = body[r].tags[Behind(r) + 1]
  BY <1>2, <1>3
<1>6. DOMAIN body[r].tags = 1..Len(body[r].tags)
  BY <1>1, LenProperties
<1>7. Stored[Head(todo[r])] \in Names(r)
  BY <1>4, <1>5, <1>6 DEF Names
<1>8. Stored[Head(todo[r])] \in Tags
  BY <1>2, TagAssumption
<1> QED BY <1>2, <1>4, <1>5, <1>7, <1>8

\* What has been looked up is of the list, all of it in the end.
LEMMA LookedAre ==
    ASSUME TypeOK, SessionInv, ListInv, NEW r \in Running
    PROVE  /\ Looked(r) \subseteq Names(r) /\ Looked(r) \subseteq Tags
           /\ todo[r] = <<>> => Looked(r) = Names(r)
<1>1. /\ body[r].tags \in Seq(Spellings) /\ Len(body[r].tags) \in Nat
      /\ todo[r] \in Seq(Spellings) /\ Len(todo[r]) \in Nat
  BY SessionTypes
<1>2. /\ DOMAIN body[r].tags = 1..Len(body[r].tags)
      /\ \A i \in 1..Len(body[r].tags) : body[r].tags[i] \in Spellings
  BY <1>1, LenProperties, ElementOfSeq
<1>3. Len(todo[r]) <= Len(body[r].tags)
  BY DEF ListInv
<1>4. 1..Behind(r) \subseteq 1..Len(body[r].tags)
  <2> DEFINE l == Len(todo[r])
             n == Len(body[r].tags)
  <2>1. l \in Nat /\ n \in Nat /\ l <= n
    BY <1>1, <1>3
  <2> HIDE DEF l, n
  <2>2. 1..(n - l) \subseteq 1..n
    BY <2>1
  <2> QED BY <2>2 DEF l, n, Behind
<1>5. Looked(r) \subseteq Names(r) /\ Looked(r) \subseteq Tags
  BY <1>2, <1>4, TagAssumption DEF Looked, Names
<1>6. ASSUME todo[r] = <<>> PROVE Looked(r) = Names(r)
  <2>1. Behind(r) = Len(body[r].tags)
    BY <1>1, <1>6, EmptySeq DEF Behind
  <2> QED BY <1>2, <2>1 DEF Looked, Names
<1> QED BY <1>5, <1>6

\* One name further down the list.
LEMMA LookFurther ==
    ASSUME TypeOK, SessionInv, ListInv, NEW r \in Running, todo[r] # <<>>,
           body' = body, todo'[r] = Tail(todo[r])
    PROVE  /\ Len(todo'[r]) <= Len(body'[r].tags)
           /\ \A j \in 1..Len(todo'[r]) : todo'[r][j] = body'[r].tags[Behind(r)' + j]
           /\ Looked(r)' = Looked(r) \cup {Stored[Head(todo[r])]}
<1>1. /\ todo[r] \in Seq(Spellings) /\ body[r].tags \in Seq(Spellings)
      /\ Len(todo[r]) \in Nat /\ Len(body[r].tags) \in Nat
  BY SessionTypes
<1>2. /\ Behind(r) \in Nat /\ Behind(r) + 1 \in 1..Len(body[r].tags)
      /\ Head(todo[r]) = body[r].tags[Behind(r) + 1]
      /\ Len(Tail(todo[r])) = Len(todo[r]) - 1
      /\ \A j \in 1..Len(Tail(todo[r])) : Tail(todo[r])[j] = todo[r][j + 1]
  BY HeadName
<1>3. Len(todo[r]) <= Len(body[r].tags) /\ \A j \in 1..Len(todo[r]) :
         todo[r][j] = body[r].tags[Behind(r) + j]
  BY DEF ListInv
<1>4. Behind(r)' = Behind(r) + 1
  <2> DEFINE l == Len(todo[r])
             n == Len(body[r].tags)
             k == Len(todo'[r])
  <2>1. l \in Nat /\ n \in Nat /\ k = l - 1
    BY <1>1, <1>2
  <2>2. Behind(r) = n - l /\ Behind(r)' = n - k
    BY DEF Behind
  <2> HIDE DEF l, n, k
  <2> QED BY <2>1, <2>2
<1>5. Len(todo'[r]) <= Len(body'[r].tags)
  BY <1>1, <1>2, <1>3
<1>6. ASSUME NEW j \in 1..Len(todo'[r])
      PROVE  todo'[r][j] = body'[r].tags[Behind(r)' + j]
  <2>1. j + 1 \in 1..Len(todo[r]) /\ todo'[r][j] = todo[r][j + 1]
    BY <1>1, <1>2, <1>6
  <2>2. todo[r][j + 1] = body[r].tags[Behind(r) + (j + 1)]
    BY <1>3, <2>1
  <2>3. Behind(r) + (j + 1) = Behind(r)' + j
    BY <1>2, <1>4
  <2> QED BY <2>1, <2>2, <2>3
<1>7. Looked(r)' = Looked(r) \cup {Stored[Head(todo[r])]}
  <2>1. \A i : i \in 1..Behind(r)' <=> i \in 1..Behind(r) \/ i = Behind(r) + 1
    BY <1>2, <1>4
  <2>2. Looked(r)' = {Stored[body[r].tags[i]] : i \in 1..Behind(r)'}
    BY DEF Looked
  <2>3. \A t : t \in Looked(r)' <=> t \in Looked(r) \/ t = Stored[Head(todo[r])]
    BY <1>2, <2>1, <2>2 DEF Looked
  <2> QED BY <2>3
<1> QED BY <1>5, <1>6, <1>7

\* A session keeps its place in the list while the list and the rest stay.
LEMMA SameList ==
    ASSUME NEW r, body'[r] = body[r], todo'[r] = todo[r]
    PROVE  Behind(r)' = Behind(r) /\ Looked(r)' = Looked(r)
BY DEF Behind, Looked
-------------------------------------------------------------------------------
(* Waits *)

\* Who waits has met the one it waits for, and shares its agent or a tag.
LEMMA WaitMeets ==
    ASSUME TagInv, NEW r \in Requests, NEW q \in Requests, WaitsFor(r, q)
    PROVE  /\ r \in Running /\ q \in Running /\ q # r /\ q \in met[r]
           /\ \/ body[q].agent = body[r].agent
              \/ pc[r] = "create" /\ Stored[Head(todo[r])] \in newTags[q]
<1> USE DEF TagInv
<1>1. CASE waiting[r] # Nil /\ q \in DeleterOf(r, waiting[r])
  <2>1. q # r /\ waiting[r] \in removed[q]
    BY <1>1 DEF DeleterOf
  <2>2. r \in Running /\ q \in Running /\ waiting[r].agent = body[r].agent
    BY <1>1, <2>1 DEF SessionInv
  <2>3. waiting[r].agent = body[q].agent
    BY <2>1 DEF HoldInv
  <2> QED BY <2>1, <2>2, <2>3 DEF MetInv
<1>2. CASE pc[r] = "create" /\ q \in HoldersOfTag(r, Stored[Head(todo[r])])
  <2>1. q # r /\ Stored[Head(todo[r])] \in newTags[q]
    BY <1>2 DEF HoldersOfTag
  <2>2. r \in Running /\ q \in Running
    BY <1>2, <2>1 DEF SessionInv, Running
  <2> QED BY <1>2, <2>1, <2>2 DEF MetInv
<1>3. CASE pc[r] = "flush" /\ q \in HoldersOfLink(r, appended[r])
  <2>1. q # r
    BY <1>3 DEF HoldersOfLink
  <2>2. PICK l \in added[q] \cup removed[q] : SameKey(l, RowOf(r, appended[r]))
    BY <1>3 DEF HoldersOfLink
  <2>3. l.agent = body[r].agent
    BY <2>2 DEF SameKey, RowOf
  <2>4. l.agent = body[q].agent
    BY <2>2 DEF HoldInv
  <2>5. r \in Running /\ q \in Running
    BY <1>3, <2>2 DEF SessionInv, Running
  <2> QED BY <2>1, <2>3, <2>4, <2>5 DEF MetInv
<1> QED BY <1>1, <1>2, <1>3 DEF WaitsFor

\* The tags a request has created come before the one it is at.
LEMMA CreatedBefore ==
    ASSUME TagInv, NEW q \in Requests, pc[q] = "create", NEW t \in newTags[q],
           NEW rank \in [Tags -> Nat], InOrder(body[q].tags, rank),
           \A u, v \in Tags : rank[u] = rank[v] => u = v
    PROVE  rank[t] < rank[Stored[Head(todo[q])]]
<1> USE DEF TagInv
<1>1. q \in Running /\ todo[q] # <<>> /\ Stored[Head(todo[q])] \notin newTags[q]
  BY DEF Running, SessionInv
<1> DEFINE u == Stored[Head(todo[q])]
           list == body[q].tags
<1>2. /\ u \in Tags /\ Behind(q) \in Nat /\ Behind(q) + 1 \in 1..Len(list)
      /\ Head(todo[q]) = list[Behind(q) + 1]
  BY <1>1, HeadName
<1>3. PICK i \in 1..Behind(q) : t = Stored[list[i]]
  BY <1>1 DEF ListInv, Looked
<1>4. DOMAIN list = 1..Len(list) /\ Len(list) \in Nat
  BY <1>1, SessionTypes, LenProperties
<1>5. i \in DOMAIN list /\ Behind(q) + 1 \in DOMAIN list /\ i < Behind(q) + 1
  BY <1>2, <1>3, <1>4
<1>6. rank[t] <= rank[u]
  BY <1>2, <1>3, <1>5 DEF InOrder
<1>7. t # u /\ t \in Tags
  BY <1>1 DEF TypeOK
<1>8. rank[t] \in Nat /\ rank[u] \in Nat /\ rank[t] # rank[u]
  BY <1>2, <1>7
<1> QED BY <1>6, <1>8

\* What the two properties say of one request.
Shares(r) ==
    \E q \in met[r] : body[q].agent = body[r].agent \/ Names(q) \cap Names(r) # {}

Crossed(r) ==
    LET party == met[r] \cup {r}
    IN  \/ \E p, q \in party : p # q /\ body[p].agent = body[q].agent
        \/ \A rank \in [Tags -> 1..Cardinality(Tags)] :
              (\A t, u \in Tags : rank[t] = rank[u] => t = u)
              => \E q \in party : ~InOrder(body[q].tags, rank)

\* A cycle of waits shares, and has crossed lists: along the waits the rank of
\* the tag a request is at would grow for ever.
LEMMA CycleShares ==
    ASSUME TagInv, NEW r \in Requests, InCycle(r)
    PROVE  r \in Running /\ Shares(r) /\ Crossed(r)
<1> USE DEF TagInv
<1>1. PICK S \in SUBSET Requests :
         r \in S /\ \A p \in S : \E q \in S : WaitsFor(p, q)
  BY DEF InCycle
<1>2. \A p \in S : p \in Running
  BY <1>1, WaitMeets
<1>3. Shares(r)
  <2>1. PICK q \in S : WaitsFor(r, q)
    BY <1>1
  <2>2. /\ q \in met[r] /\ q \in Running
        /\ \/ body[q].agent = body[r].agent
           \/ pc[r] = "create" /\ Stored[Head(todo[r])] \in newTags[q]
    BY <1>1, <2>1, WaitMeets
  <2>3. CASE pc[r] = "create" /\ Stored[Head(todo[r])] \in newTags[q]
    <3>1. todo[r] # <<>> /\ r \in Running
      BY <1>1, <1>2, <2>3 DEF SessionInv
    <3>2. Stored[Head(todo[r])] \in Names(r)
      BY <3>1, HeadName
    <3>3. Stored[Head(todo[r])] \in Looked(q) /\ Looked(q) \subseteq Names(q)
      BY <2>2, <2>3, LookedAre DEF ListInv
    <3> QED BY <2>2, <3>2, <3>3 DEF Shares
  <2> QED BY <2>2, <2>3 DEF Shares
<1>4. Crossed(r)
  <2> DEFINE party == met[r] \cup {r}
             At(p) == Stored[Head(todo[p])]
  <2>1. SUFFICES ASSUME \A p, q \in party : p # q => body[p].agent # body[q].agent,
                        NEW rank \in [Tags -> 1..Cardinality(Tags)],
                        \A t, u \in Tags : rank[t] = rank[u] => t = u,
                        \A q \in party : InOrder(body[q].tags, rank)
                 PROVE  FALSE
    BY DEF Crossed
  <2>2. S \subseteq party
    BY <1>1, <1>2 DEF MetInv
  <2>3. \A p \in S : \E q \in S : pc[p] = "create" /\ At(p) \in newTags[q]
    <3> SUFFICES ASSUME NEW p \in S
                 PROVE  \E q \in S : pc[p] = "create" /\ At(p) \in newTags[q]
      OBVIOUS
    <3>1. PICK q \in S : WaitsFor(p, q)
      BY <1>1
    <3>2. p \in Requests /\ q \in Requests
      BY <1>1
    <3>3. q # p /\ (\/ body[q].agent = body[p].agent
                    \/ pc[p] = "create" /\ Stored[Head(todo[p])] \in newTags[q])
      BY <3>1, <3>2, WaitMeets
    <3>4. p \in party /\ q \in party
      BY <2>2
    <3>5. body[q].agent # body[p].agent
      BY <2>1, <3>3, <3>4
    <3> QED BY <3>3, <3>5
  <2>4. Cardinality(Tags) \in Nat
    BY FS_CardinalityType, TagAssumption
  <2>5. rank \in [Tags -> Nat]
    BY <2>4
  <2>6. \A p \in S : At(p) \in Tags
    BY <1>2, <2>3, HeadName DEF SessionInv
  <2> DEFINE T == {rank[At(p)] : p \in S}
  <2>7. T \subseteq 1..Cardinality(Tags)
    BY <2>6
  <2>8. T # {}
    BY <1>1
  <2> HIDE DEF T
  <2>9. PICK x \in T : \A y \in T : y <= x
    BY <2>4, <2>7, <2>8, LargestOf
  <2>10. PICK p \in S : x = rank[At(p)]
    BY <2>9 DEF T
  <2>11. PICK q \in S : At(p) \in newTags[q]
    BY <2>3
  <2>12. pc[q] = "create"
    BY <2>3
  <2>13. rank[At(p)] < rank[At(q)]
    <3>1. InOrder(body[q].tags, rank)
      BY <2>1, <2>2
    <3> QED BY <2>1, <2>5, <2>11, <2>12, <3>1, CreatedBefore
  <2>14. rank[At(q)] \in T
    BY DEF T
  <2>15. rank[At(q)] <= rank[At(p)] /\ rank[At(q)] \in Nat /\ rank[At(p)] \in Nat
    BY <2>5, <2>6, <2>9, <2>10, <2>14
  <2> QED BY <2>13, <2>15
<1> QED BY <1>1, <1>2, <1>3, <1>4

\* Nothing changes for a request that has been refused.
LEMMA RefusedStays ==
    ASSUME TypeOK, MetInv, NEW r \in Requests, pc[r] # "idle", met'[r] = met[r],
           \A q \in Requests : pc[q] # "idle" => body'[q] = body[q]
    PROVE  (Shares(r) => Shares(r)') /\ (Crossed(r) => Crossed(r)')
<1>1. \A q \in met[r] \cup {r} : body'[q] = body[q]
  BY DEF MetInv, TypeOK
<1>2. \A q \in met[r] \cup {r} : Names(q)' = Names(q)
  BY <1>1 DEF Names
<1>3. Shares(r) => Shares(r)'
  BY <1>1, <1>2 DEF Shares
<1>4. \A list, rank : InOrder(list, rank)' <=> InOrder(list, rank)
  BY DEF InOrder
<1>5. Crossed(r) => Crossed(r)'
  BY <1>1, <1>4 DEF Crossed
<1> QED BY <1>3, <1>5

LEMMA RefusalsStay ==
    ASSUME TagInv, reply' = reply,
           \A q \in Requests : pc[q] # "idle" => body'[q] = body[q],
           \A q \in Requests : pc[q] = "done" => met'[q] = met[q]
    PROVE  RefusalNeedsOverlap' /\ DeadlockNeedsCrossedLists'
<1> USE DEF TagInv
<1>1. ASSUME NEW r \in Requests, reply[r] \in {"integrity", "deadlock"}
      PROVE  pc[r] = "done"
  BY <1>1, TagAssumption DEF SessionInv
<1>2. ASSUME NEW r \in Requests, reply[r] \in {"integrity", "deadlock"}
      PROVE  Shares(r)'
  <2>1. Shares(r)
    BY <1>2 DEF RefusalNeedsOverlap, Shares
  <2> QED BY <1>1, <1>2, <2>1, RefusedStays
<1>3. ASSUME NEW r \in Requests, reply[r] = "deadlock"
      PROVE  Crossed(r)'
  <2>1. Crossed(r)
    BY <1>3 DEF DeadlockNeedsCrossedLists, Crossed
  <2> QED BY <1>1, <1>3, <2>1, RefusedStays
<1> QED BY <1>2, <1>3 DEF RefusalNeedsOverlap, DeadlockNeedsCrossedLists, Shares, Crossed
-------------------------------------------------------------------------------
(* The steps *)

LEMMA InitTagInv == Init => TagInv
<1> SUFFICES ASSUME Init PROVE TagInv
  OBVIOUS
<1> USE DEF Init
<1>1. TypeOK
  BY EmptySeq, Zenon DEF TypeOK
<1>2. Running = {}
  BY DEF Running
<1>3. SessionInv
  BY DEF SessionInv
<1>4. MetInv /\ ListInv /\ RowInv
  BY <1>2 DEF MetInv, ListInv, RowInv
<1>5. HoldInv /\ SeenInv
  BY DEF HoldInv, SeenInv
<1>6. RefusalNeedsOverlap /\ DeadlockNeedsCrossedLists
  BY TagAssumption DEF RefusalNeedsOverlap, DeadlockNeedsCrossedLists
<1> QED BY <1>1, <1>3, <1>4, <1>5, <1>6 DEF TagInv

\* A session that does nothing keeps its place in the list.
LEMMA ListStays ==
    ASSUME ListInv,
           \A q \in Running' :
              /\ q \in Running /\ body'[q] = body[q] /\ todo'[q] = todo[q]
              /\ newTags'[q] = newTags[q] /\ appended'[q] = appended[q] /\ added'[q] = added[q]
    PROVE  ListInv'
<1>1. ASSUME NEW q \in Running'
      PROVE  /\ q \in Running /\ body'[q] = body[q] /\ todo'[q] = todo[q]
             /\ newTags'[q] = newTags[q] /\ appended'[q] = appended[q] /\ added'[q] = added[q]
             /\ Behind(q)' = Behind(q) /\ Looked(q)' = Looked(q)
  BY <1>1, SameList
<1> QED BY <1>1 DEF ListInv

\* A session that begins has met all that run, and they it.
LEMMA LoadStep == ASSUME TagInv, NEW r \in Requests, Load(r) PROVE TagInv'
<1> USE DEF TagInv
<1>1. PICK b \in Bodies :
         /\ body' = [body EXCEPT ![r] = b]
         /\ todo' = [todo EXCEPT ![r] = b.tags]
         /\ held' = [held EXCEPT ![r] = {l \in links : l.agent = b.agent}]
         /\ clearing' = [clearing EXCEPT ![r] = {l.tag : l \in {k \in links : k.agent = b.agent}}]
  BY DEF Load, InListOrder, ClearLinks
<1>2. /\ pc[r] = "idle" /\ pc' = [pc EXCEPT ![r] = "flush"]
      /\ met' = [q \in Requests |-> IF q = r THEN Running
                                    ELSE IF q \in Running THEN met[q] \cup {r}
                                    ELSE met[q]]
      /\ tags' = tags /\ links' = links /\ waiting' = waiting /\ appended' = appended
      /\ reply' = reply /\ newTags' = newTags /\ added' = added /\ removed' = removed
  BY DEF Load, store, private
<1>3. /\ r \notin Running /\ Running' = Running \cup {r} /\ Running \subseteq Requests
  BY <1>2 DEF Running, TypeOK
<1>4. /\ newTags[r] = {} /\ added[r] = {} /\ removed[r] = {} /\ waiting[r] = Nil
      /\ appended[r] = Nil /\ reply[r] = Nil
  BY <1>2, <1>3 DEF SessionInv
<1>5. /\ b.tags \in Seq(Spellings) /\ b.agent \in Agents /\ Len(b.tags) \in Nat
  BY LenProperties, TagAssumption
<1>6. /\ body'[r] = b /\ todo'[r] = b.tags /\ pc'[r] = "flush" /\ met'[r] = Running
      /\ held'[r] = {l \in links : l.agent = b.agent}
      /\ clearing'[r] = {l.tag : l \in {k \in links : k.agent = b.agent}}
      /\ \A q \in Requests : q # r =>
            /\ body'[q] = body[q] /\ todo'[q] = todo[q] /\ held'[q] = held[q]
            /\ clearing'[q] = clearing[q] /\ pc'[q] = pc[q]
            /\ met'[q] = IF q \in Running THEN met[q] \cup {r} ELSE met[q]
  BY <1>1, <1>2 DEF TypeOK
<1>7. TypeOK'
  <2>1. {l \in links : l.agent = b.agent} \subseteq Link
        /\ {l.tag : l \in {k \in links : k.agent = b.agent}} \subseteq Tags
    BY DEF TypeOK, Link
  <2>2. /\ pc' \in [Requests -> {"idle", "flush", "create", "done"}]
        /\ body' \in [Requests -> Bodies \cup {Nil}]
        /\ todo' \in [Requests -> Seq(Spellings)]
    BY <1>1, <1>2, <1>5 DEF TypeOK
  <2>3. /\ held' \in [Requests -> SUBSET Link] /\ clearing' \in [Requests -> SUBSET Tags]
    BY <1>1, <2>1 DEF TypeOK
  <2>4. met' \in [Requests -> SUBSET Requests]
    BY <1>2, <1>3 DEF TypeOK
  <2> QED BY <1>2, <2>2, <2>3, <2>4 DEF TypeOK
<1>8. SessionInv'
  BY <1>2, <1>3, <1>4, <1>6 DEF SessionInv
<1>9. MetInv'
  BY <1>2, <1>3, <1>6 DEF MetInv, Running
<1>10. ListInv'
  <2>1. ASSUME NEW q \in Running', q # r
        PROVE  q \in Running /\ Behind(q)' = Behind(q) /\ Looked(q)' = Looked(q)
    BY <1>3, <1>6, <2>1, SameList
  <2>2. Behind(r)' = 0 /\ Looked(r)' = {}
    <3>1. Behind(r)' = 0
      BY <1>5, <1>6 DEF Behind
    <3>2. 1..0 = {}
      OBVIOUS
    <3> QED BY <3>1, <3>2 DEF Looked
  <2> QED BY <1>2, <1>3, <1>4, <1>5, <1>6, <2>1, <2>2 DEF ListInv
<1>11. RowInv'
  <2>1. \A l \in links : l.by \in Requests /\ l.by # r
    BY <1>2 DEF RowInv, TypeOK, Link
  <2>2. \A l \in links' : pc'[l.by] = "done" /\ body'[l.by].agent = l.agent
    BY <1>2, <1>6, <2>1 DEF RowInv
  <2>3. ASSUME NEW q \in Running', q # r
        PROVE  /\ \A l \in links' : l.agent = body'[q].agent => l \in held'[q] \/ l.by \in met'[q]
               /\ \A l \in held'[q] : pc'[l.by] = "done" /\ l.agent = body'[q].agent
               /\ \A l \in held'[q] \cap links' : l \in removed'[q] \/ l.tag \in clearing'[q]
               /\ waiting'[q] # Nil => \A l \in held'[q] \cap links' :
                     SameKey(l, waiting[q]) => l = waiting[q]
    <3>1. q \in Running /\ q \in Requests
      BY <1>3, <2>3
    <3>2. \A l \in held[q] : l.by \in Requests /\ l.by # r
      BY <1>2, <3>1 DEF RowInv, TypeOK, Link
    <3> QED BY <1>2, <1>6, <2>3, <3>1, <3>2 DEF RowInv
  <2>4. /\ \A l \in links' : l.agent = body'[r].agent => l \in held'[r] \/ l.by \in met'[r]
        /\ \A l \in held'[r] : pc'[l.by] = "done" /\ l.agent = body'[r].agent
        /\ \A l \in held'[r] \cap links' : l \in removed'[r] \/ l.tag \in clearing'[r]
        /\ waiting'[r] = Nil
    BY <1>2, <1>4, <1>6, <2>2
  <2> QED BY <1>2, <2>2, <2>3, <2>4 DEF RowInv, SameKey
<1>12. HoldInv'
  BY <1>2, <1>4, <1>6 DEF HoldInv, SameKey
<1>13. SeenInv'
  <2>1. ASSUME NEW q \in Requests, pc'[q] = "create",
               NEW t, t = Stored[Head(todo[q])], tags[t] # Nil
        PROVE  tags[t] \in met'[q] /\ body'[tags[t]] = body[tags[t]] /\ t \in Names(tags[t])
    <3>1. q # r /\ q \in Running /\ pc[q] = "create"
      BY <1>6, <2>1 DEF Running
    <3>2. tags[t] \in met[q] /\ t \in Names(tags[t])
      BY <2>1, <3>1 DEF SeenInv
    <3>3. tags[t] \in Requests /\ tags[t] # r
      BY <1>2, <3>1, <3>2 DEF MetInv, TypeOK
    <3> QED BY <1>6, <3>1, <3>2, <3>3
  <2>2. ASSUME NEW q \in Requests, pc'[q] = "create"
        PROVE  Stored[Head(todo'[q])] = Stored[Head(todo[q])]
    BY <1>6, <2>2
  <2>3. ASSUME NEW q \in Requests, pc'[q] = "create",
               NEW t, t = Stored[Head(todo'[q])], tags'[t] # Nil
        PROVE  /\ tags'[t] \in met'[q]
               /\ t \in {Stored[body'[tags'[t]].tags[i]] : i \in DOMAIN body'[tags'[t]].tags}
    <3>1. t = Stored[Head(todo[q])] /\ tags' = tags
      BY <1>2, <2>2, <2>3
    <3>2. tags[t] \in met'[q] /\ body'[tags[t]] = body[tags[t]] /\ t \in Names(tags[t])
      BY <2>1, <2>3, <3>1
    <3> QED BY <3>1, <3>2 DEF Names
  <2> QED BY <2>3, Zenon DEF SeenInv, Names
<1>14. RefusalNeedsOverlap' /\ DeadlockNeedsCrossedLists'
  <2>1. \A q \in Requests : pc[q] # "idle" => body'[q] = body[q]
    BY <1>2, <1>6
  <2>2. \A q \in Requests : pc[q] = "done" => met'[q] = met[q]
    BY <1>2, <1>6 DEF Running
  <2> QED BY <1>2, <2>1, <2>2, RefusalsStay
<1> QED BY <1>7, <1>8, <1>9, <1>10, <1>11, <1>12, <1>13, <1>14

\* Rows that nobody else is deleting may be deleted.
LEMMA MoreRemoved ==
    ASSUME TypeOK, HoldInv, NEW r \in Requests, NEW R \in SUBSET links,
           \A l \in R : DeleterOf(r, l) = {} /\ l.agent = body[r].agent,
           removed' = [removed EXCEPT ![r] = @ \cup R],
           links' = links, added' = added, body' = body
    PROVE  HoldInv'
<1>1. /\ removed'[r] = removed[r] \cup R
      /\ \A q \in Requests : q # r => removed'[q] = removed[q]
  BY DEF TypeOK
<1>2. \A q \in Requests : q # r => \A l \in R : l \notin removed[q]
  BY DEF DeleterOf
<1>3. ASSUME NEW q \in Requests
      PROVE  /\ removed'[q] \subseteq links'
             /\ \A l \in removed'[q] : l.agent = body'[q].agent
             /\ \A k \in added'[q] : k.by = q /\ k.agent = body'[q].agent
             /\ \A k \in added'[q], l \in links' \ removed'[q] : ~SameKey(k, l)
  BY <1>1 DEF HoldInv
<1>4. ASSUME NEW p \in Requests, NEW q \in Requests, p # q
      PROVE  removed'[p] \cap removed'[q] = {}
  BY <1>1, <1>2, <1>4 DEF HoldInv
<1>5. ASSUME NEW p \in Requests, NEW q \in Requests, p # q,
             NEW k \in added[p], NEW l \in added[q] \cup removed'[q]
      PROVE  ~SameKey(k, l)
  <2>1. CASE l \in added[q] \cup removed[q]
    BY <1>5, <2>1 DEF HoldInv
  <2>2. CASE q = r /\ l \in R
    <3>1. l \in links \ removed[p]
      BY <1>2, <1>5, <2>2
    <3> QED BY <3>1 DEF HoldInv
  <2> QED BY <1>1, <2>1, <2>2
<1> QED BY <1>3, <1>4, <1>5 DEF HoldInv, SameKey

LEMMA DeleteLinkStep ==
    ASSUME TagInv, NEW r \in Requests, NEW t \in Tags, DeleteLink(r, t) PROVE TagInv'
<1> USE DEF TagInv
<1> DEFINE rows == {l \in links : SameKey(l, RowOf(r, t))}
<1>1. /\ pc[r] = "flush" /\ t \in clearing[r] /\ waiting[r] = Nil /\ r \in Running
      /\ tags' = tags /\ links' = links /\ pc' = pc /\ body' = body /\ held' = held
      /\ todo' = todo /\ appended' = appended /\ reply' = reply /\ newTags' = newTags
      /\ added' = added /\ met' = met
  BY DEF DeleteLink, store, Running
<1>2. \A l \in rows : l.agent = body[r].agent /\ l.tag = t /\ l \in Link
  BY DEF SameKey, RowOf, TypeOK
<1>3. Running' = Running
  BY <1>1 DEF Running
<1>4. MetInv' /\ ListInv' /\ SeenInv' /\ RefusalNeedsOverlap' /\ DeadlockNeedsCrossedLists'
  <2>1. MetInv'
    BY <1>1, <1>3 DEF MetInv
  <2>2. ListInv'
    BY <1>1, <1>3, ListStays
  <2>3. SeenInv'
    BY <1>1 DEF SeenInv, Names
  <2> QED BY <1>1, <2>1, <2>2, <2>3, RefusalsStay
<1>5. CASE /\ \A l \in rows : DeleterOf(r, l) = {}
           /\ removed' = [removed EXCEPT ![r] = @ \cup rows]
           /\ clearing' = [clearing EXCEPT ![r] = @ \ {t}]
           /\ waiting' = waiting
  <2>1. /\ removed'[r] = removed[r] \cup rows /\ clearing'[r] = clearing[r] \ {t}
        /\ \A q \in Requests : q # r => removed'[q] = removed[q] /\ clearing'[q] = clearing[q]
    BY <1>5 DEF TypeOK
  <2>2. TypeOK'
    <3>1. removed' \in [Requests -> SUBSET Link]
      BY <1>2, <1>5 DEF TypeOK
    <3>2. clearing' \in [Requests -> SUBSET Tags]
      BY <1>5 DEF TypeOK
    <3> QED BY <1>1, <1>5, <3>1, <3>2 DEF TypeOK
  <2>3. SessionInv'
    BY <1>1, <1>3, <1>5, <2>1 DEF SessionInv
  <2>4. RowInv'
    <3>1. \A l \in held[r] \cap links : l \in removed'[r] \/ l.tag \in clearing'[r]
      BY <1>1, <2>1 DEF RowInv, SameKey, RowOf
    <3>2. \A q \in Running : \A l \in held[q] \cap links :
             l \in removed'[q] \/ l.tag \in clearing'[q]
      BY <2>1, <3>1 DEF RowInv, Running
    <3> QED BY <1>1, <1>3, <1>5, <3>2 DEF RowInv, SameKey
  <2>5. HoldInv'
    BY <1>1, <1>2, <1>5, MoreRemoved
  <2> QED BY <1>4, <2>2, <2>3, <2>4, <2>5
<1>6. ASSUME NEW w \in rows, waiting' = [waiting EXCEPT ![r] = w],
             removed' = removed, clearing' = clearing
      PROVE  TagInv'
  <2>1. /\ waiting'[r] = w /\ \A q \in Requests : q # r => waiting'[q] = waiting[q]
    BY <1>6 DEF TypeOK
  <2>2. TypeOK'
    <3>1. waiting' \in [Requests -> Link \cup {Nil}]
      BY <1>2, <1>6 DEF TypeOK
    <3> QED BY <1>1, <1>6, <3>1 DEF TypeOK
  <2>3. SessionInv'
    BY <1>1, <1>2, <1>3, <1>6, <2>1 DEF SessionInv
  <2>4. RowInv'
    <3>1. \A l \in links : SameKey(l, w) => l = w
      BY DEF TypeOK, SameKey
    <3>2. \A q \in Running : waiting'[q] # Nil =>
             \A l \in held[q] \cap links : SameKey(l, waiting'[q]) => l = waiting'[q]
      BY <2>1, <3>1 DEF RowInv, Running
    <3> QED BY <1>1, <1>3, <1>6, <3>2 DEF RowInv, SameKey
  <2>5. HoldInv'
    BY <1>1, <1>6 DEF HoldInv, SameKey
  <2> QED BY <1>4, <2>2, <2>3, <2>4, <2>5
<1> QED BY <1>5, <1>6 DEF DeleteLink

LEMMA ResumeDeleteStep ==
    ASSUME TagInv, NEW r \in Requests, ResumeDelete(r) PROVE TagInv'
<1> USE DEF TagInv
<1> DEFINE w == waiting[r]
           R == {w} \cap links
<1>1. /\ w # Nil /\ DeleterOf(r, w) = {}
      /\ removed' = [removed EXCEPT ![r] = @ \cup R]
      /\ clearing' = [clearing EXCEPT ![r] = @ \ {w.tag}]
      /\ waiting' = [waiting EXCEPT ![r] = Nil]
      /\ tags' = tags /\ links' = links /\ pc' = pc /\ body' = body /\ held' = held
      /\ todo' = todo /\ appended' = appended /\ reply' = reply /\ newTags' = newTags
      /\ added' = added /\ met' = met
  BY DEF ResumeDelete, store
<1>2. pc[r] = "flush" /\ r \in Running /\ w.agent = body[r].agent
  BY <1>1 DEF SessionInv, Running
<1>3. Running' = Running
  BY <1>1 DEF Running
<1>4. /\ removed'[r] = removed[r] \cup R /\ clearing'[r] = clearing[r] \ {w.tag}
      /\ waiting'[r] = Nil
      /\ \A q \in Requests : q # r => /\ removed'[q] = removed[q]
                                      /\ clearing'[q] = clearing[q]
                                      /\ waiting'[q] = waiting[q]
  BY <1>1 DEF TypeOK
<1>5. TypeOK'
  <2>1. R \subseteq Link
    BY DEF TypeOK
  <2>2. removed' \in [Requests -> SUBSET Link]
    BY <1>1, <2>1 DEF TypeOK
  <2>3. clearing' \in [Requests -> SUBSET Tags] /\ waiting' \in [Requests -> Link \cup {Nil}]
    BY <1>1 DEF TypeOK
  <2> QED BY <1>1, <2>2, <2>3 DEF TypeOK
<1>6. SessionInv'
  BY <1>1, <1>2, <1>3, <1>4 DEF SessionInv
<1>7. MetInv'
  BY <1>1, <1>3 DEF MetInv
<1>8. ListInv'
  BY <1>1, <1>3, ListStays
<1>9. RowInv'
  <2>1. \A l \in held[r] \cap links : l \in removed'[r] \/ l.tag \in clearing'[r]
    <3> SUFFICES ASSUME NEW l \in held[r] \cap links, l \notin removed[r], l.tag = w.tag
                 PROVE  l \in R
      BY <1>2, <1>4 DEF RowInv
    <3>1. SameKey(l, w)
      BY <1>2 DEF RowInv, SameKey
    <3> QED BY <1>1, <1>2, <3>1 DEF RowInv
  <2>2. \A q \in Running : \A l \in held[q] \cap links :
           l \in removed'[q] \/ l.tag \in clearing'[q]
    BY <1>4, <2>1 DEF RowInv, Running
  <2>3. \A q \in Running : waiting'[q] # Nil =>
           \A l \in held[q] \cap links : SameKey(l, waiting'[q]) => l = waiting'[q]
    BY <1>4 DEF RowInv, Running
  <2> QED BY <1>1, <1>3, <2>2, <2>3 DEF RowInv, SameKey
<1>10. HoldInv'
  <2>1. \A l \in R : DeleterOf(r, l) = {} /\ l.agent = body[r].agent
    BY <1>1, <1>2
  <2> HIDE DEF R
  <2>2. R \in SUBSET links
    BY DEF R
  <2> QED BY <1>1, <2>1, <2>2, MoreRemoved
<1>11. SeenInv'
  BY <1>1 DEF SeenInv, Names
<1> QED BY <1>1, <1>5, <1>6, <1>7, <1>8, <1>9, <1>10, <1>11, RefusalsStay

\* What the end of a session leaves of it, and of the others.
LEMMA EndedSession ==
    ASSUME TagInv, NEW r \in Running, NEW code \in {"200", "integrity", "deadlock", "failed"},
           End(r, code)
    PROVE  /\ r \in Requests /\ pc'[r] = "done" /\ reply'[r] = code /\ waiting'[r] = Nil
           /\ newTags'[r] = {} /\ added'[r] = {} /\ removed'[r] = {}
           /\ \A q \in Requests : q # r =>
                 /\ pc'[q] = pc[q] /\ reply'[q] = reply[q] /\ waiting'[q] = waiting[q]
                 /\ newTags'[q] = newTags[q] /\ added'[q] = added[q] /\ removed'[q] = removed[q]
           /\ body' = body /\ held' = held /\ clearing' = clearing /\ todo' = todo
           /\ appended' = appended /\ met' = met
           /\ Running' = Running \ {r}
<1> USE DEF TagInv
<1>1. r \in Requests
  BY DEF Running
<1>2. /\ pc' = [pc EXCEPT ![r] = "done"] /\ reply' = [reply EXCEPT ![r] = code]
      /\ newTags' = [newTags EXCEPT ![r] = {}] /\ added' = [added EXCEPT ![r] = {}]
      /\ removed' = [removed EXCEPT ![r] = {}] /\ waiting' = [waiting EXCEPT ![r] = Nil]
      /\ body' = body /\ held' = held /\ clearing' = clearing /\ todo' = todo
      /\ appended' = appended /\ met' = met
  BY DEF End
<1>3. pc'[r] = "done" /\ \A q \in Requests : q # r => pc'[q] = pc[q]
  BY <1>1, <1>2 DEF TypeOK
<1>4. Running' = Running \ {r}
  BY <1>1, <1>3 DEF Running
<1>5. /\ reply'[r] = code /\ waiting'[r] = Nil /\ newTags'[r] = {}
      /\ \A q \in Requests : q # r => /\ reply'[q] = reply[q] /\ waiting'[q] = waiting[q]
                                      /\ newTags'[q] = newTags[q]
  BY <1>1, <1>2 DEF TypeOK
<1>6. /\ added'[r] = {} /\ removed'[r] = {}
      /\ \A q \in Requests : q # r => added'[q] = added[q] /\ removed'[q] = removed[q]
  BY <1>1, <1>2 DEF TypeOK
<1> QED BY <1>1, <1>2, <1>3, <1>4, <1>5, <1>6

\* The end of a session keeps what does not speak of the store.
LEMMA EndKeeps ==
    ASSUME TagInv, NEW r \in Running, NEW code \in {"200", "integrity", "deadlock", "failed"},
           End(r, code),
           code \in {"integrity", "deadlock"} => Shares(r),
           code = "deadlock" => Crossed(r)
    PROVE  /\ SessionInv' /\ MetInv' /\ ListInv'
           /\ RefusalNeedsOverlap' /\ DeadlockNeedsCrossedLists'
<1> USE DEF TagInv
<1>1. /\ r \in Requests /\ pc'[r] = "done" /\ reply'[r] = code /\ waiting'[r] = Nil
      /\ newTags'[r] = {} /\ added'[r] = {} /\ removed'[r] = {}
      /\ \A q \in Requests : q # r =>
            /\ pc'[q] = pc[q] /\ reply'[q] = reply[q] /\ waiting'[q] = waiting[q]
            /\ newTags'[q] = newTags[q] /\ added'[q] = added[q] /\ removed'[q] = removed[q]
      /\ body' = body /\ held' = held /\ clearing' = clearing /\ todo' = todo
      /\ appended' = appended /\ met' = met
      /\ Running' = Running \ {r}
  BY EndedSession
<1>2. pc[r] \in {"flush", "create"} /\ body[r] \in Bodies
  BY <1>1 DEF Running, SessionInv
<1>3. SessionInv'
  BY <1>1, <1>2 DEF SessionInv
<1>4. MetInv'
  BY <1>1 DEF MetInv, TypeOK
<1>5. ListInv'
  BY <1>1, ListStays DEF Running
<1>6. ASSUME NEW q \in Requests, reply'[q] \in {"integrity", "deadlock"}
      PROVE  Shares(q)'
  <2>1. pc[q] # "idle" /\ Shares(q)
    <3>1. CASE q = r
      BY <1>1, <1>2, <1>6, <3>1
    <3>2. CASE q # r
      <4>1. reply[q] \in {"integrity", "deadlock"}
        BY <1>1, <1>6, <3>2
      <4> QED BY <4>1, TagAssumption DEF RefusalNeedsOverlap, Shares, SessionInv
    <3> QED BY <3>1, <3>2
  <2> QED BY <1>1, <2>1, RefusedStays
<1>7. ASSUME NEW q \in Requests, reply'[q] = "deadlock"
      PROVE  Crossed(q)'
  <2>1. pc[q] # "idle" /\ Crossed(q)
    <3>1. CASE q = r
      BY <1>1, <1>2, <1>7, <3>1
    <3>2. CASE q # r
      <4>1. reply[q] = "deadlock"
        BY <1>1, <1>7, <3>2
      <4> QED BY <4>1, TagAssumption DEF DeadlockNeedsCrossedLists, Crossed, SessionInv
    <3> QED BY <3>1, <3>2
  <2> QED BY <1>1, <2>1, RefusedStays
<1> QED BY <1>3, <1>4, <1>5, <1>6, <1>7
        DEF RefusalNeedsOverlap, DeadlockNeedsCrossedLists, Shares, Crossed

LEMMA EndTypes ==
    ASSUME TypeOK, NEW r \in Running, NEW code \in {"200", "integrity", "deadlock", "failed"},
           End(r, code),
           tags' \in [Tags -> Requests \cup {Nil}], links' \subseteq Link,
           \A k, l \in links' : k.agent = l.agent /\ k.tag = l.tag => k = l
    PROVE  TypeOK'
<1>1. /\ pc' = [pc EXCEPT ![r] = "done"] /\ reply' = [reply EXCEPT ![r] = code]
      /\ newTags' = [newTags EXCEPT ![r] = {}] /\ added' = [added EXCEPT ![r] = {}]
      /\ removed' = [removed EXCEPT ![r] = {}] /\ waiting' = [waiting EXCEPT ![r] = Nil]
      /\ body' = body /\ held' = held /\ clearing' = clearing /\ todo' = todo
      /\ appended' = appended /\ met' = met
  BY DEF End
<1>2. /\ pc' \in [Requests -> {"idle", "flush", "create", "done"}]
      /\ reply' \in [Requests -> {"200", "integrity", "deadlock", "failed", Nil}]
  BY <1>1 DEF TypeOK
<1>3. /\ newTags' \in [Requests -> SUBSET Tags] /\ waiting' \in [Requests -> Link \cup {Nil}]
  BY <1>1 DEF TypeOK
<1>4. /\ added' \in [Requests -> SUBSET Link] /\ removed' \in [Requests -> SUBSET Link]
  BY <1>1 DEF TypeOK
<1> QED BY <1>1, <1>2, <1>3, <1>4 DEF TypeOK

\* What a request in CreateTag sees stays while the names and the sessions do.
LEMMA SeenStays ==
    ASSUME SeenInv, tags' = tags, body' = body, met' = met,
           \A q \in Requests : pc'[q] = "create" =>
              /\ todo'[q] = todo[q]
              /\ pc[q] = "create" \/ tags[Stored[Head(todo[q])]] = Nil
    PROVE  SeenInv'
<1>1. ASSUME NEW q \in Requests, pc'[q] = "create",
             NEW t, t = Stored[Head(todo'[q])], tags'[t] # Nil
      PROVE  /\ tags'[t] \in met'[q]
             /\ t \in {Stored[body'[tags'[t]].tags[i]] : i \in DOMAIN body'[tags'[t]].tags}
  <2>1. t = Stored[Head(todo[q])] /\ tags[t] # Nil /\ pc[q] = "create"
    BY <1>1
  <2>2. tags[t] \in met[q] /\ t \in Names(tags[t])
    BY <2>1 DEF SeenInv
  <2> QED BY <2>2 DEF Names
<1> QED BY ONLY <1>1, Zenon DEF SeenInv, Names

\* A session that ends with nothing committed.
LEMMA RollbackStep ==
    ASSUME TagInv, NEW r \in Running, NEW code \in {"integrity", "deadlock", "failed"},
           End(r, code), UNCHANGED store,
           code \in {"integrity", "deadlock"} => Shares(r),
           code = "deadlock" => Crossed(r)
    PROVE  TagInv'
<1> USE DEF TagInv
<1>1. /\ r \in Requests /\ pc'[r] = "done" /\ reply'[r] = code /\ waiting'[r] = Nil
      /\ newTags'[r] = {} /\ added'[r] = {} /\ removed'[r] = {}
      /\ \A q \in Requests : q # r =>
            /\ pc'[q] = pc[q] /\ reply'[q] = reply[q] /\ waiting'[q] = waiting[q]
            /\ newTags'[q] = newTags[q] /\ added'[q] = added[q] /\ removed'[q] = removed[q]
      /\ body' = body /\ held' = held /\ clearing' = clearing /\ todo' = todo
      /\ appended' = appended /\ met' = met
      /\ Running' = Running \ {r}
  BY EndedSession
<1>2. tags' = tags /\ links' = links
  BY DEF store
<1>3. TypeOK'
  BY <1>2, EndTypes DEF TypeOK
<1>4. \A x \in Requests : pc[x] = "done" => pc'[x] = "done"
  BY <1>1
<1>5. RowInv'
  <2>1. \A l \in links' : pc'[l.by] = "done" /\ body'[l.by].agent = l.agent
    BY <1>1, <1>2, <1>4 DEF RowInv, TypeOK, Link
  <2>2. \A q \in Running' : \A l \in held'[q] : pc'[l.by] = "done" /\ l.agent = body'[q].agent
    BY <1>1, <1>4 DEF RowInv, TypeOK, Link, Running
  <2>3. ASSUME NEW q \in Running'
        PROVE  /\ q \in Running /\ removed'[q] = removed[q] /\ waiting'[q] = waiting[q]
    BY <1>1 DEF Running
  <2> QED BY <1>1, <1>2, <2>1, <2>2, <2>3 DEF RowInv, SameKey
<1>6. HoldInv'
  BY <1>1, <1>2 DEF HoldInv, SameKey
<1>7. SeenInv'
  BY <1>1, <1>2, SeenStays
<1> QED BY <1>3, <1>5, <1>6, <1>7, EndKeeps

LEMMA InsertLinkStep ==
    ASSUME TagInv, NEW r \in Requests, InsertLink(r) PROVE TagInv'
<1> USE DEF TagInv
<1> DEFINE t == appended[r]
           row == RowOf(r, t)
<1>1. /\ pc[r] = "flush" /\ clearing[r] = {} /\ t # Nil /\ r \in Running
      /\ HoldersOfLink(r, t) = {} /\ tags' = tags /\ links' = links
  BY DEF InsertLink, store, Running
<1>2. t \in Tags /\ row \in Link
  BY <1>1, SessionTypes DEF TypeOK, RowOf, Link
<1>3. row.agent = body[r].agent /\ row.tag = t /\ row.by = r
  BY DEF RowOf
<1>4. CASE (\E l \in links \ removed[r] : SameKey(l, row)) /\ End(r, "integrity")
  <2>1. PICK l \in links \ removed[r] : SameKey(l, row)
    BY <1>4
  <2>2. l.agent = body[r].agent
    BY <1>3, <2>1 DEF SameKey
  <2>3. l.by \in met[r] /\ body[l.by].agent = body[r].agent
    BY <1>1, <2>1, <2>2 DEF RowInv
  <2>4. Shares(r)
    BY <2>3 DEF Shares
  <2> QED BY <1>1, <1>4, <2>4, RollbackStep DEF store
<1>5. CASE /\ \A l \in links \ removed[r] : ~SameKey(l, row)
           /\ added' = [added EXCEPT ![r] = @ \cup {row}]
           /\ appended' = [appended EXCEPT ![r] = Nil]
           /\ UNCHANGED <<pc, body, held, clearing, waiting, todo, reply,
                          newTags, removed, met>>
  <2>1. /\ pc' = pc /\ body' = body /\ held' = held /\ clearing' = clearing
        /\ waiting' = waiting /\ todo' = todo /\ reply' = reply /\ newTags' = newTags
        /\ removed' = removed /\ met' = met
    BY <1>5
  <2>2. Running' = Running
    BY <2>1 DEF Running
  <2>3. /\ added'[r] = added[r] \cup {row} /\ appended'[r] = Nil
        /\ \A q \in Requests : q # r => added'[q] = added[q] /\ appended'[q] = appended[q]
    BY <1>5 DEF TypeOK
  <2>4. TypeOK'
    <3>1. added' \in [Requests -> SUBSET Link] /\ appended' \in [Requests -> Tags \cup {Nil}]
      BY <1>2, <1>5 DEF TypeOK
    <3> QED BY <1>1, <2>1, <3>1 DEF TypeOK
  <2>5. SessionInv'
    BY <1>1, <2>1, <2>2, <2>3 DEF SessionInv
  <2>6. MetInv'
    BY <2>1, <2>2 DEF MetInv
  <2>7. ListInv'
    <3>1. ASSUME NEW q \in Running
          PROVE  Behind(q)' = Behind(q) /\ Looked(q)' = Looked(q)
      BY <2>1, SameList
    <3>2. /\ t \in Looked(r) /\ {k.tag : k \in added[r]} \subseteq Looked(r)
          /\ Looked(r) \subseteq {k.tag : k \in added[r]} \cup {t}
      BY <1>1 DEF ListInv
    <3>3. {k.tag : k \in added'[r]} = {k.tag : k \in added[r]} \cup {t}
      BY <1>3, <2>3
    <3>4. /\ {k.tag : k \in added'[r]} \subseteq Looked(r)
          /\ Looked(r) \subseteq {k.tag : k \in added'[r]} \cup {appended'[r]}
      BY <3>2, <3>3
    <3>5. \A q \in Running : /\ {k.tag : k \in added'[q]} \subseteq Looked(q)
                             /\ Looked(q) \subseteq {k.tag : k \in added'[q]} \cup {appended'[q]}
      BY <2>3, <3>4 DEF ListInv, Running
    <3>6. \A q \in Running : appended'[q] # Nil => appended'[q] \in Looked(q)
      BY <2>3 DEF ListInv, Running
    <3> QED BY <2>1, <2>2, <3>1, <3>5, <3>6 DEF ListInv
  <2>8. RowInv'
    BY <1>1, <2>1, <2>2 DEF RowInv, SameKey
  <2>9. HoldInv'
    <3>1. \A q \in Requests : q # r => \A l \in added[q] \cup removed[q] :
             ~SameKey(l, row) /\ ~SameKey(row, l)
      BY <1>1 DEF HoldersOfLink, SameKey
    <3>2. \A l \in links \ removed[r] : ~SameKey(row, l)
      BY <1>5 DEF SameKey
    <3>3. ASSUME NEW q \in Requests
          PROVE  /\ \A k \in added'[q] : k.by = q /\ k.agent = body[q].agent
                 /\ \A k \in added'[q], l \in links \ removed[q] : ~SameKey(k, l)
      BY <1>3, <2>3, <3>2 DEF HoldInv
    <3>4. ASSUME NEW p \in Requests, NEW q \in Requests, p # q,
                 NEW k \in added'[p], NEW l \in added'[q] \cup removed[q]
          PROVE  ~SameKey(k, l)
      BY <2>3, <3>1, <3>4 DEF HoldInv
    <3> QED BY <1>1, <2>1, <3>3, <3>4 DEF HoldInv, SameKey
  <2>10. SeenInv'
    BY <1>1, <2>1, SeenStays
  <2> QED BY <2>1, <2>4, <2>5, <2>6, <2>7, <2>8, <2>9, <2>10, RefusalsStay
<1> QED BY <1>4, <1>5 DEF InsertLink

\* The name at the head of the list is taken, and its tag appended.
LEMMA TakeName ==
    ASSUME TypeOK, SessionInv, ListInv, NEW r \in Running, todo[r] # <<>>, appended[r] = Nil,
           NEW new \in SUBSET {Stored[Head(todo[r])]},
           Running' = Running, body' = body, added' = added,
           appended' = [appended EXCEPT ![r] = Stored[Head(todo[r])]],
           todo' = [todo EXCEPT ![r] = Tail(@)],
           newTags' = [newTags EXCEPT ![r] = @ \cup new]
    PROVE  /\ ListInv' /\ appended' \in [Requests -> Tags \cup {Nil}]
           /\ todo' \in [Requests -> Seq(Spellings)]
           /\ newTags' \in [Requests -> SUBSET Tags]
<1> DEFINE t == Stored[Head(todo[r])]
<1>1. r \in Requests /\ t \in Tags /\ Tail(todo[r]) \in Seq(Spellings) /\ t # Nil
  BY HeadName, TagAssumption DEF Running
<1>2. /\ appended'[r] = t /\ todo'[r] = Tail(todo[r]) /\ newTags'[r] = newTags[r] \cup new
      /\ \A q \in Requests : q # r => /\ appended'[q] = appended[q] /\ todo'[q] = todo[q]
                                      /\ newTags'[q] = newTags[q]
  BY <1>1 DEF TypeOK
<1>3. /\ appended' \in [Requests -> Tags \cup {Nil}] /\ newTags' \in [Requests -> SUBSET Tags]
  BY <1>1 DEF TypeOK
<1>4. todo' \in [Requests -> Seq(Spellings)]
  BY <1>1 DEF TypeOK
<1>5. /\ Len(todo'[r]) <= Len(body'[r].tags)
      /\ \A j \in 1..Len(todo'[r]) : todo'[r][j] = body'[r].tags[Behind(r)' + j]
      /\ Looked(r)' = Looked(r) \cup {t}
  BY <1>2, LookFurther
<1>6. {k.tag : k \in added[r]} \subseteq Looked(r) /\ newTags[r] \subseteq Looked(r)
  BY DEF ListInv
<1>7. Looked(r) \subseteq {k.tag : k \in added[r]}
  <2>1. Looked(r) \subseteq {k.tag : k \in added[r]} \cup {Nil}
    BY DEF ListInv
  <2>2. Nil \notin Looked(r)
    BY LookedAre, TagAssumption
  <2> QED BY <2>1, <2>2
<1>8. /\ newTags'[r] \subseteq Looked(r)' /\ appended'[r] \in Looked(r)'
      /\ {k.tag : k \in added'[r]} \subseteq Looked(r)'
      /\ Looked(r)' \subseteq {k.tag : k \in added'[r]} \cup {appended'[r]}
  BY <1>2, <1>5, <1>6, <1>7
<1>9. ASSUME NEW q \in Running', q # r
      PROVE  /\ q \in Running /\ Behind(q)' = Behind(q) /\ Looked(q)' = Looked(q)
             /\ todo'[q] = todo[q] /\ newTags'[q] = newTags[q] /\ appended'[q] = appended[q]
  BY <1>2, <1>9, SameList DEF Running
<1>10. ListInv'
  <2> SUFFICES ASSUME NEW q \in Running'
               PROVE  /\ Len(todo'[q]) <= Len(body'[q].tags)
                      /\ \A j \in 1..Len(todo'[q]) : todo'[q][j] = body'[q].tags[Behind(q)' + j]
                      /\ newTags'[q] \subseteq Looked(q)'
                      /\ appended'[q] # Nil => appended'[q] \in Looked(q)'
                      /\ {k.tag : k \in added'[q]} \subseteq Looked(q)'
                      /\ Looked(q)' \subseteq {k.tag : k \in added'[q]} \cup {appended'[q]}
    BY DEF ListInv
  <2>1. CASE q = r
    BY <1>5, <1>8, <2>1
  <2>2. CASE q # r
    BY <1>9, <2>2 DEF ListInv
  <2> QED BY <2>1, <2>2
<1> QED BY <1>3, <1>4, <1>10

LEMMA SelectTagStep ==
    ASSUME TagInv, NEW r \in Requests, SelectTag(r) PROVE TagInv'
<1> USE DEF TagInv
<1>1. /\ pc[r] = "flush" /\ clearing[r] = {} /\ appended[r] = Nil /\ todo[r] # <<>>
      /\ tags' = tags /\ links' = links /\ body' = body /\ held' = held
      /\ clearing' = clearing /\ waiting' = waiting /\ reply' = reply
      /\ newTags' = newTags /\ added' = added /\ removed' = removed /\ met' = met
  BY DEF SelectTag, Flushed, store, private
<1>2. r \in Running /\ waiting[r] = Nil
  BY <1>1 DEF Running, SessionInv
<1>3. HoldInv'
  BY <1>1 DEF HoldInv, SameKey
<1>4. ASSUME Running' = Running PROVE MetInv'
  <2>1. \A q \in Requests : pc[q] # "idle" => pc'[q] # "idle"
    BY <1>1, <1>2 DEF SelectTag, TypeOK
  <2> QED BY <1>1, <1>4, <2>1 DEF MetInv, TypeOK
<1>5. CASE /\ appended' = [appended EXCEPT ![r] = Stored[Head(todo[r])]]
           /\ todo' = [todo EXCEPT ![r] = Tail(@)]
           /\ pc' = pc
  <2>1. Running' = Running
    BY <1>5 DEF Running
  <2>2. newTags' = [newTags EXCEPT ![r] = @ \cup {}]
    BY <1>1 DEF TypeOK
  <2>3. /\ ListInv' /\ appended' \in [Requests -> Tags \cup {Nil}]
        /\ todo' \in [Requests -> Seq(Spellings)]
    BY <1>1, <1>2, <1>5, <2>1, <2>2, TakeName
  <2>4. \A q \in Requests : q # r => appended'[q] = appended[q] /\ todo'[q] = todo[q]
    BY <1>5 DEF TypeOK
  <2>5. TypeOK'
    BY <1>1, <1>5, <2>3 DEF TypeOK
  <2>6. SessionInv'
    BY <1>1, <1>2, <1>5, <2>1, <2>4 DEF SessionInv
  <2>7. RowInv'
    BY <1>1, <1>5, <2>1 DEF RowInv, SameKey
  <2>8. SeenInv'
    BY <1>1, <1>5, <2>4, SeenStays
  <2> QED BY <1>1, <1>3, <1>4, <2>1, <2>3, <2>5, <2>6, <2>7, <2>8, RefusalsStay
<1>6. CASE /\ ~Visible(r, Head(todo[r])) /\ pc' = [pc EXCEPT ![r] = "create"]
           /\ appended' = appended /\ todo' = todo
  <2>1. pc'[r] = "create" /\ \A q \in Requests : q # r => pc'[q] = pc[q]
    BY <1>6 DEF TypeOK
  <2>2. Running' = Running
    BY <1>2, <2>1 DEF Running
  <2>3. /\ tags[Stored[Head(todo[r])]] = Nil /\ Stored[Head(todo[r])] \notin newTags[r]
    BY <1>6 DEF Visible
  <2>4. TypeOK'
    <3>1. pc' \in [Requests -> {"idle", "flush", "create", "done"}]
      BY <1>6 DEF TypeOK
    <3> QED BY <1>1, <1>6, <3>1 DEF TypeOK
  <2>5. SessionInv'
    BY <1>1, <1>2, <1>6, <2>1, <2>2, <2>3 DEF SessionInv
  <2>6. ListInv'
    BY <1>1, <1>6, <2>2, ListStays
  <2>7. RowInv'
    <3>1. \A x \in Requests : pc[x] = "done" => pc'[x] = "done"
      BY <1>1, <2>1
    <3>2. \A l \in links : pc'[l.by] = "done"
      BY <3>1 DEF RowInv, TypeOK, Link
    <3>3. \A q \in Running : \A l \in held[q] : pc'[l.by] = "done"
      BY <3>1 DEF RowInv, TypeOK, Link, Running
    <3> QED BY <1>1, <2>2, <3>2, <3>3 DEF RowInv, SameKey
  <2>8. SeenInv'
    BY <1>1, <1>6, <2>1, <2>3, SeenStays
  <2> QED BY <1>1, <1>3, <1>4, <2>2, <2>4, <2>5, <2>6, <2>7, <2>8, RefusalsStay
<1> QED BY <1>5, <1>6 DEF SelectTag

LEMMA CreateTagStep ==
    ASSUME TagInv, NEW r \in Requests, CreateTag(r) PROVE TagInv'
<1> USE DEF TagInv
<1> DEFINE t == Stored[Head(todo[r])]
<1>1. pc[r] = "create" /\ tags' = tags /\ links' = links /\ r \in Running
  BY DEF CreateTag, store, Running
<1>2. todo[r] # <<>> /\ appended[r] = Nil /\ clearing[r] = {} /\ waiting[r] = Nil
  BY <1>1 DEF SessionInv
<1>3. CASE tags[t] # Nil /\ End(r, "integrity")
  <2>1. tags[t] \in met[r] /\ t \in Names(tags[t])
    BY <1>1, <1>3 DEF SeenInv
  <2>2. t \in Names(r)
    BY <1>1, <1>2, HeadName
  <2>3. Shares(r)
    BY <2>1, <2>2 DEF Shares
  <2> QED BY <1>1, <1>3, <2>3, RollbackStep DEF store
<1>4. CASE /\ newTags' = [newTags EXCEPT ![r] = @ \cup {t}]
           /\ appended' = [appended EXCEPT ![r] = t]
           /\ todo' = [todo EXCEPT ![r] = Tail(@)]
           /\ pc' = [pc EXCEPT ![r] = "flush"]
           /\ UNCHANGED <<body, held, clearing, waiting, reply, added, removed, met>>
  <2>1. /\ body' = body /\ held' = held /\ clearing' = clearing /\ waiting' = waiting
        /\ reply' = reply /\ added' = added /\ removed' = removed /\ met' = met
    BY <1>4
  <2>2. pc'[r] = "flush" /\ \A q \in Requests : q # r => pc'[q] = pc[q]
    BY <1>4 DEF TypeOK
  <2>3. Running' = Running
    BY <1>1, <2>2 DEF Running
  <2>4. /\ ListInv' /\ appended' \in [Requests -> Tags \cup {Nil}]
        /\ todo' \in [Requests -> Seq(Spellings)]
        /\ newTags' \in [Requests -> SUBSET Tags]
    BY <1>1, <1>2, <1>4, <2>1, <2>3, TakeName
  <2>5. \A q \in Requests : q # r => /\ appended'[q] = appended[q] /\ todo'[q] = todo[q]
                                     /\ newTags'[q] = newTags[q]
    BY <1>4 DEF TypeOK
  <2>6. TypeOK'
    <3>1. pc' \in [Requests -> {"idle", "flush", "create", "done"}]
      BY <1>4 DEF TypeOK
    <3> QED BY <1>1, <2>1, <2>4, <3>1 DEF TypeOK
  <2>7. SessionInv'
    BY <1>1, <1>2, <2>1, <2>2, <2>3, <2>5 DEF SessionInv
  <2>8. MetInv'
    BY <1>1, <2>1, <2>2, <2>3 DEF MetInv, TypeOK
  <2>9. RowInv'
    <3>1. \A x \in Requests : pc[x] = "done" => pc'[x] = "done"
      BY <1>1, <2>2
    <3>2. \A l \in links : pc'[l.by] = "done"
      BY <3>1 DEF RowInv, TypeOK, Link
    <3>3. \A q \in Running : \A l \in held[q] : pc'[l.by] = "done"
      BY <3>1 DEF RowInv, TypeOK, Link, Running
    <3> QED BY <1>1, <2>1, <2>3, <3>2, <3>3 DEF RowInv, SameKey
  <2>10. HoldInv'
    BY <1>1, <2>1 DEF HoldInv, SameKey
  <2>11. SeenInv'
    BY <1>1, <2>1, <2>2, <2>5, SeenStays
  <2> QED BY <2>1, <2>4, <2>6, <2>7, <2>8, <2>9, <2>10, <2>11, RefusalsStay
<1> QED BY <1>3, <1>4 DEF CreateTag

\* What a request that may commit has in its transaction.
LEMMA CommitReady ==
    ASSUME TagInv, NEW r \in Requests, Flushed(r), todo[r] = <<>>
    PROVE  /\ r \in Running /\ held[r] \cap links \subseteq removed[r]
           /\ {k.tag : k \in added[r]} = Names(r)
<1> USE DEF TagInv
<1>1. r \in Running /\ clearing[r] = {} /\ appended[r] = Nil
  BY DEF Flushed, Running
<1>2. held[r] \cap links \subseteq removed[r]
  BY <1>1 DEF RowInv
<1>3. Looked(r) = Names(r) /\ Looked(r) \subseteq Tags
  BY <1>1, LookedAre
<1>4. /\ {k.tag : k \in added[r]} \subseteq Looked(r)
      /\ Looked(r) \subseteq {k.tag : k \in added[r]} \cup {Nil}
  BY <1>1 DEF ListInv
<1> QED BY <1>1, <1>2, <1>3, <1>4, TagAssumption

LEMMA CommitStep == ASSUME TagInv, NEW r \in Requests, Commit(r) PROVE TagInv'
<1> USE DEF TagInv
<1>0. r \in Running /\ End(r, "200") /\ newTags[r] \subseteq Names(r)
  <2>1. r \in Running /\ End(r, "200")
    BY CommitReady DEF Commit
  <2> QED BY <2>1, LookedAre DEF ListInv
<1>1. /\ pc'[r] = "done" /\ reply'[r] = "200" /\ waiting'[r] = Nil
      /\ newTags'[r] = {} /\ added'[r] = {} /\ removed'[r] = {}
      /\ \A q \in Requests : q # r =>
            /\ pc'[q] = pc[q] /\ reply'[q] = reply[q] /\ waiting'[q] = waiting[q]
            /\ newTags'[q] = newTags[q] /\ added'[q] = added[q] /\ removed'[q] = removed[q]
      /\ body' = body /\ held' = held /\ clearing' = clearing /\ todo' = todo
      /\ appended' = appended /\ met' = met
      /\ Running' = Running \ {r}
  BY <1>0, EndedSession
<1>2. /\ tags' = [t \in Tags |-> IF t \in newTags[r] THEN r ELSE tags[t]]
      /\ links' = (links \ removed[r]) \cup added[r]
  BY DEF Commit, Persist
<1>3. \A k \in added[r] : k \in Link /\ k.by = r /\ k.agent = body[r].agent
  BY DEF TypeOK, HoldInv
<1>4. \A x \in Requests : pc[x] = "done" => pc'[x] = "done" /\ x # r
  BY <1>0, <1>1 DEF Running
<1>5. \A l \in links : l.by \in Requests /\ pc[l.by] = "done" /\ l.by # r
  BY <1>4 DEF RowInv, TypeOK, Link
<1>6. \A q \in Running : q # r => r \in met[q]
  BY <1>0 DEF MetInv
<1>7. TypeOK'
  <2>1. tags' \in [Tags -> Requests \cup {Nil}]
    BY <1>2 DEF TypeOK
  <2>2. links' \subseteq Link
    BY <1>2, <1>3 DEF TypeOK
  <2>3. ASSUME NEW k \in links', NEW l \in links', k.agent = l.agent, k.tag = l.tag
        PROVE  k = l
    <3>1. CASE k \in links /\ l \in links
      BY <2>3, <3>1 DEF TypeOK
    <3>2. CASE k \in added[r] /\ l \in added[r]
      BY <1>3, <2>3, <3>2 DEF Link
    <3>3. \A j \in added[r], m \in links \ removed[r] : ~(j.agent = m.agent /\ j.tag = m.tag)
      BY DEF HoldInv, SameKey
    <3> QED BY <1>2, <2>3, <3>1, <3>2, <3>3
  <2> QED BY <1>0, <2>1, <2>2, <2>3, EndTypes
<1>8. RowInv'
  <2>1. \A l \in links' : pc'[l.by] = "done" /\ body'[l.by].agent = l.agent
    BY <1>1, <1>2, <1>3, <1>4, <1>5 DEF RowInv
  <2>2. ASSUME NEW q \in Running'
        PROVE  /\ q \in Running /\ q # r /\ q \in Requests /\ removed'[q] = removed[q]
               /\ waiting'[q] = waiting[q]
    BY <1>1 DEF Running
  <2>3. ASSUME NEW q \in Running', NEW l \in links', l.agent = body'[q].agent
        PROVE  l \in held'[q] \/ l.by \in met'[q]
    <3>1. CASE l \in links
      BY <1>1, <2>2, <2>3, <3>1 DEF RowInv
    <3>2. CASE l \in added[r]
      BY <1>1, <1>3, <1>6, <2>2, <3>2
    <3> QED BY <1>2, <3>1, <3>2
  <2>4. \A q \in Running' : \A l \in held'[q] : pc'[l.by] = "done" /\ l.agent = body'[q].agent
    BY <1>1, <1>4, <2>2 DEF RowInv, TypeOK, Link
  <2>5. \A q \in Running' : \A l \in held'[q] \cap links' : l \in links
    BY <1>1, <1>2, <1>3, <1>4, <2>2 DEF RowInv
  <2> QED BY <1>1, <2>1, <2>2, <2>3, <2>4, <2>5 DEF RowInv, SameKey
<1>9. HoldInv'
  <2>1. ASSUME NEW q \in Requests, q # r
        PROVE  /\ removed[q] \subseteq links'
               /\ \A k \in added[q], l \in links' \ removed[q] : ~SameKey(k, l)
    BY <1>2, <2>1 DEF HoldInv
  <2> QED BY <1>1, <2>1 DEF HoldInv, SameKey
<1>10. SeenInv'
  <2>1. ASSUME NEW q \in Requests, pc'[q] = "create",
               NEW t, t = Stored[Head(todo'[q])], tags'[t] # Nil
        PROVE  /\ tags'[t] \in met'[q]
               /\ t \in {Stored[body'[tags'[t]].tags[i]] : i \in DOMAIN body'[tags'[t]].tags}
    <3>1. /\ pc[q] = "create" /\ q # r /\ q \in Running /\ todo'[q] = todo[q]
          /\ met' = met /\ body' = body
      BY <1>1, <2>1 DEF Running
    <3>2. t \in Tags
      BY <2>1, <3>1, HeadName DEF SessionInv
    <3>3. CASE t \in newTags[r]
      <4>1. tags'[t] = r /\ t \in Names(r)
        BY <1>0, <1>2, <3>2, <3>3
      <4> QED BY <1>6, <3>1, <4>1 DEF Names
    <3>4. CASE t \notin newTags[r]
      <4>1. tags'[t] = tags[t]
        BY <1>2, <3>2, <3>4
      <4>2. tags[t] \in met[q] /\ t \in Names(tags[t])
        BY <2>1, <3>1, <4>1 DEF SeenInv
      <4> QED BY <3>1, <4>1, <4>2 DEF Names
    <3> QED BY <3>3, <3>4
  <2> QED BY ONLY <2>1, Zenon DEF SeenInv, Names
<1>11. SessionInv' /\ MetInv' /\ ListInv' /\ RefusalNeedsOverlap' /\ DeadlockNeedsCrossedLists'
  BY <1>0, EndKeeps
<1> QED BY <1>7, <1>8, <1>9, <1>10, <1>11

LEMMA StutterTagInv == ASSUME TagInv, UNCHANGED vars PROVE TagInv'
<1> USE DEF TagInv
<1>1. /\ tags' = tags /\ links' = links /\ pc' = pc /\ body' = body /\ held' = held
      /\ clearing' = clearing /\ waiting' = waiting /\ todo' = todo /\ appended' = appended
      /\ reply' = reply /\ newTags' = newTags /\ added' = added /\ removed' = removed
      /\ met' = met /\ Running' = Running
  BY DEF vars, store, private, Running
<1>2. TypeOK'
  BY <1>1 DEF TypeOK
<1>3. SessionInv' /\ MetInv'
  BY <1>1 DEF SessionInv, MetInv
<1>4. ListInv' /\ SeenInv'
  BY <1>1, ListStays, SeenStays
<1>5. RowInv' /\ HoldInv'
  BY <1>1 DEF RowInv, HoldInv, SameKey
<1> QED BY <1>1, <1>2, <1>3, <1>4, <1>5, RefusalsStay

\* TagInv is inductive.
LEMMA NextTagInv == TagInv /\ [Next]_vars => TagInv'
<1> SUFFICES ASSUME TagInv, [Next]_vars PROVE TagInv'
  OBVIOUS
<1>1. ASSUME NEW r \in Requests, Load(r) PROVE TagInv'
  BY <1>1, LoadStep
<1>2. ASSUME NEW r \in Requests, Step(r) PROVE TagInv'
  BY <1>2, DeleteLinkStep, ResumeDeleteStep, InsertLinkStep, SelectTagStep, CreateTagStep,
     CommitStep DEF Step
<1>3. ASSUME NEW r \in Requests, Fail(r) PROVE TagInv'
  BY <1>3, RollbackStep DEF Fail
<1>4. ASSUME NEW r \in Requests, BreakDeadlock(r) PROVE TagInv'
  BY <1>4, CycleShares, RollbackStep DEF BreakDeadlock
<1>5. CASE UNCHANGED vars
  BY <1>5, StutterTagInv
<1> QED BY <1>1, <1>2, <1>3, <1>4, <1>5 DEF Next, Quiescent

LEMMA AlwaysTagInv == Spec => []TagInv
BY InitTagInv, NextTagInv, PTL DEF Spec
-------------------------------------------------------------------------------
(* The theorems *)

\* The variables keep their types, and agent_tags its primary key: no two
\* links of one agent to one tag are ever committed.
THEOREM LinksHaveOneKey == Spec => []TypeOK
<1>1. TagInv => TypeOK
  BY DEF TagInv
<1> QED BY <1>1, AlwaysTagInv, PTL

\* Any number of requests, agents and tags: a request that fails on a unique
\* key or in a deadlock has met another one that names its agent or one of its
\* tags.
THEOREM RefusedHasMet == Spec => []RefusalNeedsOverlap
<1>1. TagInv => RefusalNeedsOverlap
  BY DEF TagInv
<1> QED BY <1>1, AlwaysTagInv, PTL

\* The argument for taking locks in one order: requests on different agents
\* whose lists agree on an order of the tags do not deadlock.
THEOREM DeadlockIsCrossed == Spec => []DeadlockNeedsCrossedLists
<1>1. TagInv => DeadlockNeedsCrossedLists
  BY DEF TagInv
<1> QED BY <1>1, AlwaysTagInv, PTL

\* The formula of CommitsItsList for one request.
ListCommitted(r) ==
    reply[r] = Nil /\ reply'[r] = "200" =>
       LET linked == {l.tag : l \in {k \in links' : k.agent = body[r].agent}}
       IN  /\ held[r] \cap links' = {}
           /\ Names(r) \subseteq linked
           /\ met[r] = {} => linked = Names(r)

LEMMA CommitLinks == ASSUME TagInv, NEW r \in Requests, Commit(r) PROVE ListCommitted(r)
<1> USE DEF TagInv
<1>1. /\ r \in Running /\ held[r] \cap links \subseteq removed[r]
      /\ {k.tag : k \in added[r]} = Names(r)
  BY CommitReady DEF Commit
<1>2. links' = (links \ removed[r]) \cup added[r]
  BY DEF Commit, Persist
<1>3. \A k \in added[r] : k.by = r /\ k.agent = body[r].agent
  BY DEF HoldInv
<1>4. held[r] \cap added[r] = {}
  BY <1>1, <1>3 DEF RowInv, Running
<1> DEFINE linked == {l.tag : l \in {k \in links' : k.agent = body[r].agent}}
<1>5. held[r] \cap links' = {}
  BY <1>1, <1>2, <1>4
<1>6. Names(r) \subseteq linked
  BY <1>1, <1>2, <1>3
<1>7. ASSUME met[r] = {} PROVE linked \subseteq Names(r)
  <2>1. \A l \in links' : l.agent = body[r].agent => l \in added[r]
    BY <1>1, <1>2, <1>5, <1>7 DEF RowInv
  <2> QED BY <1>1, <2>1
<1> QED BY <1>5, <1>6, <1>7 DEF ListCommitted

\* Only Commit answers 200.
LEMMA OnlyCommit ==
    ASSUME TagInv, [Next]_vars, NEW r \in Requests, reply[r] = Nil, reply'[r] = "200"
    PROVE  Commit(r)
<1> USE DEF TagInv
<1>1. ASSUME reply' = reply PROVE FALSE
  BY <1>1, TagAssumption
<1>2. ASSUME NEW q \in Requests, NEW code, End(q, code) PROVE q = r /\ code = "200"
  BY <1>2, TagAssumption DEF End, TypeOK
<1>3. ASSUME NEW q \in Requests, Load(q) \/ Fail(q) \/ BreakDeadlock(q) PROVE FALSE
  BY <1>1, <1>2, <1>3 DEF Load, Fail, BreakDeadlock
<1>4. ASSUME NEW q \in Requests, Step(q) PROVE Commit(r)
  <2>1. ASSUME NEW t \in Tags, DeleteLink(q, t) PROVE FALSE
    BY <1>1, <2>1 DEF DeleteLink
  <2>2. CASE ResumeDelete(q) \/ SelectTag(q)
    BY <1>1, <2>2 DEF ResumeDelete, SelectTag
  <2>3. CASE InsertLink(q)
    BY <1>1, <1>2, <2>3 DEF InsertLink
  <2>4. CASE CreateTag(q)
    BY <1>1, <1>2, <2>4 DEF CreateTag
  <2>5. CASE Commit(q)
    BY <1>2, <2>5 DEF Commit
  <2> QED BY <1>4, <2>1, <2>2, <2>3, <2>4, <2>5 DEF Step
<1> QED BY <1>1, <1>3, <1>4 DEF Next, Quiescent, vars

\* A commit leaves none of the links its session had loaded and one to every
\* tag of its list, and nothing else on the agent when it ran alone.
THEOREM ListIsCommitted == Spec => CommitsItsList
<1>1. TagInv /\ [Next]_vars =>
         [\A r \in Requests : reply[r] = Nil /\ reply'[r] = "200" =>
             LET linked == {l.tag : l \in {k \in links' : k.agent = body[r].agent}}
             IN  /\ held[r] \cap links' = {}
                 /\ Names(r) \subseteq linked
                 /\ met[r] = {} => linked = Names(r)]_vars
  <2>1. ASSUME TagInv, [Next]_vars, NEW r \in Requests PROVE ListCommitted(r)
    BY <2>1, OnlyCommit, CommitLinks DEF ListCommitted
  <2> QED BY <2>1 DEF ListCommitted
<1> QED BY <1>1, AlwaysTagInv, PTL DEF Spec, CommitsItsList
===============================================================================
