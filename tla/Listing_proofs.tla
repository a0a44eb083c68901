---------------------------- MODULE Listing_proofs ----------------------------
(***************************************************************************)
(* Proofs about Listing: its four invariants hold for every set of agents, *)
(* cards and queries.  A request takes several statements, each of which   *)
(* sees another database, so the invariants say how what a request holds   *)
(* relates to `past`, the cards its agents have had since it began: every  *)
(* step of the request adds a relation, and a commit of the write path     *)
(* disturbs none because `past` only grows.                                *)
(***************************************************************************)
EXTENDS Listing, FiniteSetTheorems, TLAPS

Selected == pc \in {"endpoints", "tags", "answered"}

\* Which parts of the page are there at which step of the request.
StageInv ==
    /\ pc # "idle" => query \in Queries
    /\ ~Selected => picked = {} /\ DOMAIN status = {}
    /\ Selected => DOMAIN status = Picked
    /\ DOMAIN endpoints = IF pc \in {"tags", "answered"} THEN Picked ELSE {}
    /\ DOMAIN tags = IF pc = "answered" THEN Picked ELSE {}
    /\ IsFiniteSet(picked)

PastInv == \A a \in Agents : cards[a] \in past[a] /\ IsFiniteSet(past[a])

\* What has been read was stored, one statement after the other.  An agent
\* picked is one that has been registered.
ReadInv ==
    /\ \A a \in Picked : cards[a] # Nil
    /\ Selected => \A a \in Picked :
          \E c \in past[a] : Fits(a, c) /\ Speaks(c) /\ status[a] = c.status
    /\ pc \in {"tags", "answered"} => \A a \in Picked :
          \E c \in past[a] : c # Nil /\ endpoints[a] = c.endpoints
    /\ pc = "answered" => \A a \in Picked :
          \E c \in past[a] : c # Nil /\ tags[a] = c.tags

\* The page has the agents that met the filters all along, once it is selected.
CompleteInv ==
    Selected /\ page = 1 /\ Cardinality(picked) < query.perPage =>
       \A a \in Agents :
          (\A c \in past[a] : Fits(a, c) /\ Speaks(c)) => a \in Picked

\* Nothing has changed since the request began.
Rested == \A a \in Agents : past[a] = {cards[a]}

\* The count and the page agree if the database rested between them.
TotalInv ==
    Rested => /\ pc = "select" => total = Cardinality(Rows)
              /\ Selected => \/ Cardinality(picked) = 0
                             \/ Offset + Cardinality(picked) <= total

\* A walk through a database that rests: the pages before this one have filled
\* what OFFSET skips, and the page has all that LIMIT leaves.
WalkInv ==
    pc # "idle" /\ changes = walkedFrom =>
       /\ got = Offset /\ Offset <= Cardinality(Rows)
       /\ pc = "select" \/ Selected => total = Cardinality(Rows)
       /\ Selected => Cardinality(picked) = PageLength(total)

IdleInv == pc = "idle" => page = 1 /\ got = 0

ListingInv == /\ TypeOK /\ StageInv /\ PastInv /\ ReadInv /\ CompleteInv
              /\ TotalInv /\ WalkInv /\ IdleInv
-------------------------------------------------------------------------------
(* Arithmetic of pages *)

\* The smaller of two numbers.
LEMMA MinOfTwo ==
    ASSUME NEW m \in Nat, NEW n \in Nat
    PROVE  Min({m, n}) = IF m <= n THEN m ELSE n
<1>1. \E x \in {m, n} : \A y \in {m, n} : x <= y
  OBVIOUS
<1>2. Min({m, n}) \in {m, n} /\ \A y \in {m, n} : Min({m, n}) <= y
  BY <1>1 DEF Min
<1> QED BY <1>2

\* The pages before this one, and a page that is not the first.
LEMMA OffsetType ==
    ASSUME TypeOK, query \in Queries
    PROVE  /\ query.perPage \in 1..100
           /\ Offset \in Nat
           /\ page = 1 => Offset = 0
           /\ Offset + query.perPage = page * query.perPage
<1>1. query.perPage \in 1..100
  BY ListingAssumption
<1>2. page \in Nat /\ page >= 1
  BY ListingAssumption DEF TypeOK
<1>3. ASSUME NEW m \in Nat, m >= 1, NEW k \in Nat
      PROVE  (m - 1) * k \in Nat /\ (m - 1) * k + k = m * k /\ (m = 1 => (m - 1) * k = 0)
  BY <1>3
<1>4. query.perPage \in Nat
  BY <1>1
<1> QED BY <1>1, <1>2, <1>3, <1>4 DEF Offset

\* OFFSET and LIMIT: a page has no more rows than asked for, ends within the
\* rows there are, and one that is not full ends at the last of them.
LEMMA PageLengthType ==
    ASSUME TypeOK, query \in Queries, NEW n \in Nat
    PROVE  /\ PageLength(n) \in Nat
           /\ PageLength(n) <= query.perPage
           /\ PageLength(n) = 0 \/ Offset + PageLength(n) <= n
           /\ Offset <= n /\ PageLength(n) < query.perPage => Offset + PageLength(n) = n
<1>1. query.perPage \in Nat /\ query.perPage >= 1 /\ Offset \in Nat
  BY OffsetType
<1>2. CASE n > Offset
  <2>1. n - Offset \in Nat
    BY <1>1, <1>2
  <2>2. PageLength(n) = IF query.perPage <= n - Offset THEN query.perPage ELSE n - Offset
    BY <1>1, <1>2, <2>1, MinOfTwo DEF PageLength
  <2> QED BY <1>1, <1>2, <2>1, <2>2
<1>3. CASE ~(n > Offset)
  BY <1>1, <1>3 DEF PageLength
<1> QED BY <1>2, <1>3
-------------------------------------------------------------------------------
(* Rows *)

LEMMA RowsFinite == TypeOK => IsFiniteSet(Rows) /\ Cardinality(Rows) \in Nat
<1>1. IsFiniteSet(0..MaxEndpoints)
  <2>1. 0 \in Int /\ MaxEndpoints \in Int
    BY ListingAssumption
  <2> QED BY <2>1, FS_Interval
<1>2. IsFiniteSet(Agents \X (0..MaxEndpoints))
  BY <1>1, FS_Product, ListingAssumption
<1>3. Rows \in SUBSET (Agents \X (0..MaxEndpoints))
  BY DEF Rows
<1> QED BY <1>2, <1>3, FS_Subset, FS_CardinalityType

\* The join leaves out an agent without an endpoint that speaks the protocol.
LEMMA RowsOfAgent ==
    ASSUME TypeOK, NEW a \in Agents
    PROVE  /\ Fits(a, cards[a]) /\ Speaks(cards[a]) => \E row \in Rows : row[1] = a
           /\ \A row \in Rows : row[1] = a => Fits(a, cards[a]) /\ Speaks(cards[a])
<1>1. ASSUME Fits(a, cards[a]), Speaks(cards[a])
      PROVE  \E row \in Rows : row[1] = a
  <2>1. cards[a] \in Cards
    BY <1>1 DEF TypeOK, Fits, Filtered
  <2>2. PICK i : i \in Joined(cards[a])
    BY <1>1 DEF Speaks, Joined
  <2>3. i \in 0..MaxEndpoints
    BY <2>1, <2>2, ListingAssumption DEF Joined
  <2>4. <<a, i>> \in Agents \X (0..MaxEndpoints) /\ <<a, i>>[1] = a /\ <<a, i>>[2] = i
    BY <2>3
  <2>5. <<a, i>> \in Rows
    BY <1>1, <2>2, <2>4 DEF Rows
  <2> QED BY <2>4, <2>5
<1>2. ASSUME NEW row \in Rows, row[1] = a
      PROVE  Fits(a, cards[a]) /\ Speaks(cards[a])
  BY <1>2 DEF Rows, Speaks, Joined
<1> QED BY <1>1, <1>2

LEMMA RowTypes == \A row \in Rows : row \in Agents \X Nat /\ row[1] \in Agents
  BY ListingAssumption DEF Rows

\* What a step of the request keeps when the query is the same.
LEMMA SameQuery ==
    ASSUME query' = query
    PROVE  /\ \A a, c : Fits(a, c)' <=> Fits(a, c)
           /\ \A c : Speaks(c)' <=> Speaks(c)
           /\ cards' = cards => Rows' = Rows
           /\ page' = page => Offset' = Offset /\ \A n : PageLength(n)' = PageLength(n)
<1>1. \A a, c : Fits(a, c)' <=> Fits(a, c)
  BY DEF Fits, Filtered
<1>2. \A c : Speaks(c)' <=> Speaks(c)
  BY DEF Speaks
<1>3. \A c : Joined(c)' = Joined(c)
  BY DEF Joined
<1>4. cards' = cards => Rows' = Rows
  BY <1>1, <1>3 DEF Rows
<1>5. page' = page => Offset' = Offset /\ \A n : PageLength(n)' = PageLength(n)
  BY DEF Offset, PageLength
<1> QED BY <1>1, <1>2, <1>4, <1>5

\* An agent that has had two cards has more than one in its past.
LEMMA RestedIsOne ==
    ASSUME PastInv, \A a \in Agents : ~(Cardinality(past[a]) > 1)
    PROVE  Rested
<1> SUFFICES ASSUME NEW a \in Agents PROVE past[a] = {cards[a]}
  BY DEF Rested
<1>1. cards[a] \in past[a] /\ IsFiniteSet(past[a])
  BY DEF PastInv
<1>2. Cardinality(past[a]) \in Nat /\ Cardinality(past[a]) <= 1
  BY <1>1, FS_CardinalityType
<1>3. {cards[a]} \in SUBSET past[a] /\ Cardinality({cards[a]}) = 1
  BY <1>1, FS_Singleton
<1>4. Cardinality({cards[a]}) <= Cardinality(past[a])
  BY <1>1, <1>3, FS_Subset
<1>5. Cardinality(past[a]) = Cardinality({cards[a]})
  BY <1>2, <1>3, <1>4
<1> QED BY <1>1, <1>3, <1>5, FS_Subset
-------------------------------------------------------------------------------
(* The invariant *)

LEMMA ListingInit == Init => ListingInv
<1> SUFFICES ASSUME Init PROVE ListingInv
  OBVIOUS
<1>1. /\ pc = "idle" /\ query = Nil /\ page = 1 /\ total = 0 /\ got = 0 /\ picked = {}
      /\ changes = 0 /\ walkedFrom = 0
      /\ cards \in [Agents -> Cards \cup {Nil}] /\ past = [a \in Agents |-> {cards[a]}]
  BY DEF Init
<1>2. DOMAIN status = {} /\ DOMAIN endpoints = {} /\ DOMAIN tags = {} /\ Picked = {}
  BY DEF Init, Nothing, Picked
<1>3. past \in [Agents -> SUBSET (Cards \cup {Nil})]
  BY <1>1
<1>4. TypeOK
  BY <1>1, <1>2, <1>3, ListingAssumption DEF TypeOK
<1>5. PastInv
  BY <1>1, FS_Singleton DEF PastInv
<1>6. StageInv /\ ReadInv /\ CompleteInv /\ TotalInv /\ WalkInv /\ IdleInv
  BY <1>1, <1>2, FS_EmptySet
     DEF StageInv, ReadInv, CompleteInv, TotalInv, WalkInv, IdleInv, Selected
<1> QED BY <1>4, <1>5, <1>6 DEF ListingInv

\* What every page starts from: a session that has read nothing, and agents
\* whose past is what they are.
LEMMA BeginStep ==
    ASSUME ListingInv, NEW n \in 1..MaxPage, Begin(n), query' \in Queries,
           UNCHANGED <<cards, total, changes>>, got' \in Nat, walkedFrom' \in 0..changes
    PROVE  /\ TypeOK' /\ StageInv' /\ PastInv' /\ ReadInv' /\ CompleteInv'
           /\ TotalInv' /\ IdleInv'
<1> USE DEF ListingInv
<1>1. /\ page' = n /\ pc' = "count" /\ past' = [a \in Agents |-> {cards[a]}]
      /\ picked' = {} /\ cards' = cards /\ total' = total /\ changes' = changes
  BY DEF Begin
<1>2. DOMAIN status' = {} /\ DOMAIN endpoints' = {} /\ DOMAIN tags' = {} /\ Picked' = {}
  BY DEF Begin, Nothing, Picked
<1>3. past' \in [Agents -> SUBSET (Cards \cup {Nil})]
  BY <1>1 DEF TypeOK
<1>4. TypeOK'
  BY <1>1, <1>2, <1>3 DEF TypeOK
<1>5. PastInv'
  BY <1>1, FS_Singleton DEF PastInv
<1>6. /\ StageInv' /\ ReadInv' /\ CompleteInv' /\ TotalInv' /\ IdleInv'
  BY <1>1, <1>2, FS_EmptySet
     DEF StageInv, ReadInv, CompleteInv, TotalInv, IdleInv, Selected
<1> QED BY <1>4, <1>5, <1>6

LEMMA AskStep == ListingInv /\ Ask => ListingInv'
<1> SUFFICES ASSUME ListingInv, Ask PROVE ListingInv'
  OBVIOUS
<1>1. /\ pc = "idle" /\ page = 1 /\ got = 0
  BY DEF Ask, ListingInv, IdleInv
<1>2. /\ query' \in Queries /\ Begin(1) /\ UNCHANGED <<cards, total, changes>>
      /\ got' = got /\ walkedFrom' = changes /\ changes \in Nat /\ got \in Nat
  BY DEF Ask, ListingInv, TypeOK
<1>3. 1 \in 1..MaxPage
  BY ListingAssumption
<1>4. /\ TypeOK' /\ StageInv' /\ PastInv' /\ ReadInv' /\ CompleteInv'
      /\ TotalInv' /\ IdleInv'
  BY <1>2, <1>3, BeginStep
<1>5. (Cardinality(Rows) \in Nat)'
  BY <1>4, RowsFinite, PTL
<1>6. page' = 1 /\ pc' = "count"
  BY <1>2 DEF Begin
<1>7. Offset' = 0
  <2>1. query'.perPage \in Nat
    BY <1>2, ListingAssumption
  <2> QED BY <1>6, <2>1 DEF Offset
<1>8. WalkInv'
  BY <1>1, <1>2, <1>5, <1>6, <1>7 DEF WalkInv, Selected
<1> QED BY <1>4, <1>8 DEF ListingInv

LEMMA AskNextStep == ListingInv /\ AskNext => ListingInv'
<1> SUFFICES ASSUME ListingInv, AskNext PROVE ListingInv'
  OBVIOUS
<1>1. /\ pc = "answered" /\ page < MaxPage /\ page \in 1..MaxPage
      /\ Cardinality(picked) = query.perPage
      /\ query \in Queries /\ query' = query /\ TypeOK
      /\ Begin(page + 1) /\ UNCHANGED <<cards, total, changes>>
      /\ got' = got + query.perPage /\ got \in Nat
      /\ walkedFrom' = walkedFrom /\ walkedFrom \in 0..changes
  BY DEF AskNext, ListingInv, StageInv, TypeOK
<1>2. /\ query.perPage \in 1..100 /\ Offset \in Nat
      /\ Offset + query.perPage = page * query.perPage
  BY <1>1, OffsetType
<1>3. page + 1 \in 1..MaxPage /\ got' \in Nat
  BY <1>1, <1>2, ListingAssumption
<1>4. /\ TypeOK' /\ StageInv' /\ PastInv' /\ ReadInv' /\ CompleteInv'
      /\ TotalInv' /\ IdleInv'
  BY <1>1, <1>3, BeginStep
<1>5. page' = page + 1 /\ pc' = "count"
  BY <1>1 DEF Begin
<1>6. Offset' = Offset + query.perPage
  <2>1. (page + 1) - 1 = page
    BY <1>1
  <2> QED BY <1>1, <1>2, <1>5, <2>1 DEF Offset
<1>7. Rows' = Rows
  BY <1>1, SameQuery
<1>8. ASSUME changes' = walkedFrom'
      PROVE  got' = Offset' /\ Offset' <= Cardinality(Rows')
  <2>1. /\ got = Offset /\ total = Cardinality(Rows)
        /\ query.perPage = PageLength(total)
    BY <1>1, <1>8 DEF ListingInv, WalkInv, Selected
  <2>2. total \in Nat
    BY <1>1 DEF TypeOK
  <2>3. PageLength(total) = 0 \/ Offset + PageLength(total) <= total
    BY <1>1, <2>2, PageLengthType
  <2> QED BY <1>1, <1>2, <1>6, <1>7, <2>1, <2>3
<1>9. WalkInv'
  BY <1>5, <1>8 DEF WalkInv, Selected
<1> QED BY <1>4, <1>9 DEF ListingInv

LEMMA CountRowsStep == ListingInv /\ CountRows => ListingInv'
<1> SUFFICES ASSUME ListingInv, CountRows PROVE ListingInv'
  OBVIOUS
<1> USE DEF ListingInv
<1>1. /\ pc = "count" /\ pc' = "select" /\ total' = Cardinality(Rows)
      /\ UNCHANGED <<cards, query, page, picked, status, endpoints, tags, got,
                     past, changes, walkedFrom>>
  BY DEF CountRows
<1>2. Rows' = Rows /\ Offset' = Offset /\ Picked' = Picked
  BY <1>1, SameQuery DEF Picked
<1>3. total' \in Nat
  BY <1>1, RowsFinite
<1>4. TypeOK'
  BY <1>1, <1>2, <1>3 DEF TypeOK
<1>5. StageInv' /\ PastInv' /\ ReadInv' /\ CompleteInv' /\ IdleInv'
  BY <1>1, <1>2 DEF StageInv, PastInv, ReadInv, CompleteInv, IdleInv, Selected
<1>6. TotalInv' /\ WalkInv'
  BY <1>1, <1>2 DEF TotalInv, WalkInv, Selected
<1> QED BY <1>4, <1>5, <1>6

\* A page that is not full has every row there is.
LEMMA PageIsRows ==
    ASSUME IsFiniteSet(Rows), NEW S \in SUBSET Rows, Cardinality(S) = Cardinality(Rows)
    PROVE  S = Rows
BY FS_Subset

LEMMA SelectPageStep == ListingInv /\ SelectPage => ListingInv'
<1> SUFFICES ASSUME ListingInv, SelectPage PROVE ListingInv'
  OBVIOUS
<1> USE DEF ListingInv
<1> DEFINE n == Cardinality(Rows)
<1>1. /\ pc = "select" /\ pc' = "endpoints" /\ query \in Queries
      /\ UNCHANGED <<cards, query, page, total, endpoints, tags, got, past, changes,
                     walkedFrom>>
      /\ picked' \in SUBSET Rows /\ Cardinality(picked') = PageLength(n)
      /\ status' = [a \in Picked' |-> cards[a].status]
  BY DEF SelectPage, StageInv, kSubset, Picked
<1>2. /\ Rows' = Rows /\ Offset' = Offset /\ \A k : PageLength(k)' = PageLength(k)
      /\ \A a, c : Fits(a, c)' <=> Fits(a, c)
      /\ \A c : Speaks(c)' <=> Speaks(c)
  BY <1>1, SameQuery
<1>3. n \in Nat /\ IsFiniteSet(Rows) /\ IsFiniteSet(picked')
  BY <1>1, RowsFinite, FS_Subset
<1>4. /\ PageLength(n) \in Nat /\ PageLength(n) <= query.perPage
      /\ PageLength(n) = 0 \/ Offset + PageLength(n) <= n
      /\ Offset <= n /\ PageLength(n) < query.perPage => Offset + PageLength(n) = n
      /\ page = 1 => Offset = 0
  BY <1>1, <1>3, PageLengthType, OffsetType
<1> HIDE DEF n
<1>5. /\ picked' \subseteq Agents \X Nat /\ DOMAIN status' = Picked'
      /\ DOMAIN endpoints' = {} /\ DOMAIN tags' = {}
  BY <1>1, RowTypes DEF StageInv
<1>6. TypeOK'
  BY <1>1, <1>4, <1>5 DEF TypeOK
<1>7. StageInv' /\ PastInv' /\ IdleInv'
  BY <1>1, <1>3, <1>5 DEF StageInv, PastInv, IdleInv, Selected
<1>8. ASSUME NEW a \in Picked'
      PROVE  /\ a \in Agents /\ cards[a] # Nil /\ cards[a] \in past[a]
             /\ Fits(a, cards[a]) /\ Speaks(cards[a])
  <2>1. PICK row \in Rows : row[1] = a
    BY <1>1 DEF Picked
  <2>2. a \in Agents
    BY <2>1, RowTypes
  <2>3. Fits(a, cards[a]) /\ Speaks(cards[a])
    BY <2>1, <2>2, RowsOfAgent
  <2> QED BY <2>2, <2>3 DEF Fits, Filtered, PastInv
<1>9. ReadInv'
  <2>1. \A a \in Picked' :
           cards'[a] # Nil
           /\ \E c \in past'[a] : Fits(a, c)' /\ Speaks(c)' /\ status'[a] = c.status
    BY <1>1, <1>2, <1>8
  <2> QED BY <1>1, <2>1 DEF ReadInv
<1>10. CompleteInv'
  <2>1. SUFFICES ASSUME page = 1, Cardinality(picked') < query.perPage,
                        NEW a \in Agents, \A c \in past[a] : Fits(a, c) /\ Speaks(c)
                 PROVE  a \in Picked'
    BY <1>1, <1>2 DEF CompleteInv
  <2>2. Cardinality(picked') = n
    BY <1>1, <1>3, <1>4, <2>1
  <2>3. picked' = Rows
    BY <1>1, <1>3, <2>2, PageIsRows DEF n
  <2>4. Fits(a, cards[a]) /\ Speaks(cards[a])
    BY <2>1 DEF PastInv
  <2>5. PICK row \in Rows : row[1] = a
    BY <2>4, RowsOfAgent
  <2> QED BY <2>3, <2>5 DEF Picked
<1>11. TotalInv'
  <2>1. Rested' => Rested
    BY <1>1 DEF Rested
  <2>2. Rested => total = n
    BY <1>1 DEF TotalInv, n
  <2> QED BY <1>1, <1>2, <1>4, <2>1, <2>2 DEF TotalInv
<1>12. WalkInv'
  BY <1>1, <1>2 DEF WalkInv, Selected, n
<1> QED BY <1>6, <1>7, <1>9, <1>10, <1>11, <1>12

\* The children are loaded of the agents picked: the page itself stays.
LEMMA LoadStep ==
    ASSUME ListingInv, pc \in {"endpoints", "tags"}, pc' \in {"tags", "answered"},
           UNCHANGED <<cards, query, page, total, picked, status, got, past, changes,
                       walkedFrom>>
    PROVE  /\ Rows' = Rows /\ Offset' = Offset /\ Picked' = Picked
           /\ PastInv' /\ CompleteInv' /\ TotalInv' /\ WalkInv' /\ IdleInv'
           /\ \A a \in Picked' : cards'[a] # Nil
           /\ \A a \in Picked' : \E c \in past'[a] :
                 Fits(a, c)' /\ Speaks(c)' /\ status'[a] = c.status
           /\ \A a \in Picked : cards[a] # Nil /\ cards[a] \in past[a]
<1> USE DEF ListingInv
<1>1. /\ Rows' = Rows /\ Offset' = Offset /\ \A k : PageLength(k)' = PageLength(k)
      /\ \A a, c : Fits(a, c)' <=> Fits(a, c)
      /\ \A c : Speaks(c)' <=> Speaks(c)
      /\ Picked' = Picked
  BY SameQuery DEF Picked
<1>2. Selected /\ Selected' /\ pc' # "select" /\ pc' # "idle" /\ pc # "idle"
  BY DEF Selected
<1>3. Picked \subseteq Agents
  BY DEF TypeOK, Picked
<1>4. PastInv' /\ IdleInv'
  BY <1>2 DEF PastInv, IdleInv
<1>5. CompleteInv'
  BY <1>1, <1>2 DEF CompleteInv
<1>6. TotalInv' /\ WalkInv'
  BY <1>1, <1>2 DEF TotalInv, WalkInv, Rested
<1>7. \A a \in Picked : \E c \in past[a] : Fits(a, c) /\ Speaks(c) /\ status[a] = c.status
  BY <1>2 DEF ReadInv
<1>8. \A a \in Picked : cards[a] # Nil /\ cards[a] \in past[a]
  BY <1>3 DEF ReadInv, PastInv
<1> QED BY <1>1, <1>4, <1>5, <1>6, <1>7, <1>8

LEMMA LoadEndpointsStep == ListingInv /\ LoadEndpoints => ListingInv'
<1> SUFFICES ASSUME ListingInv, LoadEndpoints PROVE ListingInv'
  OBVIOUS
<1> USE DEF ListingInv
<1>1. /\ pc = "endpoints" /\ pc' = "tags"
      /\ endpoints' = [a \in Picked |-> cards[a].endpoints]
      /\ UNCHANGED <<cards, query, page, total, picked, status, tags, got, past,
                     changes, walkedFrom>>
  BY DEF LoadEndpoints
<1>2. /\ Picked' = Picked
      /\ PastInv' /\ CompleteInv' /\ TotalInv' /\ WalkInv' /\ IdleInv'
      /\ \A a \in Picked' : cards'[a] # Nil
      /\ \A a \in Picked' : \E c \in past'[a] :
            Fits(a, c)' /\ Speaks(c)' /\ status'[a] = c.status
      /\ \A a \in Picked : cards[a] # Nil /\ cards[a] \in past[a]
  BY <1>1, LoadStep
<1>3. TypeOK'
  BY <1>1, <1>2 DEF TypeOK
<1>4. StageInv'
  BY <1>1, <1>2 DEF StageInv, Selected
<1>5. \A a \in Picked' : \E c \in past'[a] : c # Nil /\ endpoints'[a] = c.endpoints
  BY <1>1, <1>2
<1>6. ReadInv'
  BY <1>1, <1>2, <1>5 DEF ReadInv
<1> QED BY <1>2, <1>3, <1>4, <1>6

LEMMA LoadTagsStep == ListingInv /\ LoadTags => ListingInv'
<1> SUFFICES ASSUME ListingInv, LoadTags PROVE ListingInv'
  OBVIOUS
<1> USE DEF ListingInv
<1>1. /\ pc = "tags" /\ pc' = "answered"
      /\ tags' = [a \in Picked |-> cards[a].tags]
      /\ UNCHANGED <<cards, query, page, total, picked, status, endpoints, got, past,
                     changes, walkedFrom>>
  BY DEF LoadTags
<1>2. /\ Picked' = Picked
      /\ PastInv' /\ CompleteInv' /\ TotalInv' /\ WalkInv' /\ IdleInv'
      /\ \A a \in Picked' : cards'[a] # Nil
      /\ \A a \in Picked' : \E c \in past'[a] :
            Fits(a, c)' /\ Speaks(c)' /\ status'[a] = c.status
      /\ \A a \in Picked : cards[a] # Nil /\ cards[a] \in past[a]
  BY <1>1, LoadStep
<1>3. TypeOK'
  BY <1>1, <1>2 DEF TypeOK
<1>4. StageInv'
  BY <1>1, <1>2 DEF StageInv, Selected
<1>5. /\ \A a \in Picked' : \E c \in past'[a] : c # Nil /\ endpoints'[a] = c.endpoints
      /\ \A a \in Picked' : \E c \in past'[a] : c # Nil /\ tags'[a] = c.tags
  BY <1>1, <1>2 DEF ReadInv
<1>6. ReadInv'
  BY <1>1, <1>2, <1>5 DEF ReadInv
<1> QED BY <1>2, <1>3, <1>4, <1>6

\* A commit of the write path adds to the past, and the database has not rested.
LEMMA ChangeStep == ListingInv /\ Change => ListingInv'
<1> SUFFICES ASSUME ListingInv, Change PROVE ListingInv'
  OBVIOUS
<1> USE DEF ListingInv
<1>1. PICK b \in Agents, card \in Cards :
         /\ card # cards[b]
         /\ cards' = [cards EXCEPT ![b] = card]
         /\ past' = [past EXCEPT ![b] = @ \cup {card}]
  BY DEF Change
<1>2. /\ changes' = changes + 1 /\ changes < MaxChanges /\ changes \in 0..MaxChanges
      /\ walkedFrom \in 0..changes
      /\ pc' = pc /\ query' = query /\ page' = page /\ total' = total
      /\ picked' = picked /\ status' = status /\ endpoints' = endpoints /\ tags' = tags
      /\ got' = got /\ walkedFrom' = walkedFrom
  BY DEF Change, reading, TypeOK
<1>3. /\ cards' \in [Agents -> Cards \cup {Nil}]
      /\ past' \in [Agents -> SUBSET (Cards \cup {Nil})]
      /\ \A a \in Agents : past[a] \subseteq past'[a]
      /\ \A a \in Agents : cards'[a] = IF a = b THEN card ELSE cards[a]
      /\ \A a \in Agents : past'[a] = IF a = b THEN past[a] \cup {card} ELSE past[a]
  BY <1>1 DEF TypeOK
<1>4. /\ Offset' = Offset
      /\ \A a, c : Fits(a, c)' <=> Fits(a, c)
      /\ \A c : Speaks(c)' <=> Speaks(c)
      /\ Picked' = Picked
  BY <1>2, SameQuery DEF Picked
<1>5. Picked \subseteq Agents
  BY DEF TypeOK, Picked
<1>6. TypeOK'
  <2>1. changes' \in 0..MaxChanges /\ walkedFrom' \in 0..changes'
    BY <1>2, ListingAssumption
  <2> QED BY <1>2, <1>3, <1>4, <2>1 DEF TypeOK
<1>7. StageInv' /\ IdleInv'
  BY <1>2, <1>4 DEF StageInv, IdleInv, Selected
<1>8. PastInv'
  <2>1. ASSUME NEW a \in Agents PROVE cards'[a] \in past'[a] /\ IsFiniteSet(past'[a])
    BY <1>3, FS_AddElement DEF PastInv
  <2> QED BY <2>1 DEF PastInv
<1>9. ReadInv'
  <2>1. \A a \in Picked' : cards'[a] # Nil
    BY <1>3, <1>4, <1>5, ListingAssumption DEF ReadInv
  <2>2. Selected => \A a \in Picked' : \E c \in past'[a] :
           Fits(a, c)' /\ Speaks(c)' /\ status'[a] = c.status
    BY <1>2, <1>3, <1>4, <1>5 DEF ReadInv
  <2>3. /\ pc \in {"tags", "answered"} => \A a \in Picked' :
              \E c \in past'[a] : c # Nil /\ endpoints'[a] = c.endpoints
        /\ pc = "answered" => \A a \in Picked' :
              \E c \in past'[a] : c # Nil /\ tags'[a] = c.tags
    BY <1>2, <1>3, <1>4, <1>5 DEF ReadInv
  <2> QED BY <1>2, <2>1, <2>2, <2>3 DEF ReadInv, Selected
<1>10. CompleteInv'
  BY <1>2, <1>3, <1>4 DEF CompleteInv, Selected
<1>11. ~Rested'
  <2>1. cards[b] \in past'[b] /\ cards'[b] = card
    BY <1>3 DEF PastInv
  <2> QED BY <1>1, <2>1 DEF Rested
<1>12. TotalInv' /\ WalkInv'
  BY <1>2, <1>11 DEF TotalInv, WalkInv
<1> QED BY <1>6, <1>7, <1>8, <1>9, <1>10, <1>12

LEMMA ListingStutter == ListingInv /\ UNCHANGED vars => ListingInv'
<1> SUFFICES ASSUME ListingInv, UNCHANGED vars PROVE ListingInv'
  OBVIOUS
<1> USE DEF ListingInv
<1>1. /\ cards' = cards /\ pc' = pc /\ past' = past /\ changes' = changes
      /\ query' = query /\ page' = page /\ total' = total
      /\ picked' = picked /\ status' = status /\ endpoints' = endpoints /\ tags' = tags
      /\ got' = got /\ walkedFrom' = walkedFrom
  BY DEF vars, reading
<1>2. /\ Rows' = Rows /\ Offset' = Offset /\ \A k : PageLength(k)' = PageLength(k)
      /\ \A a, c : Fits(a, c)' <=> Fits(a, c)
      /\ \A c : Speaks(c)' <=> Speaks(c)
      /\ Picked' = Picked
  BY <1>1, SameQuery DEF Picked
<1>3. TypeOK' /\ StageInv' /\ PastInv' /\ IdleInv'
  BY <1>1, <1>2 DEF TypeOK, StageInv, PastInv, IdleInv, Selected
<1>4. ReadInv' /\ CompleteInv'
  BY <1>1, <1>2 DEF ReadInv, CompleteInv, Selected
<1>5. TotalInv' /\ WalkInv'
  BY <1>1, <1>2 DEF TotalInv, WalkInv, Selected, Rested
<1> QED BY <1>3, <1>4, <1>5

LEMMA ListingInvariant == Spec => []ListingInv
<1>1. ListingInv /\ [Next]_vars => ListingInv'
  BY AskStep, AskNextStep, CountRowsStep, SelectPageStep, LoadEndpointsStep,
     LoadTagsStep, ChangeStep, ListingStutter DEF Next, Answered
<1> QED BY ListingInit, <1>1, PTL DEF Spec
-------------------------------------------------------------------------------
(* What the runs check *)

\* What a request reads and holds is well formed at every step, and no page is
\* longer than the page size asked for.
THEOREM PagesAreTyped == Spec => []TypeOK
<1>1. ListingInv => TypeOK
  BY DEF ListingInv
<1> QED BY <1>1, ListingInvariant, PTL

\* Every part of an item was stored while the request ran (the statements of
\* list_agents, one after the other), and the agent met the filters.
THEOREM ItemsStored == Spec => []ItemsWereStored
<1>1. ListingInv => ItemsWereStored
  BY DEF ListingInv, ReadInv, ItemsWereStored, Selected
<1> QED BY <1>1, ListingInvariant, PTL

\* A first page of list_agents that is not full misses nobody who met the
\* filters for as long as the request ran.
THEOREM ShortPageComplete == Spec => []ShortPageIsComplete
<1>1. ListingInv => ShortPageIsComplete
  BY DEF ListingInv, CompleteInv, ShortPageIsComplete, Selected
<1> QED BY <1>1, ListingInvariant, PTL

\* meta.total and the pages agree unless the write path committed in between,
\* and a walk through a database that rests lists as many rows as were counted.
THEOREM PagesAndTotal == Spec => []PagesAgreeWithTotal
<1>1. ListingInv => PagesAgreeWithTotal
  <2> SUFFICES ASSUME ListingInv, pc = "answered" PROVE PagesAgreeWithTotal
    BY DEF PagesAgreeWithTotal
  <2> USE DEF ListingInv
  <2>1. Selected /\ query \in Queries /\ total \in Nat
    BY DEF Selected, StageInv, TypeOK
  <2>2. \/ Cardinality(picked) = 0 \/ Offset + Cardinality(picked) <= total
        \/ \E a \in Agents : Cardinality(past[a]) > 1
    BY <2>1, RestedIsOne DEF TotalInv
  <2>3. changes = walkedFrom /\ Cardinality(picked) < query.perPage =>
           got + Cardinality(picked) = total
    <3> SUFFICES ASSUME changes = walkedFrom, Cardinality(picked) < query.perPage
                 PROVE  got + Cardinality(picked) = total
      OBVIOUS
    <3>1. /\ got = Offset /\ Offset <= total /\ Cardinality(picked) = PageLength(total)
      BY <2>1 DEF WalkInv
    <3> QED BY <2>1, <3>1, PageLengthType
  <2> QED BY <2>2, <2>3 DEF PagesAgreeWithTotal
<1> QED BY <1>1, ListingInvariant, PTL
===============================================================================
