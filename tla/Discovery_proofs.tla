--------------------------- MODULE Discovery_proofs ---------------------------
(***************************************************************************)
(* Proofs about Discovery: what a match answers while the agents change.   *)
(***************************************************************************)
EXTENDS Discovery, FiniteSetTheorems, TLAPS

\* The WHERE clause and the JOIN of the first SELECT.
Candidate(card, q) ==
    /\ card.status = "active"
    /\ q.proto # Nil => \E e \in card.endpoints : e.protocol = q.proto

Matched == {a \in found : Matches(query, codes[a], eps[a])}

\* The client has asked, and an agent is what it has last become.
QueryInv == pc # "idle" => query \in Queries /\ \A a \in Agents : cards[a] \in past[a]

\* Every row read was there at some moment since the query arrived.
ReadInv ==
    /\ pc \notin {"idle", "agents"} =>
          \A a \in Agents : \E card \in past[a] : a \in found <=> Candidate(card, query)
    /\ pc \notin {"idle", "agents", "capabilities"} =>
          \A a \in found : \E card \in past[a] : codes[a] = card.capabilities
    /\ pc \notin {"idle", "agents", "capabilities", "endpoints"} =>
          \A a \in found : \E card \in past[a] : eps[a] = card.endpoints

\* The answer is the head of the agents that match, sorted.
RankInv == Answered =>
    /\ \A i \in DOMAIN answer :
          /\ answer[i].id \in Matched
          /\ answer[i].c = CodesOf(codes[answer[i].id])
          /\ answer[i].s = Score(query, codes[answer[i].id])
    /\ \A i, j \in DOMAIN answer : i < j => answer[i].s >= answer[j].s
    /\ \A a \in Matched \ Returned :
          /\ Len(answer) = query.limit
          /\ \A i \in DOMAIN answer : answer[i].s >= Score(query, codes[a])

NoAnswerInv == ~Answered => answer = <<>>

DiscoveryInv == MatchTypeOK /\ QueryInv /\ ReadInv /\ RankInv /\ NoAnswerInv
-------------------------------------------------------------------------------
\* Integer division rounds down: a part of n parts of p is at most p.
LEMMA PartOfWhole ==
    ASSUME NEW n \in Nat \ {0}, NEW k \in 0..n, NEW p \in Nat
    PROVE  /\ (p * k) \div n \in 0..p
           /\ (p * n) \div n = p
<1>1. p * k \in Nat /\ p * k <= p * n
  OBVIOUS
<1> QED BY <1>1

\* The part of the codes asked for that an agent has.
LEMMA ShareBound ==
    ASSUME NEW S, NEW list \in Seq(S), list # <<>>, NEW agentCodes, NEW points \in Nat
    PROVE  /\ Share(list, agentCodes, points) \in 0..points
           /\ MatchAll(list, agentCodes) => Share(list, agentCodes, points) = points
<1> DEFINE had == {i \in DOMAIN list : Has(list[i], agentCodes)}
<1>1. DOMAIN list = 1..Len(list) /\ Len(list) \in Nat \ {0}
  OBVIOUS
<1>2. IsFiniteSet(1..Len(list)) /\ Cardinality(1..Len(list)) = Len(list)
  BY <1>1, FS_Interval
<1>3. had \subseteq 1..Len(list)
  BY <1>1
<1>4. Cardinality(had) \in 0..Len(list)
  BY <1>1, <1>2, <1>3, FS_Subset, FS_CardinalityType
<1>5. MatchAll(list, agentCodes) => had = 1..Len(list)
  BY <1>1 DEF MatchAll
<1>6. Share(list, agentCodes, points) = (points * Cardinality(had)) \div Len(list)
  BY DEF Share
<1>7. MatchAll(list, agentCodes) => Cardinality(had) = Len(list)
  BY <1>2, <1>5
<1> HIDE DEF had
<1>8. /\ (points * Cardinality(had)) \div Len(list) \in 0..points
      /\ (points * Len(list)) \div Len(list) = points
  BY <1>1, <1>4, PartOfWhole
<1> QED BY <1>6, <1>7, <1>8

\* What a match scores.
LEMMA ScoreBound ==
    ASSUME NEW q \in Queries, NEW capabilities
    PROVE  /\ Score(q, capabilities) \in 0..100
           /\ MatchAll(q.need, CodesOf(capabilities)) => Score(q, capabilities) \in 70..100
<1> DEFINE has == CodesOf(capabilities)
           bonus == IF q.want = <<>> THEN 0 ELSE Share(q.want, has, 30)
<1>1. /\ q.need \in Seq(ToSet(q.need)) /\ q.want \in Seq(ToSet(q.want))
      /\ q.need # <<>>
  BY QueriesAssumption
<1>2. /\ Share(q.need, has, 70) \in 0..70
      /\ MatchAll(q.need, has) => Share(q.need, has, 70) = 70
  BY <1>1, ShareBound
<1>3. q.want # <<>> => Share(q.want, has, 30) \in 0..30
  BY <1>1, ShareBound
<1>4. bonus \in 0..30
  BY <1>3
<1>5. Score(q, capabilities) = Share(q.need, has, 70) + bonus
  BY <1>1 DEF Score, ComputeMatchScore
<1> HIDE DEF has, bonus
<1> QED BY <1>2, <1>4, <1>5 DEF has

\* A sequence of the elements of a finite set has each of them.
LEMMA AllInOrder ==
    ASSUME NEW S, IsFiniteSet(S), NEW order \in SetToSeqs(S)
    PROVE  /\ order \in Seq(S) /\ Len(order) = Cardinality(S)
           /\ \A a \in S : \E i \in DOMAIN order : order[i] = a
<1> DEFINE n == Cardinality(S)
<1>1. n \in Nat
  BY FS_CardinalityType
<1>2. order \in [1..n -> S] /\ \A i, j \in 1..n : i # j => order[i] # order[j]
  BY DEF SetToSeqs
<1>3. order \in Injection(1..n, S)
  BY <1>2 DEF Injection, IsInjective
<1>4. Cardinality(1..n) = n
  BY <1>1, FS_Interval
<1>5. order \in Surjection(1..n, S)
  BY <1>3, <1>4, FS_Injection
<1>6. order \in Seq(S) /\ Len(order) = n
  BY <1>1, <1>2
<1> QED BY <1>5, <1>6 DEF Surjection
-------------------------------------------------------------------------------
\* A code starts with the code asked for: the prefix of the code of that length.
LEMMA HasIsPrefix ==
    ASSUME NEW want, want \in Seq(ToSet(want)), NEW c \in Codes
    PROVE  IsPrefix(want, c) <=> \E n \in 0..Len(c) : want = SubSeq(c, 1, n)
<1>1. c \in Seq(ToSet(c)) /\ Len(c) \in Nat /\ Len(want) \in Nat
  BY CodesAssumption
<1>2. SubSeq(want, 1, Len(want)) = want
  BY <1>1
<1>3. ASSUME NEW n \in 0..Len(c), want = SubSeq(c, 1, n)
      PROVE  Len(want) = n
  BY <1>1, <1>3
<1>4. ASSUME IsPrefix(want, c)
      PROVE  \E n \in 0..Len(c) : want = SubSeq(c, 1, n)
  <2>1. Len(want) \in 0..Len(c) /\ want = SubSeq(c, 1, Len(want))
    BY <1>1, <1>2, <1>4 DEF IsPrefix
  <2> QED BY <2>1
<1>5. ASSUME NEW n \in 0..Len(c), want = SubSeq(c, 1, n)
      PROVE  IsPrefix(want, c)
  BY <1>1, <1>2, <1>3, <1>5 DEF IsPrefix
<1> QED BY <1>4, <1>5

\* The filters of the code, one after the other, are what a client asks for.
LEMMA FiltersOffer ==
    ASSUME NEW q \in Queries, NEW card \in Cards
    PROVE  Offers(card, q)
             <=> Candidate(card, q) /\ Matches(q, card.capabilities, card.endpoints)
<1>1. card.capabilities \subseteq Capability
  BY CardsAssumption
<1>2. \A cap \in card.capabilities : cap.code \in Codes
  BY <1>1 DEF Capability
<1>3. ASSUME NEW i \in DOMAIN q.need
      PROVE  Has(q.need[i], CodesOf(card.capabilities))
               <=> \E cap \in card.capabilities :
                      \E n \in 0..Len(cap.code) : q.need[i] = SubSeq(cap.code, 1, n)
  <2>1. q.need[i] \in Seq(ToSet(q.need[i]))
    BY QueriesAssumption
  <2>2. Has(q.need[i], CodesOf(card.capabilities))
          <=> \E cap \in card.capabilities : IsPrefix(q.need[i], cap.code)
    BY DEF Has, CodesOf
  <2> QED BY <1>2, <2>1, <2>2, HasIsPrefix
<1>4. MatchAll(q.need, CodesOf(card.capabilities))
        <=> \A i \in DOMAIN q.need : \E cap \in card.capabilities :
               \E n \in 0..Len(cap.code) : q.need[i] = SubSeq(cap.code, 1, n)
  BY <1>3 DEF MatchAll
<1>5. (q.proto # Nil => \E e \in card.endpoints : e.protocol = q.proto)
        /\ AuthAccepted(q, card.endpoints)
        <=> (q.proto # Nil \/ q.auth # {} =>
               \E e \in card.endpoints : /\ q.proto # Nil => e.protocol = q.proto
                                         /\ q.auth # {} => e.auth \in q.auth)
  <2>1. \A e \in card.endpoints : e.protocol # Nil
    BY CardsAssumption DEF Endpoint
  <2>2. AuthAccepted(q, card.endpoints)
          <=> (q.auth # {} => \E e \in card.endpoints :
                 (q.proto = Nil \/ q.proto = e.protocol) /\ e.auth \in q.auth)
    BY DEF AuthAccepted
  <2>3. CASE q.auth = {}
    BY <2>2, <2>3
  <2>4. CASE q.auth # {} /\ q.proto = Nil
    BY <2>2, <2>4
  <2>5. CASE q.auth # {} /\ q.proto # Nil
    BY <2>2, <2>5
  <2> QED BY <2>3, <2>4, <2>5
<1> QED BY <1>4, <1>5 DEF Offers, Fulfils, Candidate, Matches, InputAccepted
-------------------------------------------------------------------------------
\* The types of what the statements read.
LEMMA CardTypes ==
    \A card \in Cards : /\ card.capabilities \subseteq Capability
                        /\ card.endpoints \subseteq Endpoint
  BY CardsAssumption

\* A cut of the agents that match in the order of their scores: what it holds,
\* how it is ordered, and when it leaves an agent out.
LEMMA TopIsBest ==
    ASSUME NEW q \in Queries, NEW matched \in SUBSET Agents, NEW capabilities,
           NEW top \in TopAgents(q, matched, capabilities)
    PROVE  /\ top \in Seq(matched)
           /\ \A i, j \in DOMAIN top : i < j =>
                 Score(q, capabilities[top[i]]) >= Score(q, capabilities[top[j]])
           /\ \A a \in matched : (\A i \in DOMAIN top : top[i] # a) =>
                 /\ Len(top) = q.limit
                 /\ \A i \in DOMAIN top :
                       Score(q, capabilities[top[i]]) >= Score(q, capabilities[a])
<1> DEFINE Points(a) == Score(q, capabilities[a])
<1>1. PICK order \in SetToSeqs(matched) :
         /\ \A i, j \in DOMAIN order : i < j => Points(order[i]) >= Points(order[j])
         /\ top = SubSeq(order, 1, IF q.limit < Len(order) THEN q.limit ELSE Len(order))
  BY DEF TopAgents
<1>2. IsFiniteSet(matched)
  BY FS_Subset, CardsAssumption
<1>3. /\ order \in Seq(matched)
      /\ \A a \in matched : \E i \in DOMAIN order : order[i] = a
  BY <1>2, AllInOrder
<1>4. Len(order) \in Nat /\ DOMAIN order = 1..Len(order)
  BY <1>3
<1> DEFINE n == IF q.limit < Len(order) THEN q.limit ELSE Len(order)
<1>5. q.limit \in Nat
  BY QueriesAssumption
<1>6. n \in Nat /\ n <= Len(order)
  BY <1>4, <1>5
<1>7. n < Len(order) => n = q.limit
  BY <1>4, <1>5
<1>8. top = SubSeq(order, 1, n)
  BY <1>1
<1> HIDE DEF Points, n
<1>9. /\ top \in Seq(matched) /\ DOMAIN top = 1..n /\ Len(top) = n
      /\ \A i \in 1..n : top[i] = order[i]
  BY <1>3, <1>4, <1>6, <1>8
<1>10. \A i, j \in DOMAIN top : i < j => Points(top[i]) >= Points(top[j])
  <2> SUFFICES ASSUME NEW i \in 1..n, NEW j \in 1..n, i < j
               PROVE  Points(order[i]) >= Points(order[j])
    BY <1>9
  <2>1. i \in 1..Len(order) /\ j \in 1..Len(order)
    BY <1>4, <1>6
  <2> QED BY <1>1, <1>4, <2>1
<1>11. ASSUME NEW a \in matched, \A i \in DOMAIN top : top[i] # a
       PROVE  Len(top) = q.limit /\ \A i \in DOMAIN top : Points(top[i]) >= Points(a)
  <2>1. PICK k \in 1..Len(order) : order[k] = a
    BY <1>3, <1>4
  <2>2. k \notin 1..n
    BY <1>9, <1>11, <2>1
  <2>3. n < k
    BY <1>4, <1>6, <2>2
  <2>4. ASSUME NEW i \in 1..n
        PROVE  Points(order[i]) >= Points(order[k])
    <3>1. i \in 1..Len(order) /\ i < k
      BY <1>4, <1>6, <2>3
    <3> QED BY <1>1, <1>4, <3>1
  <2>5. n < Len(order)
    BY <1>4, <1>6, <2>3
  <2> QED BY <1>7, <1>9, <2>1, <2>4, <2>5
<1> QED BY <1>9, <1>10, <1>11 DEF Points
-------------------------------------------------------------------------------
\* The types of what the match reads, ranks and answers.
LEMMA InitDiscovery == Init => DiscoveryInv
<1> SUFFICES ASSUME Init PROVE DiscoveryInv
  OBVIOUS
<1>1. MatchTypeOK
  BY CardsAssumption DEF Init, MatchTypeOK
<1> QED BY <1>1 DEF Init, DiscoveryInv, QueryInv, ReadInv, RankInv, NoAnswerInv, Answered

LEMMA ChangeKeeps ==
    ASSUME DiscoveryInv, NEW a \in Agents, Change(a)
    PROVE  DiscoveryInv'
<1>1. PICK card \in Cards : /\ cards' = [cards EXCEPT ![a] = card]
                            /\ past' = [past EXCEPT ![a] = @ \cup {card}]
  BY DEF Change
<1>2. UNCHANGED <<pc, query, found, codes, eps, answer, info>> /\ changes' \in 0..MaxChanges
  BY CardsAssumption DEF Change, DiscoveryInv, MatchTypeOK
<1>3. MatchTypeOK'
  BY <1>1, <1>2 DEF DiscoveryInv, MatchTypeOK
<1>4. \A b \in Agents : past[b] \subseteq past'[b]
  BY <1>1 DEF DiscoveryInv, MatchTypeOK
<1>5. \A b \in Agents : pc # "idle" => cards'[b] \in past'[b]
  BY <1>1 DEF DiscoveryInv, MatchTypeOK, QueryInv
<1>6. QueryInv'
  BY <1>2, <1>5 DEF DiscoveryInv, QueryInv
<1>7. found \subseteq Agents
  BY DEF DiscoveryInv, MatchTypeOK
<1>8. ReadInv'
  <2>1. \A b \in Agents : \A c : c \in past[b] => c \in past'[b]
    BY <1>4
  <2>2. ASSUME pc \notin {"idle", "agents"}, NEW b \in Agents
        PROVE  \E c \in past'[b] : b \in found <=> Candidate(c, query)
    BY <2>1, <2>2 DEF DiscoveryInv, ReadInv
  <2>3. ASSUME pc \notin {"idle", "agents", "capabilities"}, NEW b \in found
        PROVE  \E c \in past'[b] : codes[b] = c.capabilities
    BY <1>7, <2>1, <2>3 DEF DiscoveryInv, ReadInv
  <2>4. ASSUME pc \notin {"idle", "agents", "capabilities", "endpoints"}, NEW b \in found
        PROVE  \E c \in past'[b] : eps[b] = c.endpoints
    BY <1>7, <2>1, <2>4 DEF DiscoveryInv, ReadInv
  <2> QED BY <1>2, <2>2, <2>3, <2>4 DEF ReadInv, Candidate
<1>9. RankInv' /\ NoAnswerInv'
  BY <1>2 DEF DiscoveryInv, RankInv, NoAnswerInv, Answered, Matched, Returned
<1> QED BY <1>3, <1>6, <1>8, <1>9 DEF DiscoveryInv

LEMMA AskKeeps ==
    ASSUME DiscoveryInv, Ask
    PROVE  DiscoveryInv'
<1>1. MatchTypeOK'
  BY DEF Ask, DiscoveryInv, MatchTypeOK
<1>2. QueryInv'
  BY DEF Ask, QueryInv
<1>3. ReadInv' /\ RankInv' /\ NoAnswerInv'
  BY DEF Ask, DiscoveryInv, ReadInv, RankInv, NoAnswerInv, Answered
<1> QED BY <1>1, <1>2, <1>3 DEF DiscoveryInv

LEMMA SelectsKeep ==
    ASSUME DiscoveryInv, SelectAgents \/ SelectCapabilities \/ SelectEndpoints
    PROVE  DiscoveryInv'
<1>1. /\ UNCHANGED <<cards, changes, query, answer, info, past>>
      /\ pc \in {"agents", "capabilities", "endpoints"}
      /\ pc' \in {"capabilities", "endpoints", "rank"}
  BY DEF SelectAgents, SelectCapabilities, SelectEndpoints
<1>2. \A a \in Agents : /\ cards[a] \in past[a]
                        /\ cards[a].capabilities \subseteq Capability
                        /\ cards[a].endpoints \subseteq Endpoint
  BY <1>1, CardTypes DEF DiscoveryInv, MatchTypeOK, QueryInv
<1>3. found \subseteq Agents
  BY DEF DiscoveryInv, MatchTypeOK
<1>4. MatchTypeOK'
  <2>1. found' \subseteq Agents
    BY <1>3 DEF SelectAgents, SelectCapabilities, SelectEndpoints
  <2>2. codes' \in [Agents -> SUBSET Capability]
    BY <1>2 DEF SelectAgents, SelectCapabilities, SelectEndpoints, DiscoveryInv, MatchTypeOK
  <2>3. eps' \in [Agents -> SUBSET Endpoint]
    BY <1>2 DEF SelectAgents, SelectCapabilities, SelectEndpoints, DiscoveryInv, MatchTypeOK
  <2> QED BY <1>1, <2>1, <2>2, <2>3 DEF DiscoveryInv, MatchTypeOK
<1>5. QueryInv'
  BY <1>1 DEF DiscoveryInv, QueryInv
<1>6. ReadInv'
  <2>1. CASE SelectAgents
    <3>1. pc' = "capabilities" /\ \A a \in Agents : a \in found' <=> Candidate(cards[a], query)
      BY <2>1 DEF SelectAgents, Candidate
    <3>2. \A a \in Agents : \E card \in past[a] : a \in found' <=> Candidate(card, query)
      BY <1>2, <3>1
    <3> QED BY <1>1, <3>1, <3>2 DEF ReadInv, Candidate
  <2>2. CASE SelectCapabilities
    <3>1. /\ pc = "capabilities" /\ pc' = "endpoints" /\ found' = found
          /\ \A a \in found : codes'[a] = cards[a].capabilities
      BY <1>3, <2>2 DEF SelectCapabilities
    <3>2. \A a \in Agents : \E card \in past[a] : a \in found <=> Candidate(card, query)
      BY <3>1 DEF DiscoveryInv, ReadInv
    <3>3. \A a \in found : \E card \in past[a] : codes'[a] = card.capabilities
      BY <1>2, <1>3, <3>1
    <3> QED BY <1>1, <3>1, <3>2, <3>3 DEF ReadInv, Candidate
  <2>3. CASE SelectEndpoints
    <3>1. /\ pc = "endpoints" /\ pc' = "rank" /\ found' = found /\ codes' = codes
          /\ \A a \in found : eps'[a] = cards[a].endpoints
      BY <1>3, <2>3 DEF SelectEndpoints
    <3>2. /\ \A a \in Agents : \E card \in past[a] : a \in found <=> Candidate(card, query)
          /\ \A a \in found : \E card \in past[a] : codes[a] = card.capabilities
      BY <3>1 DEF DiscoveryInv, ReadInv
    <3>3. \A a \in found : \E card \in past[a] : eps'[a] = card.endpoints
      BY <1>2, <1>3, <3>1
    <3> QED BY <1>1, <3>1, <3>2, <3>3 DEF ReadInv, Candidate
  <2> QED BY <2>1, <2>2, <2>3
<1>7. RankInv' /\ NoAnswerInv'
  BY <1>1 DEF DiscoveryInv, RankInv, NoAnswerInv, Answered
<1> QED BY <1>4, <1>5, <1>6, <1>7 DEF DiscoveryInv
-------------------------------------------------------------------------------
\* Ranking answers with the best of what matches, with its codes and scores.
LEMMA RankKeeps ==
    ASSUME DiscoveryInv, Rank
    PROVE  DiscoveryInv'
<1> USE DEF DiscoveryInv
<1>1. /\ pc = "rank" /\ pc' = "answered"
      /\ UNCHANGED <<cards, changes, query, found, codes, eps, info, past>>
      /\ query \in Queries /\ Matched \subseteq Agents
  BY DEF Rank, QueryInv, MatchTypeOK, Matched
<1>2. PICK top \in TopAgents(query, Matched, codes), primary \in [Matched -> Protocols] :
         answer' = [i \in DOMAIN top |->
                       [id |-> top[i], c |-> CodesOf(codes[top[i]]),
                        p |-> IF query.proto # Nil THEN query.proto ELSE primary[top[i]],
                        s |-> Score(query, codes[top[i]])]]
  BY DEF Rank, Matched
<1>3. /\ top \in Seq(Matched)
      /\ \A i, j \in DOMAIN top : i < j =>
            Score(query, codes[top[i]]) >= Score(query, codes[top[j]])
      /\ \A a \in Matched : (\A i \in DOMAIN top : top[i] # a) =>
            /\ Len(top) = query.limit
            /\ \A i \in DOMAIN top : Score(query, codes[top[i]]) >= Score(query, codes[a])
  BY <1>1, TopIsBest
<1>4. Len(top) \in Nat /\ DOMAIN top = 1..Len(top) /\ \A i \in DOMAIN top : top[i] \in Matched
  BY <1>3
<1>5. /\ DOMAIN answer' = DOMAIN top
      /\ \A i \in DOMAIN top : /\ answer'[i].id = top[i]
                               /\ answer'[i].c = CodesOf(codes[top[i]])
                               /\ answer'[i].s = Score(query, codes[top[i]])
  BY <1>2
<1>6. ASSUME NEW i \in DOMAIN top
      PROVE  answer'[i] \in Result
  <2>1. top[i] \in Matched /\ top[i] \in Agents /\ codes[top[i]] \subseteq Capability
    BY <1>1, <1>4 DEF MatchTypeOK
  <2>2. CodesOf(codes[top[i]]) \in SUBSET Codes
    BY <2>1 DEF CodesOf, Capability
  <2>3. MatchAll(query.need, CodesOf(codes[top[i]]))
    BY <2>1 DEF Matched, Matches
  <2>4. Score(query, codes[top[i]]) \in 70..100
    BY <1>1, <2>3, ScoreBound
  <2>5. (IF query.proto # Nil THEN query.proto ELSE primary[top[i]]) \in Protocols
    BY <1>1, <2>1, QueriesAssumption
  <2> QED BY <1>2, <2>1, <2>2, <2>4, <2>5 DEF Result
<1>7. answer' \in Seq(Result) /\ Len(answer') = Len(top)
  <2>1. answer' \in [1..Len(top) -> Result]
    BY <1>2, <1>4, <1>6
  <2> QED BY <1>4, <2>1
<1>8. MatchTypeOK'
  BY <1>1, <1>7 DEF MatchTypeOK
<1>9. Matched' = Matched
  BY <1>1 DEF Matched
<1>10. \A i \in DOMAIN answer' :
          /\ answer'[i].id \in Matched'
          /\ answer'[i].c = CodesOf(codes[answer'[i].id])
          /\ answer'[i].s = Score(query, codes[answer'[i].id])
  BY <1>4, <1>5, <1>9
<1>11. \A i, j \in DOMAIN answer' : i < j => answer'[i].s >= answer'[j].s
  BY <1>3, <1>5
<1>12. ASSUME NEW a \in Matched, a \notin Returned'
       PROVE  /\ Len(answer') = query.limit
              /\ \A i \in DOMAIN answer' : answer'[i].s >= Score(query, codes[a])
  <2>1. \A i \in DOMAIN top : top[i] # a
    BY <1>5, <1>12 DEF Returned
  <2> QED BY <1>3, <1>5, <1>7, <2>1
<1>13. RankInv'
  BY <1>1, <1>9, <1>10, <1>11, <1>12 DEF RankInv
<1>14. QueryInv' /\ ReadInv' /\ NoAnswerInv'
  BY <1>1 DEF QueryInv, ReadInv, NoAnswerInv, Answered, Candidate
<1> QED BY <1>8, <1>13, <1>14

LEMMA ConnectKeeps ==
    ASSUME DiscoveryInv, NEW i \in DOMAIN answer, Connect(i)
    PROVE  DiscoveryInv'
<1> USE DEF DiscoveryInv
<1>1. /\ pc = "answered" /\ pc' = "connected"
      /\ UNCHANGED <<cards, changes, query, found, codes, eps, answer, past>>
  BY DEF Connect
<1>2. answer[i].id \in Agents
  <2>1. answer[i] \in Result
    BY DEF MatchTypeOK
  <2> QED BY <2>1 DEF Result
<1>3. cards[answer[i].id].endpoints \subseteq Endpoint
  BY <1>2, CardTypes DEF MatchTypeOK
<1>4. info' \in Info
  BY <1>2, <1>3 DEF Connect, Info, Endpoint
<1>5. MatchTypeOK'
  BY <1>1, <1>4 DEF MatchTypeOK
<1>6. Matched' = Matched /\ Returned' = Returned
  BY <1>1 DEF Matched, Returned
<1>7. RankInv'
  BY <1>1, <1>6 DEF RankInv, Answered
<1>8. QueryInv' /\ ReadInv' /\ NoAnswerInv'
  BY <1>1 DEF QueryInv, ReadInv, NoAnswerInv, Answered, Candidate
<1> QED BY <1>5, <1>7, <1>8
-------------------------------------------------------------------------------
LEMMA AlwaysDiscovery == Spec => []DiscoveryInv
<1>1. DiscoveryInv /\ [Next]_vars => DiscoveryInv'
  <2> SUFFICES ASSUME DiscoveryInv, [Next]_vars PROVE DiscoveryInv'
    OBVIOUS
  <2>1. CASE UNCHANGED vars
    BY <2>1 DEF DiscoveryInv, MatchTypeOK, QueryInv, ReadInv, RankInv, NoAnswerInv, vars,
                Answered, Matched, Returned, Candidate
  <2>2. CASE Quiescent
    BY <2>1, <2>2 DEF Quiescent
  <2> QED BY <2>1, <2>2, ChangeKeeps, AskKeeps, SelectsKeep, RankKeeps, ConnectKeeps DEF Next
<1> QED BY <1>1, InitDiscovery, PTL DEF Spec

\* Every variable keeps its type, the scores between 70 and 100 included,
\* whatever the codes, the cards and the queries are.
THEOREM MatchesAreTyped == Spec => []MatchTypeOK
<1>1. DiscoveryInv => MatchTypeOK
  BY DEF DiscoveryInv
<1> QED BY <1>1, AlwaysDiscovery, PTL

\* What an agent that is being changed is returned for, it had at some moment.
THEOREM PartsOffered == Spec => []PartsWereOffered
<1>1. DiscoveryInv => PartsWereOffered
  <2> SUFFICES ASSUME DiscoveryInv, Answered, NEW i \in DOMAIN answer
               PROVE  LET a == answer[i].id
                      IN  /\ \E card \in past[a] :
                                /\ card.status = "active"
                                /\ query.proto # Nil =>
                                      \E e \in card.endpoints : e.protocol = query.proto
                          /\ \E card \in past[a] :
                                MatchAll(query.need, CodesOf(card.capabilities))
    BY DEF PartsWereOffered, Returned
  <2>1. PICK a \in Agents : a = answer[i].id /\ a \in found /\ Matches(query, codes[a], eps[a])
    BY DEF DiscoveryInv, MatchTypeOK, RankInv, Matched
  <2>2. \E card \in past[a] : a \in found <=> Candidate(card, query)
    BY DEF DiscoveryInv, ReadInv, Answered
  <2>3. \E card \in past[a] : codes[a] = card.capabilities
    BY <2>1 DEF DiscoveryInv, ReadInv, Answered
  <2>4. MatchAll(query.need, CodesOf(codes[a]))
    BY <2>1 DEF Matches
  <2> QED BY <2>1, <2>2, <2>3, <2>4 DEF Candidate
<1> QED BY <1>1, AlwaysDiscovery, PTL

\* An agent that nobody changes is ranked as it deserves, whatever the others do.
THEOREM SteadyAreRanked == Spec => []SteadyAgentsAreRanked
<1>1. DiscoveryInv => SteadyAgentsAreRanked
  <2> SUFFICES ASSUME DiscoveryInv, Answered, NEW a \in Agents, past[a] = {cards[a]}
               PROVE  /\ \A i \in DOMAIN answer : answer[i].id = a =>
                            /\ Offers(cards[a], query)
                            /\ answer[i].c = CodesOf(cards[a].capabilities)
                            /\ answer[i].s = Score(query, cards[a].capabilities)
                            /\ \A j \in 1..i : answer[j].s >= answer[i].s
                      /\ Offers(cards[a], query) /\ a \notin Returned =>
                            /\ Len(answer) = query.limit
                            /\ \A i \in DOMAIN answer :
                                  answer[i].s >= Score(query, cards[a].capabilities)
    BY DEF SteadyAgentsAreRanked
  <2>1. query \in Queries /\ cards[a] \in Cards
    BY DEF DiscoveryInv, QueryInv, MatchTypeOK, Answered
  <2>2. /\ a \in found <=> Candidate(cards[a], query)
        /\ a \in found => codes[a] = cards[a].capabilities /\ eps[a] = cards[a].endpoints
    <3>1. \E card \in past[a] : a \in found <=> Candidate(card, query)
      BY DEF DiscoveryInv, ReadInv, Answered
    <3>2. a \in found => /\ \E card \in past[a] : codes[a] = card.capabilities
                         /\ \E card \in past[a] : eps[a] = card.endpoints
      BY DEF DiscoveryInv, ReadInv, Answered
    <3> QED BY <3>1, <3>2
  <2>3. a \in Matched <=> Offers(cards[a], query)
    BY <2>1, <2>2, FiltersOffer DEF Matched
  <2>4. ASSUME NEW i \in DOMAIN answer, answer[i].id = a
        PROVE  /\ Offers(cards[a], query)
               /\ answer[i].c = CodesOf(cards[a].capabilities)
               /\ answer[i].s = Score(query, cards[a].capabilities)
    <3>1. /\ a \in Matched /\ answer[i].c = CodesOf(codes[a])
          /\ answer[i].s = Score(query, codes[a])
      BY <2>4 DEF DiscoveryInv, RankInv
    <3>2. codes[a] = cards[a].capabilities
      BY <2>2, <3>1 DEF Matched
    <3> QED BY <2>3, <3>1, <3>2
  <2>5. ASSUME NEW i \in DOMAIN answer, NEW j \in 1..i
        PROVE  answer[j].s >= answer[i].s
    <3>1. DOMAIN answer = 1..Len(answer) /\ Len(answer) \in Nat
      BY DEF DiscoveryInv, MatchTypeOK
    <3>2. j \in DOMAIN answer /\ (j < i \/ j = i)
      BY <2>5, <3>1
    <3>3. j < i => answer[j].s >= answer[i].s
      BY <3>2 DEF DiscoveryInv, RankInv
    <3>4. answer[i] \in Result
      BY DEF DiscoveryInv, MatchTypeOK
    <3>5. answer[i].s \in Int
      BY <3>4 DEF Result
    <3> QED BY <3>2, <3>3, <3>5
  <2>6. ASSUME Offers(cards[a], query), a \notin Returned
        PROVE  /\ Len(answer) = query.limit
               /\ \A i \in DOMAIN answer : answer[i].s >= Score(query, cards[a].capabilities)
    <3>1. a \in Matched \ Returned /\ codes[a] = cards[a].capabilities
      BY <2>2, <2>3, <2>6 DEF Matched
    <3>2. /\ Len(answer) = query.limit
          /\ \A i \in DOMAIN answer : answer[i].s >= Score(query, codes[a])
      BY <3>1 DEF DiscoveryInv, RankInv
    <3> QED BY <3>1, <3>2
  <2> QED BY <2>4, <2>5, <2>6
<1> QED BY <1>1, AlwaysDiscovery, PTL
===============================================================================
