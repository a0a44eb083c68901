------------------------------ MODULE Discovery ------------------------------
(***************************************************************************)
(* Two-stage discovery: POST /v1/match (services/match_service.py,         *)
(* taxonomy.py), then GET /v1/agents/{id}?fields=ep,auth,proto             *)
(* (api/agents.py) for one of the results.  The match reads the agents,    *)
(* their capabilities and their endpoints with one SELECT each; at READ    *)
(* COMMITTED each of them sees the database of its own moment, and the     *)
(* publishers go on changing their agents in between, each change in one   *)
(* transaction of AgentRegistry.                                           *)
(*                                                                         *)
(* A capability code is the sequence of its segments, code.review is       *)
(* <<"code", "review">>.  No SELECT of the code has an ORDER BY.           *)
(***************************************************************************)
EXTENDS Integers, SequencesExt

CONSTANTS
    Agents,
    Protocols, AuthTypes, Media, Codes,
    Cards,         \* what an agent may be: status, capabilities, endpoints
    Queries,       \* what the client may ask
    MaxChanges,    \* changes of cards while the client is served
    Nil

Statuses == {"active", "deprecated", "archived"}

Capability == [code : Codes, accepts : SUBSET Media]

Endpoint == [protocol : Protocols, auth : AuthTypes \cup {Nil}]

ASSUME CodesAssumption == \A c \in Codes : c \in Seq(ToSet(c))

ASSUME CardsAssumption ==
    /\ IsFiniteSet(Agents) /\ MaxChanges \in Nat
    /\ \A card \in Cards : /\ card.status \in Statuses
                           /\ card.capabilities \subseteq Capability
                           /\ card.endpoints \subseteq Endpoint
    /\ "rest" \in Protocols /\ Nil \notin Protocols \cup AuthTypes \cup Media

ASSUME QueriesAssumption ==
    /\ Nil \notin Queries
    /\ \A q \in Queries :
          /\ q.need \in Seq(ToSet(q.need)) /\ q.want \in Seq(ToSet(q.want))
          /\ \A i \in DOMAIN q.need : q.need[i] \in Seq(ToSet(q.need[i]))
          /\ q.need # <<>> /\ q.limit \in Nat \ {0} /\ q.minScore \in 0..100
          /\ q.proto \in Protocols \cup {Nil} /\ q.ioIn \in Media \cup {Nil}
          /\ q.auth \subseteq AuthTypes

VARIABLES
    cards,       \* the committed database
    changes,
    pc, query,
    found,       \* the active agents the SELECT returned
    codes, eps,  \* the capabilities and endpoints read for them
    answer,      \* MatchResponse.r
    info,        \* the connection info of stage 2
    past         \* the cards each agent has had since the query arrived

vars == <<cards, changes, pc, query, found, codes, eps, answer, info, past>>

Result == [id : Agents, c : SUBSET Codes, p : Protocols, s : 70..100]

Info == [id : Agents, protocol : Protocols \cup {Nil},
         auth : AuthTypes \cup {Nil}]

MatchTypeOK ==
    /\ cards \in [Agents -> Cards]
    /\ changes \in 0..MaxChanges
    /\ pc \in {"idle", "agents", "capabilities", "endpoints", "rank",
               "answered", "connected"}
    /\ query \in Queries \cup {Nil}
    /\ found \subseteq Agents
    /\ codes \in [Agents -> SUBSET Capability]
    /\ eps \in [Agents -> SUBSET Endpoint]
    /\ answer \in Seq(Result)
    /\ info \in Info \cup {Nil}
    /\ past \in [Agents -> SUBSET Cards]

Init ==
    /\ cards \in [Agents -> Cards]
    /\ changes = 0
    /\ pc = "idle" /\ query = Nil
    /\ found = {}
    /\ codes = [a \in Agents |-> {}] /\ eps = [a \in Agents |-> {}]
    /\ answer = <<>> /\ info = Nil
    /\ past = [a \in Agents |-> {}]
-------------------------------------------------------------------------------
\* match_exact or match_prefix: a whole number of segments.
Has(want, agentCodes) == \E c \in agentCodes : IsPrefix(want, c)

MatchAll(required, agentCodes) ==
    \A i \in DOMAIN required : Has(required[i], agentCodes)

Share(list, agentCodes, points) ==
    (points * Cardinality({i \in DOMAIN list : Has(list[i], agentCodes)}))
        \div Len(list)

\* Mutant: the bonus is taken over the codes needed.
ScoreOverNeed(need, want, agentCodes) ==
    IF need = <<>> THEN 0
    ELSE Share(need, agentCodes, 70)
         + IF want = <<>> THEN 0
           ELSE (Share(want, agentCodes, 30) * Len(want)) \div Len(need)

ComputeMatchScore(need, want, agentCodes) ==
    IF need = <<>> THEN 0
    ELSE Share(need, agentCodes, 70)
         + IF want = <<>> THEN 0 ELSE Share(want, agentCodes, 30)

CodesOf(capabilities) == {cap.code : cap \in capabilities}

Score(q, capabilities) == ComputeMatchScore(q.need, q.want, CodesOf(capabilities))

\* Mutant: any endpoint will do for the auth filter.
AuthOfAny(q, endpoints) ==
    q.auth # {} => \E e \in endpoints : e.auth \in q.auth

\* The auth filter looks at the endpoints of the protocol asked for.
AuthAccepted(q, endpoints) ==
    q.auth # {} => \E e \in endpoints : /\ q.proto \in {Nil, e.protocol}
                                        /\ e.auth \in q.auth

InputAccepted(q, capabilities) ==
    q.ioIn # Nil => \E cap \in capabilities : q.ioIn \in cap.accepts

\* What the loop over the candidates keeps.
Matches(q, capabilities, endpoints) ==
    /\ MatchAll(q.need, CodesOf(capabilities))
    /\ AuthAccepted(q, endpoints)
    /\ InputAccepted(q, capabilities)
    /\ Score(q, capabilities) >= q.minScore

\* sort(reverse) by score, then [: limit].  The sort is stable, and the rows it
\* gets come in any order: so do those of equal score.
TopAgents(q, matched, capabilities) ==
    {SubSeq(order, 1, IF q.limit < Len(order) THEN q.limit ELSE Len(order)) :
        order \in {o \in SetToSeqs(matched) :
                     \A i, j \in DOMAIN o : i < j =>
                        Score(q, capabilities[o[i]]) >= Score(q, capabilities[o[j]])}}

\* endpoints[0].protocol, of the first of the rows in whatever order they came.
Primaries(endpoints) ==
    IF endpoints = {} THEN {"rest"} ELSE {e.protocol : e \in endpoints}
-------------------------------------------------------------------------------
\* A publisher changes an agent (AgentRegistry!CommitUpdate, CommitArchive).
Change(a) ==
    /\ changes < MaxChanges
    /\ pc \notin {"idle", "connected"}
    /\ \E card \in Cards \ {cards[a]} :
         /\ cards' = [cards EXCEPT ![a] = card]
         /\ past' = [past EXCEPT ![a] = @ \cup {card}]
    /\ changes' = changes + 1
    /\ UNCHANGED <<pc, query, found, codes, eps, answer, info>>

Ask ==
    /\ pc = "idle" /\ pc' = "agents"
    /\ query' \in Queries
    /\ past' = [a \in Agents |-> {cards[a]}]
    /\ UNCHANGED <<cards, changes, found, codes, eps, answer, info>>

\* Mutant: the join with the endpoints is lost.
SelectAnyProtocol ==
    /\ pc = "agents" /\ pc' = "capabilities"
    /\ found' = {a \in Agents : cards[a].status = "active"}
    /\ UNCHANGED <<cards, changes, query, codes, eps, answer, info, past>>

\* SELECT agents [JOIN agent_endpoints] WHERE status = 'active' [AND protocol].
SelectAgents ==
    /\ pc = "agents" /\ pc' = "capabilities"
    /\ found' =
          {a \in Agents : /\ cards[a].status = "active"
                          /\ query.proto # Nil => \E e \in cards[a].endpoints :
                                                     e.protocol = query.proto}
    /\ UNCHANGED <<cards, changes, query, codes, eps, answer, info, past>>

\* selectinload(Agent.capabilities), then selectinload(Agent.endpoints).
SelectCapabilities ==
    /\ pc = "capabilities" /\ pc' = "endpoints"
    /\ codes' = [a \in Agents |-> IF a \in found
                                  THEN cards[a].capabilities ELSE {}]
    /\ UNCHANGED <<cards, changes, query, found, eps, answer, info, past>>

SelectEndpoints ==
    /\ pc = "endpoints" /\ pc' = "rank"
    /\ eps' = [a \in Agents |-> IF a \in found
                                THEN cards[a].endpoints ELSE {}]
    /\ UNCHANGED <<cards, changes, query, found, codes, answer, info, past>>

\* The loop, the sort, the limit and the response: no await in between.
Rank ==
    LET matched == {a \in found : Matches(query, codes[a], eps[a])}
    IN  /\ pc = "rank" /\ pc' = "answered"
        /\ \E top \in TopAgents(query, matched, codes),
              primary \in {f \in [matched -> Protocols] :
                              \A a \in matched : f[a] \in Primaries(eps[a])} :
             answer' = [i \in DOMAIN top |->
                           [id |-> top[i], c |-> CodesOf(codes[top[i]]),
                            p |-> IF query.proto # Nil THEN query.proto
                                  ELSE primary[top[i]],
                            s |-> Score(query, codes[top[i]])]]
        /\ UNCHANGED <<cards, changes, query, found, codes, eps, info, past>>

\* _agent_to_dict: the first endpoint of whatever the agent has by now.
Connect(i) ==
    /\ pc = "answered" /\ pc' = "connected"
    /\ LET a == answer[i].id
       IN  \E e \in IF cards[a].endpoints = {} THEN {[protocol |-> Nil, auth |-> Nil]}
                    ELSE cards[a].endpoints :
             info' = [id |-> a, protocol |-> e.protocol, auth |-> e.auth]
    /\ UNCHANGED <<cards, changes, query, found, codes, eps, answer, past>>

Quiescent == /\ pc = "connected" \/ (pc = "answered" /\ answer = <<>>)
             /\ UNCHANGED vars

Next == \/ \E a \in Agents : Change(a)
        \/ Ask \/ SelectAgents \/ SelectCapabilities \/ SelectEndpoints \/ Rank
        \/ \E i \in DOMAIN answer : Connect(i)
        \/ Quiescent

Spec == Init /\ [][Next]_vars
-------------------------------------------------------------------------------
\* What a client asks for: every needed code or one that continues it, one
\* endpoint that speaks the protocol with an accepted auth type, the input
\* type, and the threshold.
Fulfils(card, q) ==
    /\ \A i \in DOMAIN q.need : \E cap \in card.capabilities :
          \E n \in 0..Len(cap.code) : q.need[i] = SubSeq(cap.code, 1, n)
    /\ q.proto # Nil \/ q.auth # {} =>
          \E e \in card.endpoints : /\ q.proto # Nil => e.protocol = q.proto
                                    /\ q.auth # {} => e.auth \in q.auth
    /\ q.ioIn # Nil => \E cap \in card.capabilities : q.ioIn \in cap.accepts
    /\ Score(q, card.capabilities) >= q.minScore

\* match_agents offers the active agents only, deprecated ones no more than
\* archived ones.
Offers(card, q) == card.status = "active" /\ Fulfils(card, q)

Answered == pc \in {"answered", "connected"}

Returned == {answer[i].id : i \in DOMAIN answer}

\* An agent nobody changed since the query arrived gets what it deserves,
\* whatever happens to the others: it is returned only if it offers what is
\* asked, with its own codes and score, and it is left out only for `limit`
\* results that score as well (match_agents: filter, sort, cut).  What is asked
\* is read as the code reads it: active agents only, though the guide calls a
\* deprecated one "still discoverable", and codes by prefix, though it says that
\* a full code matches exactly that code.
SteadyAgentsAreRanked ==
    Answered => \A a \in Agents : past[a] = {cards[a]} =>
       /\ \A i \in DOMAIN answer : answer[i].id = a =>
             /\ Offers(cards[a], query)
             /\ answer[i].c = CodesOf(cards[a].capabilities)
             /\ answer[i].s = Score(query, cards[a].capabilities)
             /\ \A j \in 1..i : answer[j].s >= answer[i].s
       /\ Offers(cards[a], query) /\ a \notin Returned =>
             /\ Len(answer) = query.limit
             /\ \A i \in DOMAIN answer :
                   answer[i].s >= Score(query, cards[a].capabilities)

\* What is left of the filters of the code for an agent that is being changed:
\* it was active and had the protocol at one moment of the request, and all needed
\* codes at one moment, if not the same.
PartsWereOffered ==
    Answered => \A a \in Returned :
       /\ \E card \in past[a] :
             /\ card.status = "active"
             /\ query.proto # Nil =>
                   \E e \in card.endpoints : e.protocol = query.proto
       /\ \E card \in past[a] : MatchAll(query.need, CodesOf(card.capabilities))

\* What the documented flow shows: the connection info of a result matched for
\* a protocol is that of an endpoint of the protocol, if the agent is steady.
ConnectsOverMatchedProtocol ==
    info # Nil /\ query.proto # Nil /\ past[info.id] = {cards[info.id]} =>
       info.protocol = query.proto
===============================================================================
