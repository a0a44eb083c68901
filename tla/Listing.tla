-------------------------------- MODULE Listing --------------------------------
(***************************************************************************)
(* GET /v1/agents (api/agents.py, list_agents of                           *)
(* services/agent_service.py), as a client reads it page by page.  A page  *)
(* takes several statements: one counts the rows of the query, one selects *)
(* the rows of the page, and the children of those agents are loaded after *)
(* that, one relationship at a time.  At READ COMMITTED each of them sees  *)
(* the database of its own moment.  The query has no ORDER BY, and joins   *)
(* the endpoints when it asks for a protocol: an agent is a row for every  *)
(* endpoint that speaks it.                                                *)
(***************************************************************************)
EXTENDS Naturals, FiniteSets, FiniteSetsExt

CONSTANTS
    Agents, Publishers,
    PublisherOf,   \* agent -> publisher
    Cards,         \* what an agent may be: status, endpoints, tags,
                   \* and the words of its name and of its description
    Queries,       \* the filters and page sizes clients ask with
    Lower,         \* a tag as asked for -> tag.lower()
    MaxEndpoints,  \* bound on the endpoints of a card
    MaxPage,       \* bound on the pages asked for
    MaxChanges,    \* bound on the commits of the write path
    Nil

ASSUME ListingAssumption ==
    /\ IsFiniteSet(Agents) /\ PublisherOf \in [Agents -> Publishers]
    /\ MaxEndpoints \in Nat /\ \A c \in Cards : DOMAIN c.endpoints \subseteq 1..MaxEndpoints
    /\ \A q \in Queries : /\ q.perPage \in 1..100
                          /\ q.tag = Nil \/ q.tag \in DOMAIN Lower
    /\ MaxPage \in Nat \ {0} /\ MaxChanges \in Nat
    /\ Nil \notin Cards \cup Queries \cup Publishers

VARIABLES
    cards,       \* the committed agents; Nil before the registration
    pc,
    query, page,
    total,       \* what the first statement counted
    picked,      \* the rows of the page: an agent and one of its endpoints
    status,      \* of the agents picked: the column ...
    endpoints,   \* ... and the children, as they were loaded
    tags,
    got,         \* the rows the pages before this one brought
    past,        \* history: the cards each agent has had during the request
    changes,     \* history: the commits so far ...
    walkedFrom   \* ... and those there were when the first page was asked for

reading == <<query, page, total, picked, status, endpoints, tags, got, walkedFrom>>
vars == <<cards, pc, reading, past, changes>>

Picked == {row[1] : row \in picked}

TypeOK ==
    /\ cards \in [Agents -> Cards \cup {Nil}]
    /\ pc \in {"idle", "count", "select", "endpoints", "tags", "answered"}
    /\ query \in Queries \cup {Nil} /\ page \in 1..MaxPage
    /\ total \in Nat /\ got \in Nat
    /\ picked \subseteq Agents \X Nat
    /\ picked # {} => Cardinality(picked) <= query.perPage
    /\ {DOMAIN status, DOMAIN endpoints, DOMAIN tags} \subseteq {{}, Picked}
    /\ past \in [Agents -> SUBSET (Cards \cup {Nil})]
    /\ changes \in 0..MaxChanges /\ walkedFrom \in 0..changes

Nothing == [a \in {} |-> Nil]

Init ==
    /\ cards \in [Agents -> Cards \cup {Nil}]
    /\ pc = "idle" /\ query = Nil /\ page = 1 /\ total = 0 /\ got = 0
    /\ picked = {} /\ status = Nothing /\ endpoints = Nothing /\ tags = Nothing
    /\ past = [a \in Agents |-> {cards[a]}]
    /\ changes = 0 /\ walkedFrom = 0
-------------------------------------------------------------------------------
\* The WHERE clauses; one whose parameter is missing or empty is left out.
Filtered(a, card) ==
    /\ card # Nil
    /\ query.status # Nil => card.status = query.status
    /\ query.publisher # Nil => PublisherOf[a] = query.publisher
    /\ query.tag # Nil => Lower[query.tag] \in card.tags

\* The last of them, on q, is an ilike of the description alone.
Fits(a, card) ==
    /\ Filtered(a, card)
    /\ query.text # Nil => query.text \in card.description

\* Mutant: the endpoints are joined whether a protocol is asked for or not.
EndpointsAlways(card) ==
    {i \in DOMAIN card.endpoints :
       query.protocol # Nil => card.endpoints[i] = query.protocol}

\* The endpoints that make an agent a row: 0 stands for the agent alone.
Joined(card) ==
    IF query.protocol = Nil THEN {0}
    ELSE {i \in DOMAIN card.endpoints : card.endpoints[i] = query.protocol}

Rows == {row \in Agents \X (0..MaxEndpoints) :
           Fits(row[1], cards[row[1]]) /\ row[2] \in Joined(cards[row[1]])}

\* A session of its own for every page.
Begin(n) ==
    /\ page' = n
    /\ pc' = "count"
    /\ past' = [a \in Agents |-> {cards[a]}]
    /\ picked' = {} /\ status' = Nothing /\ endpoints' = Nothing /\ tags' = Nothing

Ask ==
    /\ pc = "idle"
    /\ query' \in Queries
    /\ Begin(1)
    /\ walkedFrom' = changes
    /\ UNCHANGED <<cards, total, got, changes>>

AskNext ==
    /\ pc = "answered" /\ Cardinality(picked) = query.perPage /\ page < MaxPage
    /\ got' = got + Cardinality(picked)
    /\ Begin(page + 1)
    /\ UNCHANGED <<cards, query, total, changes, walkedFrom>>

\* Mutant: agents are counted, not rows.
CountAgents ==
    /\ pc = "count" /\ pc' = "select"
    /\ total' = Cardinality({row[1] : row \in Rows})
    /\ UNCHANGED <<cards, query, page, picked, status, endpoints, tags, got,
                   past, changes, walkedFrom>>

CountRows ==
    /\ pc = "count" /\ pc' = "select"
    /\ total' = Cardinality(Rows)
    /\ UNCHANGED <<cards, query, page, picked, status, endpoints, tags, got,
                   past, changes, walkedFrom>>

\* Mutant: pages are counted from zero.
OffsetFromZero == page * query.perPage

Offset == (page - 1) * query.perPage

\* Mutant: the limit is the end of the page.
LimitByEnd(n) == IF n > Offset THEN Min({page * query.perPage, n - Offset}) ELSE 0

\* How many of n rows are left for the page after OFFSET and LIMIT.
PageLength(n) == IF n > Offset THEN Min({query.perPage, n - Offset}) ELSE 0

\* Without an order any of the rows may be those of the page.
SelectPage ==
    /\ pc = "select" /\ pc' = "endpoints"
    /\ picked' \in kSubset(PageLength(Cardinality(Rows)), Rows)
    /\ status' = [a \in {row[1] : row \in picked'} |-> cards[a].status]
    /\ UNCHANGED <<cards, query, page, total, endpoints, tags, got, past, changes,
                   walkedFrom>>

\* selectinload: one statement for the endpoints of all agents picked ...
LoadEndpoints ==
    /\ pc = "endpoints" /\ pc' = "tags"
    /\ endpoints' = [a \in Picked |-> cards[a].endpoints]
    /\ UNCHANGED <<cards, query, page, total, picked, status, tags, got, past,
                   changes, walkedFrom>>

\* Mutant: the tags loaded are those of one agent, for all of them.
LoadTagsOfOne ==
    /\ pc = "tags" /\ pc' = "answered"
    /\ \E one \in Agents : tags' = [a \in Picked |-> IF cards[one] = Nil THEN {}
                                                     ELSE cards[one].tags]
    /\ UNCHANGED <<cards, query, page, total, picked, status, endpoints, got, past,
                   changes, walkedFrom>>

\* ... and one for their tags; from_orm_agent and the answer follow.
LoadTags ==
    /\ pc = "tags" /\ pc' = "answered"
    /\ tags' = [a \in Picked |-> cards[a].tags]
    /\ UNCHANGED <<cards, query, page, total, picked, status, endpoints, got, past,
                   changes, walkedFrom>>

\* A registration or an update commits: any card may follow any other.
Change ==
    /\ changes < MaxChanges
    /\ \E a \in Agents, card \in Cards :
         /\ card # cards[a]
         /\ cards' = [cards EXCEPT ![a] = card]
         /\ past' = [past EXCEPT ![a] = @ \cup {card}]
    /\ changes' = changes + 1
    /\ UNCHANGED <<pc, reading>>

Answered == pc = "answered" /\ UNCHANGED vars

Next == \/ Ask \/ AskNext \/ CountRows \/ SelectPage \/ LoadEndpoints \/ LoadTags
        \/ Change \/ Answered

Spec == Init /\ [][Next]_vars
-------------------------------------------------------------------------------
Speaks(card) == \/ query.protocol = Nil
                \/ \E i \in DOMAIN card.endpoints : card.endpoints[i] = query.protocol

\* An item of a page mixes several databases, but every part of it was stored
\* while the request ran, and the agent met the filters at the moment its
\* columns were read, whatever the parts loaded later show.
ItemsWereStored ==
    pc = "answered" => \A a \in Picked :
       /\ \E c \in past[a] : /\ Fits(a, c) /\ Speaks(c)
                             /\ status[a] = c.status
       /\ \E c \in past[a] : c # Nil /\ endpoints[a] = c.endpoints
       /\ \E c \in past[a] : c # Nil /\ tags[a] = c.tags

\* A first page that is not full misses nobody who met the filters, as the
\* code has them, for as long as the request ran, agents without endpoints or
\* tags included.  (The text filter is on the description, though the guide says
\* name + description.  Later pages promise nothing of the kind: without an order
\* any rows may be those of a page.)
ShortPageIsComplete ==
    pc = "answered" /\ page = 1 /\ Cardinality(picked) < query.perPage =>
       \A a \in Agents :
          (\A c \in past[a] : Fits(a, c) /\ Speaks(c)) => a \in Picked

\* meta.total and the pages are counted by different statements: a page goes
\* past the total only if an agent changed in between, and the pages of a walk
\* through a database that rests add up to it (rows, so that an agent with two
\* endpoints of the protocol counts, and may be listed, twice).
PagesAgreeWithTotal ==
    pc = "answered" =>
       /\ \/ Cardinality(picked) = 0 \/ Offset + Cardinality(picked) <= total
          \/ \E a \in Agents : Cardinality(past[a]) > 1
       /\ changes = walkedFrom /\ Cardinality(picked) < query.perPage =>
             got + Cardinality(picked) = total
================================================================================
