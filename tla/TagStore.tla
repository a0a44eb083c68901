------------------------------- MODULE TagStore -------------------------------
(***************************************************************************)
(* Tagging agents: what create_agent and update_agent do with data.tags    *)
(* (services/agent_service.py, models/tag.py).  The names are looked up    *)
(* one by one in the transaction of the request, a name that is not there  *)
(* is inserted at once, and each SELECT first flushes what is pending: the *)
(* DELETEs of agent.tags.clear(), then the link appended last.  An INSERT  *)
(* waits for the transaction that holds the same unique key, a DELETE for  *)
(* the one that has deleted its row, and PostgreSQL breaks a cycle of      *)
(* waits by failing one of its members.                                    *)
(*                                                                         *)
(* A request that creates its agent is one that finds no links.            *)
(***************************************************************************)
EXTENDS Naturals, Sequences, FiniteSets

CONSTANTS
    Requests, Agents,
    Spellings,     \* the tags as clients write them
    Tags,          \* the names stored
    Stored,        \* spelling -> name.lower().strip()
    Bodies,        \* what the requests carry: an agent and a list of spellings
    Nil

\* A row of agent_tags; `by` tells a row from one that was there before it.
Link == [agent : Agents, tag : Tags, by : Requests]

ASSUME TagAssumption ==
    /\ Tags \subseteq Spellings /\ Stored \in [Spellings -> Tags]
    /\ \A b \in Bodies : b.agent \in Agents /\ b.tags \in Seq(Spellings)
    /\ IsFiniteSet(Tags)
    /\ Nil \notin Bodies \cup Tags \cup Requests \cup Link
    /\ Nil \notin {"200", "integrity", "deadlock", "failed"}

VARIABLES
    \* the committed database
    tags,       \* name -> the request that created the row, or Nil
    links,      \* the agent_tags table
    \* the session of each request
    pc, body,
    held,       \* the links agent.tags was loaded from
    clearing,   \* those of them still to be deleted
    waiting,    \* the row its DELETE has found and waits for, or Nil
    todo,       \* the spellings still to be looked up
    appended,   \* the tag appended since the last flush, or Nil
    reply,
    \* the uncommitted rows of its transaction: locks for the others
    newTags, added, removed,
    met         \* the requests whose sessions overlapped with this one

store   == <<tags, links>>
private == <<newTags, added, removed>>
vars    == <<store, pc, body, held, clearing, waiting, todo, appended, reply,
             private, met>>

TypeOK ==
    /\ tags \in [Tags -> Requests \cup {Nil}]
    /\ links \subseteq Link
    /\ pc \in [Requests -> {"idle", "flush", "create", "done"}]
    /\ body \in [Requests -> Bodies \cup {Nil}]
    /\ held \in [Requests -> SUBSET Link]
    /\ clearing \in [Requests -> SUBSET Tags]
    /\ waiting \in [Requests -> Link \cup {Nil}]
    /\ todo \in [Requests -> Seq(Spellings)]
    /\ appended \in [Requests -> Tags \cup {Nil}]
    /\ reply \in [Requests -> {"200", "integrity", "deadlock", "failed", Nil}]
    /\ newTags \in [Requests -> SUBSET Tags]
    /\ added \in [Requests -> SUBSET Link]
    /\ removed \in [Requests -> SUBSET Link]
    /\ met \in [Requests -> SUBSET Requests]
    \* agent_tags has (agent_id, tag_id) for its primary key
    /\ \A k, l \in links : k.agent = l.agent /\ k.tag = l.tag => k = l

Init ==
    /\ tags = [t \in Tags |-> Nil]
    /\ links = {}
    /\ pc = [r \in Requests |-> "idle"]
    /\ body = [r \in Requests |-> Nil]
    /\ held = [r \in Requests |-> {}]
    /\ clearing = [r \in Requests |-> {}]
    /\ waiting = [r \in Requests |-> Nil]
    /\ todo = [r \in Requests |-> <<>>]
    /\ appended = [r \in Requests |-> Nil]
    /\ reply = [r \in Requests |-> Nil]
    /\ newTags = [r \in Requests |-> {}]
    /\ added = [r \in Requests |-> {}]
    /\ removed = [r \in Requests |-> {}]
    /\ met = [r \in Requests |-> {}]
-------------------------------------------------------------------------------
Running == {r \in Requests : pc[r] \in {"flush", "create"}}

\* Mutant: the list is extended, not replaced.
KeepLinks(mine) == {}

\* agent.tags.clear()
ClearLinks(mine) == {l.tag : l \in mine}

\* Mutant: the names are taken in the order of a set.
InSomeOrder(list) ==
    {[i \in DOMAIN list |-> list[f[i]]] :
        f \in {g \in [DOMAIN list -> DOMAIN list] : Cardinality({g[i] : i \in DOMAIN list}) = Len(list)}}

InListOrder(list) == {list}

\* The agent is selected with its tags, which are cleared.
Load(r) ==
    /\ pc[r] = "idle"
    /\ pc' = [pc EXCEPT ![r] = "flush"]
    /\ \E b \in Bodies :
         LET mine == {l \in links : l.agent = b.agent}
         IN  /\ body' = [body EXCEPT ![r] = b]
             /\ \E list \in InListOrder(b.tags) : todo' = [todo EXCEPT ![r] = list]
             /\ held' = [held EXCEPT ![r] = mine]
             /\ clearing' = [clearing EXCEPT ![r] = ClearLinks(mine)]
    /\ met' = [q \in Requests |-> IF q = r THEN Running
                                  ELSE IF q \in Running THEN met[q] \cup {r}
                                  ELSE met[q]]
    /\ UNCHANGED <<store, waiting, appended, reply, private>>

RowOf(r, t) == [agent |-> body[r].agent, tag |-> t, by |-> r]

SameKey(k, l) == k.agent = l.agent /\ k.tag = l.tag

\* Mutant: the session is left open, its transaction with it.
EndWithoutRollback(r, code) ==
    /\ pc' = [pc EXCEPT ![r] = "done"]
    /\ reply' = [reply EXCEPT ![r] = code]
    /\ waiting' = [waiting EXCEPT ![r] = Nil]
    /\ UNCHANGED <<body, held, clearing, todo, appended, private, met>>

\* The end of a session: what it has not committed is rolled back.
End(r, code) ==
    /\ pc' = [pc EXCEPT ![r] = "done"]
    /\ reply' = [reply EXCEPT ![r] = code]
    /\ newTags' = [newTags EXCEPT ![r] = {}]
    /\ added' = [added EXCEPT ![r] = {}]
    /\ removed' = [removed EXCEPT ![r] = {}]
    /\ waiting' = [waiting EXCEPT ![r] = Nil]
    /\ UNCHANGED <<body, held, clearing, todo, appended, met>>

\* The transactions a statement of r has to wait for.
DeleterOf(r, row) == {q \in Requests \ {r} : row \in removed[q]}

\* Mutant: agent_tags has no primary key.
NobodyHolds(r, t) == {}

HoldersOfLink(r, t) ==
    {q \in Requests \ {r} : \E l \in added[q] \cup removed[q] : SameKey(l, RowOf(r, t))}

HoldersOfTag(r, t) == {q \in Requests \ {r} : t \in newTags[q]}

\* The DELETE of one link, as it starts: of the row that is there now, if any.
DeleteLink(r, t) ==
    /\ pc[r] = "flush" /\ t \in clearing[r] /\ waiting[r] = Nil
    /\ LET rows == {l \in links : SameKey(l, RowOf(r, t))}
           free == {l \in rows : DeleterOf(r, l) = {}}
       IN  IF rows = free
           THEN /\ removed' = [removed EXCEPT ![r] = @ \cup rows]
                /\ clearing' = [clearing EXCEPT ![r] = @ \ {t}]
                /\ UNCHANGED waiting
           ELSE /\ \E l \in rows : waiting' = [waiting EXCEPT ![r] = l]
                /\ UNCHANGED <<removed, clearing>>
    /\ UNCHANGED <<store, pc, body, held, todo, appended, reply, newTags, added, met>>

\* ... and as it goes on after a wait: that row, or nothing if it is gone.
ResumeDelete(r) ==
    /\ waiting[r] # Nil /\ DeleterOf(r, waiting[r]) = {}
    /\ removed' = [removed EXCEPT ![r] = @ \cup ({waiting[r]} \cap links)]
    /\ clearing' = [clearing EXCEPT ![r] = @ \ {waiting[r].tag}]
    /\ waiting' = [waiting EXCEPT ![r] = Nil]
    /\ UNCHANGED <<store, pc, body, held, todo, appended, reply, newTags, added, met>>

\* The INSERT of the link appended last, unless agent.tags had it already.
InsertLink(r) ==
    LET t == appended[r]
        row == RowOf(r, t)
    IN  /\ pc[r] = "flush" /\ clearing[r] = {} /\ t # Nil
        /\ HoldersOfLink(r, t) = {}
        /\ \/ /\ \E l \in links \ removed[r] : SameKey(l, row)
              /\ End(r, "integrity")
           \/ /\ \A l \in links \ removed[r] : ~SameKey(l, row)
              /\ added' = [added EXCEPT ![r] = @ \cup {row}]
              /\ appended' = [appended EXCEPT ![r] = Nil]
              /\ UNCHANGED <<pc, body, held, clearing, waiting, todo, reply,
                             newTags, removed, met>>
        /\ UNCHANGED store

Flushed(r) == pc[r] = "flush" /\ clearing[r] = {} /\ appended[r] = Nil

\* Mutant: the name is looked up as it is spelled.
VisibleAsSpelled(r, name) ==
    name \in Tags /\ (tags[name] # Nil \/ name \in newTags[r])

\* A SELECT sees what is committed, and the rows of its own transaction.
Visible(r, name) == tags[Stored[name]] # Nil \/ Stored[name] \in newTags[r]

\* _get_or_create_tag looks for the tag ...
SelectTag(r) ==
    /\ Flushed(r) /\ todo[r] # <<>>
    /\ IF Visible(r, Head(todo[r]))
       THEN /\ appended' = [appended EXCEPT ![r] = Stored[Head(todo[r])]]
            /\ todo' = [todo EXCEPT ![r] = Tail(@)]
            /\ UNCHANGED pc
       ELSE /\ pc' = [pc EXCEPT ![r] = "create"]
            /\ UNCHANGED <<appended, todo>>
    /\ UNCHANGED <<store, body, held, clearing, waiting, reply, private, met>>

\* ... and the INSERT that db.flush() sends if it saw nothing.
CreateTag(r) ==
    LET t == Stored[Head(todo[r])]
    IN  /\ pc[r] = "create" /\ HoldersOfTag(r, t) = {}
        /\ \/ tags[t] # Nil /\ End(r, "integrity")
           \/ /\ tags[t] = Nil
              /\ newTags' = [newTags EXCEPT ![r] = @ \cup {t}]
              /\ appended' = [appended EXCEPT ![r] = t]
              /\ todo' = [todo EXCEPT ![r] = Tail(@)]
              /\ pc' = [pc EXCEPT ![r] = "flush"]
              /\ UNCHANGED <<body, held, clearing, waiting, reply, added, removed, met>>
        /\ UNCHANGED store

Persist(r) ==
    /\ tags' = [t \in Tags |-> IF t \in newTags[r] THEN r ELSE tags[t]]
    /\ links' = (links \ removed[r]) \cup added[r]

Commit(r) == Flushed(r) /\ todo[r] = <<>> /\ Persist(r) /\ End(r, "200")

\* Any await may raise.
Fail(r) == r \in Running /\ End(r, "failed") /\ UNCHANGED store

WaitsFor(r, q) ==
    \/ waiting[r] # Nil /\ q \in DeleterOf(r, waiting[r])
    \/ pc[r] = "create" /\ q \in HoldersOfTag(r, Stored[Head(todo[r])])
    \/ /\ pc[r] = "flush" /\ clearing[r] = {} /\ appended[r] # Nil
       /\ q \in HoldersOfLink(r, appended[r])

\* A request waits for one other at most: a cycle is a set that waits for itself.
InCycle(r) == \E S \in SUBSET Requests :
                 /\ r \in S
                 /\ \A p \in S : /\ \E q \in S : WaitsFor(p, q)
                                 /\ \E q \in S : WaitsFor(q, p)

\* The server finds the cycle after deadlock_timeout, in one of its members.
BreakDeadlock(r) == InCycle(r) /\ End(r, "deadlock") /\ UNCHANGED store

Step(r) == \/ \E t \in Tags : DeleteLink(r, t)
           \/ ResumeDelete(r) \/ InsertLink(r)
           \/ SelectTag(r) \/ CreateTag(r) \/ Commit(r)

Quiescent == (\A r \in Requests : pc[r] = "done") /\ UNCHANGED vars

Next == \/ \E r \in Requests : Load(r) \/ Step(r) \/ Fail(r) \/ BreakDeadlock(r)
        \/ Quiescent

Spec == Init /\ [][Next]_vars

\* Statements that are not blocked complete, and cycles of waits are broken.
FairSpec == Spec /\ \A r \in Requests : WF_vars(Step(r) \/ BreakDeadlock(r))
-------------------------------------------------------------------------------
Names(r) == {Stored[body[r].tags[i]] : i \in DOMAIN body[r].tags}

\* At its commit the links a request had loaded are gone, whoever deleted them
\* (agent.tags.clear()), and the agent has every tag of the list, whatever other
\* requests did to the same links - and no other tag if none ran beside it.
CommitsItsList ==
    [][\A r \in Requests : reply[r] = Nil /\ reply'[r] = "200" =>
          LET linked == {l.tag : l \in {k \in links' : k.agent = body[r].agent}}
          IN  /\ held[r] \cap links' = {}
              /\ Names(r) \subseteq linked
              /\ met[r] = {} => linked = Names(r)]_vars

\* A request that is refused for its tags met another one that named the same
\* agent or a tag in common: alone, every list of tags is accepted, repeated
\* and differently spelled names included.
RefusalNeedsOverlap ==
    \A r \in Requests : reply[r] \in {"integrity", "deadlock"} =>
       \E q \in met[r] : body[q].agent = body[r].agent \/ Names(q) \cap Names(r) # {}

\* Requests on different agents whose lists agree on an order of the tags
\* never deadlock: the names are taken in the order of the list.
InOrder(list, rank) == \A i, j \in DOMAIN list :
                          i < j => rank[Stored[list[i]]] <= rank[Stored[list[j]]]

DeadlockNeedsCrossedLists ==
    \A r \in Requests : reply[r] = "deadlock" =>
       LET party == met[r] \cup {r}
       IN  \/ \E p, q \in party : p # q /\ body[p].agent = body[q].agent
           \/ \A rank \in [Tags -> 1..Cardinality(Tags)] :
                 (\A t, u \in Tags : rank[t] = rank[u] => t = u)
                 => \E q \in party : ~InOrder(body[q].tags, rank)

\* Every request is answered, one that waits behind another's rows included.
EveryTaggingAnswered ==
    \A r \in Requests : pc[r] # "idle" ~> pc[r] = "done"
===============================================================================
