----------------------------- MODULE AgentRegistry -----------------------------
(***************************************************************************)
(* The write path of the agent registry: POST, PATCH and DELETE of         *)
(* /v1/agents (api/agents.py, services/agent_service.py) over PostgreSQL   *)
(* at READ COMMITTED.  Every request runs in a session of its own; each    *)
(* `await` of the handler is a step, so the requests interleave at every   *)
(* one of them.  A session keeps the attributes of a row as it first read  *)
(* them (SQLAlchemy's identity map), writes only the attributes that       *)
(* differ from that copy, and deletes only the child rows it holds.        *)
(*                                                                         *)
(* The agent a request registers is named after the request.  The rows of  *)
(* a child list (capabilities, endpoints) are named after the request that *)
(* inserted them: a request inserts and deletes such a list as a whole.    *)
(***************************************************************************)
EXTENDS Naturals, FiniteSets

CONSTANTS
    Requests,     \* HTTP requests, each sent once
    Publishers,
    Slugs,
    ShortIds,     \* the values secrets.token_hex(4) may return
    Versions,
    Kinds,        \* the child lists replaced as a whole
    MaxDraws,     \* short ids tried by one registration: 5 in the code
    Inputs,       \* the bodies the requests carry
    Nil           \* None, or no row

Statuses == {"active", "deprecated", "archived"}

\* What a handler gets: the publisher of its key, the path or the slug, and
\* the optional fields (version and status stand for the scalar ones).
AllInputs ==
    [op : {"register", "update", "archive"}, caller : Publishers,
     owner : Publishers, slug : Slugs, version : Versions \cup {Nil},
     status : Statuses \cup {Nil}, lists : SUBSET Kinds]

ASSUME InputsAssumption ==
    /\ Inputs \subseteq AllInputs
    /\ \A i \in Inputs : i.op = "register" =>
          i.owner = i.caller /\ i.version # Nil /\ i.status # Nil

ASSUME MaxDrawsAssumption == MaxDraws \in Nat \ {0}

Row == [owner : Publishers, slug : Slugs, shortId : ShortIds,
        version : Versions, status : Statuses]

Copy == [agent : Requests, version : Versions, status : Statuses]

ASSUME NilAssumption ==
    /\ Nil \notin Row /\ Nil \notin Copy /\ Nil \notin AllInputs
    /\ Nil \notin Versions /\ Nil \notin Statuses /\ Nil \notin ShortIds

VARIABLES
    \* the session of each request
    pc, req,
    seen,         \* its copy of the target's columns, or Nil
    seenRows,     \* its copy of the target's child lists
    unread,       \* the child lists it has still to select
    shortId, draws,
    reply,
    \* the committed database
    agents,       \* the agents table
    rows,         \* agent -> child list -> the requests whose rows it holds
    snapshots     \* the agent_versions table

session == <<pc, req, seen, seenRows, unread, shortId, draws, reply>>
store   == <<agents, rows, snapshots>>
vars    == <<session, store>>

Success == [op \in {"register", "update", "archive"} |->
               CASE op = "register" -> "201"
                 [] op = "update"   -> "200"
                 [] op = "archive"  -> "204"]

\* "integrity": a unique constraint fires, nothing catches it (500).
\* "failed": the connection, the pool or the client gives up (500 or none).
Replies == {"200", "201", "204", "403", "404", "409", "integrity", "failed"}

ASSUME NoReplyAssumption == Nil \notin Replies

TypeOK ==
    /\ pc \in [Requests -> {"idle", "auth", "draw", "insert", "inserted",
                            "found", "committed", "done"}]
    /\ req \in [Requests -> Inputs \cup {Nil}]
    /\ seen \in [Requests -> Copy \cup {Nil}]
    /\ seenRows \in [Requests -> [Kinds -> SUBSET Requests]]
    /\ unread \in [Requests -> SUBSET Kinds]
    /\ shortId \in [Requests -> ShortIds \cup {Nil}]
    /\ draws \in [Requests -> 0..MaxDraws]
    /\ reply \in [Requests -> Replies \cup {Nil}]
    /\ agents \in [Requests -> Row \cup {Nil}]
    /\ rows \in [Requests -> [Kinds -> SUBSET Requests]]
    /\ snapshots \in SUBSET [agent : Requests, version : Versions, by : Requests]

Init ==
    /\ pc = [r \in Requests |-> "idle"]
    /\ req = [r \in Requests |-> Nil]
    /\ seen = [r \in Requests |-> Nil]
    /\ seenRows = [r \in Requests |-> [k \in Kinds |-> {}]]
    /\ unread = [r \in Requests |-> {}]
    /\ shortId = [r \in Requests |-> Nil]
    /\ draws = [r \in Requests |-> 0]
    /\ reply = [r \in Requests |-> Nil]
    /\ agents = [a \in Requests |-> Nil]
    /\ rows = [a \in Requests |-> [k \in Kinds |-> {}]]
    /\ snapshots = {}
-------------------------------------------------------------------------------
\* The agents a SELECT by publisher slug and agent slug returns.
Holders(owner, slug) ==
    {a \in Requests : agents[a] # Nil /\ agents[a].owner = owner
                                      /\ agents[a].slug = slug}

CopyOf(a) == [agent |-> a, version |-> agents[a].version,
              status |-> agents[a].status]

Answer(r, code) == /\ pc' = [pc EXCEPT ![r] = "done"]
                   /\ reply' = [reply EXCEPT ![r] = code]

\* The request is authenticated.  Loading the caller loads the columns of its
\* agents too (Publisher.agents is selectin), hence those of the target.
Arrive(r) ==
    /\ pc[r] = "idle"
    /\ \E i \in Inputs :
         LET mine == {a \in Holders(i.owner, i.slug) :
                         i.op # "register" /\ i.owner = i.caller}
         IN  /\ req' = [req EXCEPT ![r] = i]
             /\ \/ mine = {} /\ UNCHANGED <<seen, unread>>
                \/ \E a \in mine :
                     /\ seen' = [seen EXCEPT ![r] = CopyOf(a)]
                     /\ unread' = [unread EXCEPT ![r] = Kinds]
    /\ pc' = [pc EXCEPT ![r] = "auth"]
    /\ UNCHANGED <<seenRows, shortId, draws, reply, store>>

\* The SELECT of one child list of an agent just loaded.
ReadRows(r, k) ==
    /\ pc[r] \in {"auth", "found"}
    /\ k \in unread[r]
    /\ seenRows' = [seenRows EXCEPT ![r][k] = rows[seen[r].agent][k]]
    /\ unread' = [unread EXCEPT ![r] = @ \ {k}]
    /\ UNCHANGED <<pc, req, seen, shortId, draws, reply, store>>

\* register_agent looks for a conflict.
CheckSlug(r) ==
    /\ pc[r] = "auth" /\ req[r].op = "register"
    /\ IF Holders(req[r].owner, req[r].slug) # {}
       THEN Answer(r, "409")
       ELSE pc' = [pc EXCEPT ![r] = "draw"] /\ UNCHANGED reply
    /\ UNCHANGED <<req, seen, seenRows, unread, shortId, draws, store>>

\* Mutant: the handlers do not compare the owner with the caller.
FindTargetOfAnyone(r) ==
    LET found == Holders(req[r].owner, req[r].slug)
    IN  /\ pc[r] = "auth" /\ req[r].op # "register" /\ unread[r] = {}
        /\ \E a \in found :
             /\ pc' = [pc EXCEPT ![r] = "found"]
             /\ seen' = [seen EXCEPT ![r] = CopyOf(a)]
             /\ unread' = [unread EXCEPT ![r] = Kinds]
        /\ UNCHANGED <<req, seenRows, shortId, draws, reply, store>>

\* update_agent and archive_agent look for their target; a row the session
\* already holds keeps the values of the first read.
FindTarget(r) ==
    LET found == Holders(req[r].owner, req[r].slug)
    IN  /\ pc[r] = "auth" /\ req[r].op # "register" /\ unread[r] = {}
        /\ \/ /\ found = {}
              /\ Answer(r, "404")
              /\ UNCHANGED <<seen, unread>>
           \/ /\ found # {} /\ req[r].owner # req[r].caller
              /\ Answer(r, "403")
              /\ UNCHANGED <<seen, unread>>
           \/ \E a \in found :
                /\ req[r].owner = req[r].caller
                /\ pc' = [pc EXCEPT ![r] = "found"]
                /\ IF seen[r] = Nil
                   THEN /\ seen' = [seen EXCEPT ![r] = CopyOf(a)]
                        /\ unread' = [unread EXCEPT ![r] = Kinds]
                   ELSE UNCHANGED <<seen, unread>>
                /\ UNCHANGED reply
        /\ UNCHANGED <<req, seenRows, shortId, draws, store>>
-------------------------------------------------------------------------------
\* Mutant: a loop that is counted but never given up.
DrawOneMore(r) ==
    /\ pc[r] = "draw"
    /\ \E s \in ShortIds :
         LET taken == \E a \in Requests : agents[a] # Nil /\ agents[a].shortId = s
         IN  /\ shortId' = [shortId EXCEPT ![r] = s]
             /\ pc' = [pc EXCEPT ![r] =
                         IF taken /\ draws[r] < MaxDraws THEN "draw" ELSE "insert"]
    /\ draws' = [draws EXCEPT ![r] = @ + 1]
    /\ UNCHANGED <<req, seen, seenRows, unread, reply, store>>

\* Mutant: `while True` in place of the counted loop.
DrawForever(r) ==
    /\ pc[r] = "draw"
    /\ \E s \in ShortIds :
         LET taken == \E a \in Requests : agents[a] # Nil /\ agents[a].shortId = s
         IN  /\ shortId' = [shortId EXCEPT ![r] = s]
             /\ pc' = [pc EXCEPT ![r] = IF taken THEN "draw" ELSE "insert"]
    /\ UNCHANGED <<req, seen, seenRows, unread, draws, reply, store>>

\* create_agent draws a short id until one is free, MaxDraws times at most;
\* the last one is used whether it is free or not.
DrawShortId(r) ==
    /\ pc[r] = "draw"
    /\ \E s \in ShortIds :
         LET taken == \E a \in Requests : agents[a] # Nil /\ agents[a].shortId = s
         IN  /\ shortId' = [shortId EXCEPT ![r] = s]
             /\ pc' = [pc EXCEPT ![r] =
                         IF taken /\ draws[r] + 1 < MaxDraws THEN "draw" ELSE "insert"]
    /\ draws' = [draws EXCEPT ![r] = @ + 1]
    /\ UNCHANGED <<req, seen, seenRows, unread, reply, store>>

NewRow(r) == [owner |-> req[r].owner, slug |-> req[r].slug,
              shortId |-> shortId[r], version |-> req[r].version,
              status |-> req[r].status]

SameKey(c, d) == \/ c.shortId = d.shortId
                 \/ c.owner = d.owner /\ c.slug = d.slug

\* Mutant: no unique index on short_id.
TakenByName(r) == \E a \in Requests : /\ agents[a] # Nil
                                      /\ agents[a].owner = req[r].owner
                                      /\ agents[a].slug = req[r].slug

\* Unique constraints: a committed row refuses the insert ...
Taken(r) == \E a \in Requests : agents[a] # Nil /\ SameKey(agents[a], NewRow(r))

\* ... and a row that another transaction has not yet committed makes it wait.
Contended(r) == \E q \in Requests : pc[q] = "inserted" /\ SameKey(NewRow(q), NewRow(r))

InsertAgent(r) ==
    /\ pc[r] = "insert"
    /\ \/ /\ Taken(r)
          /\ Answer(r, "integrity")
       \/ /\ ~Taken(r) /\ ~Contended(r)
          /\ pc' = [pc EXCEPT ![r] = "inserted"]
          /\ UNCHANGED reply
    /\ UNCHANGED <<req, seen, seenRows, unread, shortId, draws, store>>

\* Mutant: the first version of an agent gets no snapshot.
CommitRegisterWithoutSnapshot(r) ==
    /\ pc[r] = "inserted"
    /\ agents' = [agents EXCEPT ![r] = NewRow(r)]
    /\ rows' = [rows EXCEPT ![r] = [k \in Kinds |-> {r}]]
    /\ pc' = [pc EXCEPT ![r] = "committed"]
    /\ UNCHANGED <<req, seen, seenRows, unread, shortId, draws, reply, snapshots>>

CommitRegister(r) ==
    /\ pc[r] = "inserted"
    /\ agents' = [agents EXCEPT ![r] = NewRow(r)]
    /\ rows' = [rows EXCEPT ![r] = [k \in Kinds |-> {r}]]
    /\ snapshots' = snapshots \cup {[agent |-> r, version |-> req[r].version, by |-> r]}
    /\ pc' = [pc EXCEPT ![r] = "committed"]
    /\ UNCHANGED <<req, seen, seenRows, unread, shortId, draws, reply>>
-------------------------------------------------------------------------------
\* Mutant: compared after the assignment to agent.version.
VersionChangedTooLate(r) ==
    LET assigned == IF req[r].version = Nil THEN seen[r].version ELSE req[r].version
    IN  req[r].version # Nil /\ req[r].version # assigned

\* Mutant: any version that is given counts as a change.
VersionGiven(r) == req[r].version # Nil

\* Against the copy, not against the table.
VersionChanged(r) == req[r].version # Nil /\ req[r].version # seen[r].version

\* Mutant: only the version now published is refused, not the earlier ones.
VersionTakenNow(r) == agents[seen[r].agent].version = req[r].version

VersionTaken(r) == \E s \in snapshots : s.agent = seen[r].agent
                                        /\ s.version = req[r].version

\* Mutant: the whole row is written back, unchanged columns included.
WrittenBack(new, copy, current) == IF new = Nil THEN copy ELSE new

\* The value of a column after the flush: an attribute that equals the copy
\* is not part of the UPDATE.
Written(new, copy, current) == IF new \in {Nil, copy} THEN current ELSE new

Updated(r, row) ==
    [row EXCEPT !.version = Written(req[r].version, seen[r].version, @),
                !.status  = Written(req[r].status, seen[r].status, @)]

\* Mutant: a PATCH appends to a list.
AppendRows(r, k, current) ==
    IF k \in req[r].lists THEN current \cup {r} ELSE current

\* The rows of a list after r's DELETEs and INSERTs.
ReplaceRows(r, k, current) ==
    IF k \in req[r].lists THEN (current \ seenRows[r][k]) \cup {r} ELSE current

\* Mutant: the statements before the one that fails are not rolled back.
CommitUpdateByStatement(r) ==
    LET a == seen[r].agent
        refused == VersionChanged(r) /\ VersionTaken(r)
    IN  /\ pc[r] = "found" /\ req[r].op = "update" /\ unread[r] = {}
        /\ rows' = [rows EXCEPT
             ![a] = [k \in Kinds |-> ReplaceRows(r, k, rows[a][k])]]
        /\ IF refused
           THEN Answer(r, "integrity") /\ UNCHANGED <<agents, snapshots>>
           ELSE /\ agents' = [agents EXCEPT ![a] = Updated(r, @)]
                /\ snapshots' = snapshots \cup
                     (IF VersionChanged(r)
                      THEN {[agent |-> a, version |-> req[r].version, by |-> r]}
                      ELSE {})
                /\ pc' = [pc EXCEPT ![r] = "committed"]
                /\ UNCHANGED reply
        /\ UNCHANGED <<req, seen, seenRows, unread, shortId, draws>>

\* update_agent: the flush writes the attributes that differ from the copy,
\* the child rows and the snapshot, and the commit follows.
CommitUpdate(r) ==
    LET a == seen[r].agent
    IN  /\ pc[r] = "found" /\ req[r].op = "update" /\ unread[r] = {}
        /\ IF VersionChanged(r) /\ VersionTaken(r)
           THEN Answer(r, "integrity") /\ UNCHANGED store
           ELSE /\ agents' = [agents EXCEPT ![a] = Updated(r, @)]
                /\ rows' = [rows EXCEPT
                     ![a] = [k \in Kinds |-> ReplaceRows(r, k, rows[a][k])]]
                /\ snapshots' = snapshots \cup
                     (IF VersionChanged(r)
                      THEN {[agent |-> a, version |-> req[r].version, by |-> r]}
                      ELSE {})
                /\ pc' = [pc EXCEPT ![r] = "committed"]
                /\ UNCHANGED reply
        /\ UNCHANGED <<req, seen, seenRows, unread, shortId, draws>>

Archived(r, row) ==
    [row EXCEPT !.status = Written("archived", seen[r].status, @)]

\* archive_agent assigns one attribute and commits.
CommitArchive(r) ==
    LET a == seen[r].agent
    IN  /\ pc[r] = "found" /\ req[r].op = "archive" /\ unread[r] = {}
        /\ agents' = [agents EXCEPT ![a] = Archived(r, @)]
        /\ pc' = [pc EXCEPT ![r] = "committed"]
        /\ UNCHANGED <<req, seen, seenRows, unread, shortId, draws, reply, rows, snapshots>>

\* db.refresh and the response.
Respond(r) ==
    /\ pc[r] = "committed"
    /\ Answer(r, Success[req[r].op])
    /\ UNCHANGED <<req, seen, seenRows, unread, shortId, draws, store>>

\* Any await may raise: the session rolls back what it has not committed.
Fail(r) ==
    /\ pc[r] \notin {"idle", "done"}
    /\ Answer(r, "failed")
    /\ UNCHANGED <<req, seen, seenRows, unread, shortId, draws, store>>
-------------------------------------------------------------------------------
\* The steps of a handler that is running.
Handle(r) == \/ \E k \in Kinds : ReadRows(r, k)
             \/ CheckSlug(r)
             \/ FindTarget(r)
             \/ DrawShortId(r)
             \/ InsertAgent(r)
             \/ CommitRegister(r)
             \/ CommitUpdate(r)
             \/ CommitArchive(r)
             \/ Respond(r)

\* All requests have been answered.
Quiescent == (\A r \in Requests : pc[r] = "done") /\ UNCHANGED vars

Next == \/ \E r \in Requests : Arrive(r) \/ Handle(r) \/ Fail(r)
        \/ Quiescent

Spec == Init /\ [][Next]_vars

\* The event loop runs every handler whose await has completed.
FairSpec == Spec /\ \A r \in Requests : WF_vars(Handle(r))
-------------------------------------------------------------------------------
\* A (publisher, slug) pair and a short id name one agent at most, although
\* the check for a conflict and the insert are separate steps
\* (uq_agent_publisher_slug and the unique index on short_id).
NamesAreUnique ==
    \A a, b \in Requests : a # b /\ agents[a] # Nil /\ agents[b] # Nil
                              => ~SameKey(agents[a], agents[b])

\* The version an agent shows always has its snapshot, whatever stale copies
\* its updates were computed from (version_changed in update_agent).
CurrentVersionHasSnapshot ==
    \A a \in Requests : agents[a] # Nil =>
       \E s \in snapshots : s.agent = a /\ s.version = agents[a].version

\* A published version is preserved as one immutable snapshot: no second
\* request ever writes one for the same agent and version (uq_agent_version).
OneSnapshotPerVersion ==
    \A s, t \in snapshots : s.agent = t.agent /\ s.version = t.version => s = t

\* Two requests' rows share a list of an agent only if neither had read the
\* other's: a PATCH that starts after another one ended replaces its rows.
OnlyOverlappingWritersMix ==
    \A a \in Requests, k \in Kinds : \A q, r \in rows[a][k] :
       q # r => q \notin seenRows[r][k] /\ r \notin seenRows[q][k]

\* What a success reply told the client is in the database, and stays there:
\* the agent under its name, and a snapshot of the version it published.
AcknowledgedIsStored ==
    \A r \in Requests :
       /\ reply[r] = "201" =>
            /\ agents[r] # Nil
            /\ agents[r].owner = req[r].caller /\ agents[r].slug = req[r].slug
            /\ \E s \in snapshots : s.agent = r /\ s.version = req[r].version
       /\ reply[r] = "200" /\ req[r].version # Nil =>
            \E s \in snapshots : s.agent \in Holders(req[r].owner, req[r].slug)
                                 /\ s.version = req[r].version

\* The status a request asks for, Nil if none.
Asked(r) == IF req[r].op = "archive" THEN "archived" ELSE req[r].status

\* The present status of a is one that q wrote, as it had read another one.  (A
\* request that failed may have committed before.)
StatusSetBy(q, a) ==
    /\ pc[q] \in {"committed", "done"} /\ reply[q] # "integrity"
    /\ seen[q] # Nil /\ seen[q].agent = a
    /\ Asked(q) \notin {Nil, seen[q].status}
    /\ Asked(q) = agents[a].status

\* An acknowledged archive or change of status stands until another request
\* asks for the status there is then, one that differs from its own copy: no
\* update of other fields brings an old status back, and none that asks for
\* what its stale copy shows (update_agent, archive_agent).
AcknowledgedStatusHolds ==
    \A r \in Requests : reply[r] \in {"200", "204"} /\ Asked(r) # Nil =>
       \/ agents[seen[r].agent].status = Asked(r)
       \/ \E q \in Requests : StatusSetBy(q, seen[r].agent)

\* A request refused with 403, 404, 409 or by a constraint wrote nothing: no
\* agent, no snapshot and no child row of it is visible.
RefusedLeavesNoTrace ==
    \A r \in Requests : reply[r] \in {"403", "404", "409", "integrity"} =>
       /\ agents[r] = Nil
       /\ \A s \in snapshots : s.by # r
       /\ \A a \in Requests, k \in Kinds : r \notin rows[a][k]

\* A step that changes an agent, its lists or its snapshots belongs to a
\* request of the publisher that owns the agent (the 403 of both handlers).
ChangesAgent(a) == \/ agents'[a] # agents[a]
                   \/ rows'[a] # rows[a]
                   \/ \E s \in snapshots' \ snapshots : s.agent = a

OnlyOwnerWrites ==
    [][\A a \in Requests : ChangesAgent(a) =>
          \E r \in Requests : /\ pc[r] # pc'[r] /\ req[r] # Nil
                              /\ req[r].caller = agents'[a].owner]_vars

\* Every request that was authenticated is answered, one blocked behind
\* another's uncommitted insert and one that keeps drawing taken ids included.
EveryRequestAnswered ==
    \A r \in Requests : pc[r] # "idle" ~> pc[r] = "done"

\* The registry implements the catalogue: cards are never removed or renamed,
\* and no version of an agent is ever published twice or returned to.
Catalog == INSTANCE AgentCatalog WITH
              Agents  <- Requests,
              catalog <- agents,
              history <- {<<s.agent, s.version>> : s \in snapshots}

ImplementsCatalog == Catalog!Spec
===============================================================================
