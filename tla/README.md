# Open Agent Registry: TLA+ models and proofs

This directory holds TLA+ modules that model the Open Agent Registry (`src/`),
configurations that check them with TLC, and proofs checked by TLAPS. The
registry is a FastAPI service over PostgreSQL, with a command-line client.
Agents are registered by publishers, who hold API keys; other agents find them
with a structured match and then ask for their connection info.

The code is asynchronous and keeps nothing in memory between requests, so what
is hard in it is what happens between two `await`s: a handler reads rows, waits,
decides on what it read, and writes. The models make each such wait a place
where any other request may run.

## The system

| Component | State | Operations | Hard behaviour |
|---|---|---|---|
| Agent registry, write path (`api/agents.py`, `services/agent_service.py`, `models/agent.py`) | tables `agents`, `capabilities`, `agent_endpoints`, `agent_versions`; per request a session with its copies of rows | register, update, archive | check-then-insert races, decisions on stale copies, lists replaced by the rows of a stale copy, unique constraints that answer 500, failure after commit |
| API keys and authentication (`dependencies.py`, `auth/api_key.py`, `api/api_keys.py`, `services/api_key_service.py`) | table `api_keys` | authenticate, create, enable or disable, delete, get, list | a status written over a row read earlier, two keys with one prefix, self-lockout |
| Usage logging (`middleware/usage.py`) | table `api_key_usage_logs`, `api_keys.last_used_at` | a log row after every response | the key is looked up a second time, after the handler changed it; failures are swallowed |
| Publishers (`api/publishers.py`, `services/publisher_service.py`) | table `publishers` | register with a default key | two inserts in one transaction, unique slug |
| Match and stage 2 (`services/match_service.py`, `api/match.py`, `api/agents.py`) | none | match, connection info, batch | three SELECTs that see three databases; no ORDER BY |
| Taxonomy (`taxonomy.py`) | a constant tree of codes | prefix match, score | truncation, bounds |
| Tags (`models/tag.py`, `_get_or_create_tag`) | tables `tags`, `agent_tags` | get or create, replace an agent's tags | create races, deadlock between two sets of new tags, diffs against a stale copy |
| Usage statistics (`services/api_key_service.py`) | reads the log | summary, log pages | two statements that disagree, pages that shift |
| Listing (`list_agents`) | reads agents | filter, count, page | count and page disagree, duplicates from a join, no order |
| CLI publish and register (`cli/commands`) | none | create, then update on 409 | a 30 s timeout racing the answer; two publisher names |
| CLI configuration (`cli/client.py`) | one TOML file | load, save | truncated and rewritten in place |
| Sessions and pool (`database.py`) | connections | one session per request, a second one for the log | everyone holding one connection and waiting for another |
| Migrations (`migrations/`, `start.sh`) | schema, version row | upgrade, downgrade, start the server after an upgrade | two runs at once, a failure halfway, a failure nobody notices; downgrade and upgrade bring back old keys |
| Compact format, manifest schema, wiring, health, read-only CLI commands | none | pure functions, one request each | none |

Components interact through the database only. A request first authenticates
(`get_current_publisher`), then runs its handler in the same session, and the
middleware opens a second session once the handler has answered. The match
reads what the write path commits, one statement at a time.

What makes them correct: names of agents are unique and never change hands; what
was acknowledged is stored and what was refused is not; the version history
agrees with the agent; only the owner writes; a key acts for its owner only, and
usage is charged to the key presented; a match returns the best of what fits.

## Modules

| Module | Models | Kind |
|---|---|---|
| `AgentCatalog` | what the registry promises: atomic registrations under a fresh name, atomic revisions, a published version never published again | abstract specification |
| `AgentRegistry` | register, update and archive with their sessions | state machine, implements `AgentCatalog` |
| `AgentRegistry_proofs` | types, names, snapshots, refinement; lists, owners, acknowledged and refused requests | proofs |
| `ApiKeys` | authentication, key routes, publisher registration, usage logging | state machine |
| `ApiKeys_proofs` | types, attribution, ownership, lockout, what is logged | proofs |
| `Discovery` | match with its reads, then the connection info of a result | state machine against a changing database |
| `UsageStats` | the usage summary and log pages, read while the key is used | state machine |
| `Publish` | `oar register` and `oar publish` as clients of `AgentRegistry`, which it extends | composition |
| `TagStore` | the tags of agents: get-or-create, replaced lists, locks and deadlocks | state machine |
| `Listing` | a client that reads `GET /v1/agents` page by page | state machine against a changing database |
| `Migrations` | Alembic runs over one database, `start.sh`, a server in use | state machine |
| `Discovery_proofs`, `UsageStats_proofs`, `Publish_proofs`, `TagStore_proofs`, `Listing_proofs`, `Migrations_proofs` | the invariants of these modules | proofs |
| `MCAgentRegistry`, `MCApiKeys`, `MCDiscovery`, `MCUsageStats`, `MCPublish`, `MCTagStore`, `MCListing`, `MCMigrations` | the instances TLC checks | model checking |

Each definition that translates code has its lines in `PROJECT.json` under
`map`. The definitions commented as *Mutant* are plausible bugs; each one is
paired there with a property it breaks.

### How the state corresponds to the code

`AgentRegistry`. `agents`, `rows` and `snapshots` are the committed tables. An
agent is identified with the request that registers it, and the rows of a child
list with the request that inserted them, since a request inserts and deletes
such a list as a whole. `seen` and `seenRows` are the identity map of a session:
SQLAlchemy returns a row it holds with the values of the first read, an UPDATE
names only the attributes that differ from them (`Written`), and the
DELETEs only the rows held (`ReplaceRows`). The authentication loads the
publisher's agents (`lazy="selectin"`), so the copy can be older than the
handler's own SELECT; `Arrive` does that. `version` and `status` stand for the
scalar columns; version is the one that decides about snapshots, status the one
two handlers assign. `Contended` is PostgreSQL making an INSERT wait for another
transaction with the same key. `Fail` is any exception at any `await`, before
the commit or after it. The status codes and `integrity` (an `IntegrityError`
nobody catches, a 500) are the replies.

Commits are one step: the statements of a flush take row locks in the order of
tables and rows, and nothing in between is visible at READ COMMITTED. Tags are
left out here; what they add to an update are further ways to fail, which `Fail`
covers, and their own races, which are `TagStore`.

`ApiKeys`. `owner` and `status` are the columns of `api_keys`; a key and its
token are one value and `PrefixOf` gives the eight characters looked up. `seen`
is the session's copy of the target; for the caller's own key it is the row
read at authentication. `Answer` is the response reaching the middleware,
`RaiseError` an exception passing through it (no log). `LogLookup` and
`LogWrite` are the two halves of `_log_usage`. `Serve` stands for every handler
that leaves keys alone, in `call` behind authentication and in `public` without.
`Databases` are the tables the server may start on.

`Discovery`. One client, three statements, `Change` for any transaction of the
write path that commits meanwhile. `found` are the rows of the first SELECT; as
nothing orders them, the stable sort may put agents of equal score in any order
(`TopAgents` gives all of them), and the limit is applied after the sort on the read
mixture. Codes
are sequences of segments, so that `startswith(prefix + ".")` is `IsPrefix`. One code
of the instance continues another one: POST and PATCH accept any string as a code
(only manifests are validated), though the built-in taxonomy has no such pair. The
score is computed with integer division; for lists of fewer than 70 codes the
truncated floating-point expression of the code gives the same numbers. `past`
is a history variable: the cards each agent has had since the query arrived.

`UsageStats`. `log` holds the rows of one key in the order of their commits; a
row is known by its place there. `Stamp` and `LogCall` are the end of
`_log_usage`: it takes the time (`called_at` and `last_used_at` are read from the
clock one after the other, here once) and commits both, in any order among
requests. A client with the role "walk" asks for page after page, each a request
of its own that is logged before its response leaves; it stops at a page that
is not full. `LogNothing` also stands for clients that call with another key.
`Newest` leaves the order of rows with equal `called_at` open, as the query
does. The sums of bytes and tokens and the counts of status classes come from
the statement that counts the rows and are left out.

`Publish`. The variables of `AgentRegistry` are the server; `stage`, `command`,
`call` and `outcome` are a terminal with one command in it. `PostBody` and
`PatchBody` are the two payloads: the key decides who publishes, the manifest
whose agent is patched. `GiveUp` is the time-out of the HTTP client after
30 s; the request it leaves behind is handled like any other, and `Deliver` may
even come after it. `rivals` is a history variable: the requests of others, or
abandoned ones of its own, that could interfere with a command.

`TagStore`. `tags` and `links` are the tables, `newTags`, `added` and `removed`
the uncommitted rows of each transaction. A list is not written at the commit:
the SELECT of `_get_or_create_tag` flushes what is pending (`Flushed`), so DELETEs
and INSERTs come one by one, each waiting for whoever holds its key (`WaitsFor`).
A DELETE that waited finds its row gone and goes on, with nothing deleted
(`ResumeDelete`); an INSERT that waited is refused. `BreakDeadlock` is PostgreSQL
failing one member of a cycle. A PATCH that changes columns of the agent as well
takes a lock on the agent's row at its first flush; two such requests on one
agent meet there, in one order, so they have fewer interleavings than here.

`Listing`. `cards` are the agents as the write path commits them, `picked` the
rows of the page: an agent is one row without a protocol filter, and one for
each of its endpoints that speaks the protocol with one. As nothing orders the
query, `SelectPage` takes any rows of the right number. `status` stands for the
columns read with the page, `endpoints` and `tags` for the relationships that
are loaded by later statements (capabilities and publisher are loaded the same
way). A card has the words of its name and those of its description, of which the
query searches the second (`Fits`). `Lower` is what the query does to a tag: a blank is not stripped, though
it is when a tag is stored, so that "py " finds nothing.

`Migrations`. The scripts are sequences of statements, run one by one in the
transaction that `env.py` opens around all of them. `created`, `dropped` and
`copied` are uncommitted; `Locked` are the tables a statement has locked, with
those its foreign keys name, since both adding and dropping such a key lock the
table it refers to. `Refuse` is a statement PostgreSQL rejects, `Fail` a run that
ends before its commit. `Launch` is start.sh going on to start the server. The
server is three requests that register publishers and change keys.

## Runs

| Run | Question | Result |
|---|---|---|
| `registry_race` | do names stay unique, are acknowledged writes kept and is every request answered when registrations race? | holds |
| `registry_stale` | what do stale copies do to versions, lists, the status and refused requests; does the registry implement the catalogue? | holds |
| `keys` | who changes keys, who is charged and when is nobody, can a locked-out publisher come back? | holds, with the exceptions `UsageIsRecorded` names |
| `keys_undelete` | is deletion final? | violated: a PATCH that read the key, then disabled, before the deletion makes it active |
| `discovery` | are results filtered, ranked and cut as asked, active agents and codes by prefix? | holds for steady agents, and in parts for the others |
| `discovery_stage2` | does stage 2 give an endpoint of the matched protocol? | violated: it gives the first row |
| `usage` | what does a reader of a growing log get? | holds: a summary's parts disagree in one direction, a walk misses nothing and ends |
| `publish` | does what `oar publish` reports agree with the registry, and when may it be refused? | holds, with the exceptions `QuietPublishSucceeds` names |
| `tags` | what do overlapping requests make of an agent's tags, when are they refused or deadlocked? | holds: every refusal needs another request on the same agent or tag |
| `listing` | what does a page show of agents that change, and do pages and total agree? | holds |
| `migrations` | do races, failures and downgrades leave a whole schema and a key for everyone? | holds |
| `start_unchecked` | is the schema up to date when start.sh says so? | violated: the status of Alembic is lost in a pipe |

The violated ones are disagreements between the code and what its comments or
guide say; `PROJECT.json` quotes the lines under `findings`.

That no version has two snapshots (`OneSnapshotPerVersion`) is proved and has no place
in the runs: `ImplementsCatalog` fails when a version is published twice, as
the catalogue's history does not allow it.

Some passing properties are what is left of a promise, and name its exceptions,
each of which TLC shows to be needed. `OnlyOverlappingWritersMix`: overlapping
updates leave an agent with the union of their lists, other updates do not.
`UsageIsRecorded`: a request that disables or deletes its own key, or whose key
another request changes meanwhile, is not charged, though the middleware promises to
"Log usage for every request authenticated with an API key". `PartsWereOffered`: an
agent that changes between the statements of a match may be returned although no
state of it met the query. `AcknowledgedStatusHolds`: an acknowledged archive gives way
to a PATCH that asks for another status, also to one that read the agent before;
it does not give way to a PATCH of other fields. `QuietPublishSucceeds`: publishing a version the agent
had before is answered with 500, since the constraint on versions refuses the
snapshot, though the guide calls `oar publish` idempotent. `DeadlockNeedsCrossedLists`:
lists that name tags in different orders, or two requests on one agent, can
deadlock. `PagesAgreeWithTotal`: an agent with two endpoints of the protocol asked
for is counted, and may be listed, twice. `ShortPageIsComplete`: only a first page that
is not full is complete, under the filters as the code has them; of the later pages
nothing can be said, since nothing orders the query and `SelectPage` may show an agent
on two of them and another one on none.

### Where the code and its documents disagree

Three disagreements take several steps or an interleaving to show, and are the
violated runs above. Four more are the plain reading of one statement of the code, so
that a run would say no more than the line does. The models follow the code, and
the properties named here are stated for what the code does:

- *Deprecated agents are not discoverable.* `docs/guide.md:752` says of deprecating an
  agent "still discoverable, but signals it should be replaced", and line 761 has only
  archiving take it out: "removed from discovery results". `match_service.py:27` selects
  active agents only; a deprecated agent is found by `GET /v1/agents` alone, when it is
  asked for `status=deprecated`. `SteadyAgentsAreRanked` and `PartsWereOffered` hold for
  active agents and say that no other one is returned.
- *A full code is a prefix.* `docs/guide.md:481` says that the query `code.review` matches
  "Only agents with exactly `code.review`"; `match_all` (`taxonomy.py:94`) also takes an
  agent that has nothing but `code.review.deep`, as its own comment says ("exact or
  prefix match"). No code of the built-in taxonomy continues another one, but POST and
  PATCH accept any string as a code, and the instance has such a pair.
  `SteadyAgentsAreRanked` and `PartsWereOffered` read codes as prefixes.
- *The text filter does not search names.* `docs/guide.md:895` says of `q` "Full-text
  search in name + description"; `agent_service.py:164` searches the description only
  (all that line 368 of the guide promises). The cards of `Listing` have the words of
  both, and in the instance an agent with the word in its name only is left out of a page
  that is not full. `ItemsWereStored` and `ShortPageIsComplete` mean by the filters
  those of the code.
- *A downgrade and an upgrade bring deleted keys back.* `api_keys.py:99` says of a
  deletion "This cannot be undone"; `002_api_keys.py:75` inserts the first key of every
  publisher as active, from columns that deleting it does not touch. `Migrations` does
  the same, and `EveryPublisherHasItsFirstKey` asks for a first key, not for its status.

### Bounds

*Registry.* Three requests in `registry_race`, four in `registry_stale`: the
hazards need an agent to meet on, a first writer, a second one with a stale copy
and one that comes after them. In `registry_race` two publishers, two slugs and
two short ids make collisions in one, the other, both or none; in
`registry_stale` there is one agent, three versions (two concurrent new ones
and a return to the old one), one list and one short id. `MaxDraws` is 5 in the
code; 1 and 2 reach both ends of the loop. The proofs hold for all values.

*Keys.* Three requests over two publishers with keys, a third that joins, a
registration of a slug that is taken, four
keys of which two share a prefix, and three databases in which keys are active,
disabled or deleted. `keys_undelete` starts with a disabled key: a PATCH that asks for
the status it has read writes nothing, so that only such a key can be made
*active* over its deletion.

*Discovery.* Three agents, seven cards (active, deprecated, archived, with zero
to two endpoints and capabilities), four codes, five queries that use each filter, and two
changes (`MaxChanges`) during a request: one before and one after a read, or two
agents at once. Limits of 1, 2 and 3 are below, at and above what can match.

*Usage.* One reader, two more requests that use the key, three initial logs of
zero to three rows, pages of two rows, one listed endpoint of two, four times.
A walk takes up to four pages, its own rows included; times collide and
commit out of order. Two provisos of `WalkMissesNothing` are needed: without the
one on equal times, or with a client that stops when `total` rows are covered,
TLC finds a walk that misses a row (the count precedes the page). With pages of
one row a walk over the log of the key it calls with never ends, as each page
adds the row that the next one shows; `WalkIsShort` says nothing then. It speaks of a
client that walks alone: two walks that page through one log make it longer for
each other.

*Publish.* Two terminals with the key of one publisher, so that each command can
meet a rival, and a manifest in two versions and a third that names another
publisher. Five requests: two commands of two requests each and one more, to retry
after a time-out; `Enough` starts a command only when the requests left can finish
those that run. One fault (`MaxFaults`), as a time-out and a failing handler at
once only add an outcome already there. One short id, so that a second agent
cannot be registered and that failure is seen.

*Tags.* Three requests (a deadlock takes two, and one more that waits behind them or
commits between), two agents and two tags in both orders, a name spelled in
two ways and repeated in one list, and an empty list.

*Listing.* Three agents of two publishers and four cards, with the word searched for in the
name, in the description or in both; six queries that use each filter, with pages of one to three rows; four pages (`MaxPage`), as many as the
agents and one more at one row each; two changes (`MaxChanges`), so that one
can fall before and one after a statement, or both on one agent. Up to two endpoints
an agent (`MaxEndpoints`), so that the join can repeat one.

*Migrations.* Three runs: two that race and one that comes after, or an upgrade, a
downgrade and an upgrade in sequence. Two publishers, of which any may be there at
the start, with up to two keys; the database starts at any of the three revisions.

Symmetry is used over requests, agents, terminals, runs or publishers, in runs
without liveness only.

### Fairness

`FairSpec` of `AgentRegistry` is weak fairness of the handler of each request
(`Handle`): asyncio runs every coroutine whose await has completed, and PostgreSQL
answers or raises. The failure actions and the arrival of requests are not
fair. The registry's wait behind another transaction's insert ends since that
transaction's own handler is fair. `FairSpec` of `TagStore` is weak fairness of
the steps of each request together with `BreakDeadlock`: a statement that is
not blocked completes, and PostgreSQL looks for cycles after `deadlock_timeout`. No
request needs another one to fail. No fairness is assumed of clients, of people
who migrate, or of anything in the other modules, which state safety only.

## Proofs

Every invariant and every action property that a passing run checks is a theorem, for
all values of the constants; `PROJECT.json` pairs them under `theorems`. The
assumptions are those the modules name: inputs are well formed, `Nil` is none of the
values it is told from (replies included: `NoReplyAssumption`), bounds are numbers, and
sets the models count are finite. Each proof rests on an inductive invariant, which
TLC checked on the small instances first.

`AgentRegistry_proofs` (inputs are well formed, at least one draw):

- `TypeCorrect`: `Spec => []TypeOK`. `TypeOK` is not inductive: that the
  commit writes a well-formed row depends on what the session holds at that
  point. `IInv` adds `SessionInv` (a request past the lookup has a copy of an
  existing agent that its caller owns; one past the draw has a short id; the
  count of draws is below its bound while it draws) and `PendingInv` (an agent
  whose registration is not committed is not in the tables).
- `UniqueNames`: `NamesInv` adds that a row inserted and not committed clashes
  with no committed row and no other such row. The check in `register_agent`
  plays no part in it; the constraint and the wait do.
- `VersionsHaveSnapshots`, `SnapshotsAreUnique`: `StoreStep` states what a step
  may do to the tables: nothing, one registration, or one revision that keeps the
  version or adds a snapshot for a version that had none. An update whose
  version equals the stale copy's writes neither the column nor a snapshot, which
  is why it fits. `SnapshotInv` adds that snapshots belong to agents that
  exist, so that a registration does not meet one of its own.
- `Refinement`: `Spec => ImplementsCatalog`, from `StoreStep` and the
  invariants.
- `RefusedLeaveNothing`: `TraceInv` says which requests may have left a row, a
  snapshot or an agent: those whose session has come to its commit. A refusal
  comes before it, or instead of it.
- `OverlapMixes`: the rows of a list that a commit leaves are its own and those its copy
  did not hold. That the other half holds too, that it is in nobody's copy already,
  is `TraceInv` again: nobody can have read rows that were not committed.
- `OwnersWrite`: a step that changes an agent is a commit, and `SessionInv` says that
  the session that commits has found an agent its caller owns.
- `AcknowledgedStays`: an acknowledged request is one behind its commit, and `StoreGrows`
  states that agents keep their names and snapshots are never deleted.
- `StatusHolds`: only a commit writes a status, and it writes the one its request asks
  for, if that differs from the copy. `StatusInv` extends the property to
  requests behind their commit, whose response may not have left.

`ApiKeys_proofs` (prefixes are a function of keys, inputs and initial tables are well
formed):

- `TypeCorrect` and `UsageAttributed`: `IInv` adds to the types that a key has an
  owner exactly if it has a status (`KeyInv`); that a request with a caller came
  with a key of that caller, and one that found its target found a key of the same
  caller (`CallerInv`); and that a request about to be logged is charged to
  its own token (`LogInv`).
- `OwnersChangeKeys`: `TableChange` states what a step may do to the key table:
  mint a key for a newcomer or for the caller, or change the status of a key of
  the caller, and touch no other row. The theorem follows with `CallerInv`, and with
  the slug of a publisher that has joined keeping a second registration out.
- `LockedOutForGood`: by `TableChange` the table changes for a publisher only
  through a request that speaks for it, and by `SpeaksFor` a request comes to
  speak for a publisher only by showing an active key of it.

- `UsageRecorded`: `RecordInv` follows every request from its authentication to its
  log. Its key is active until a request has turned it off, so that otherwise only a
  second key with its prefix can make the second lookup of the middleware fail.
  These reasons, once true, stay true (`ReasonsStayTrue`).

`Discovery_proofs` (finitely many agents, codes are sequences, a positive limit):

- `ReadInv` relates each row read to some state its agent has had since the query
  arrived; commits do not disturb it, as `past` only grows. `PartsOffered` follows,
  and for an agent with one state in `past` the three reads are of that state.
- `SteadyAreRanked` adds `FiltersOffer`, that the filters of the loop one after
  the other select what a client asks for, and `TopIsBest`, that the head of a
  sorted permutation leaves out only what scores no better (a sequence without
  repetition, as long as the set is large, has every element: the pigeonhole).
- `MatchesAreTyped` (`MatchTypeOK`) holds the scores between 70 and 100: integer division takes no
  part above its share.

`UsageStats_proofs` (finitely many requests and endpoints):

- `UsedIsCounted`: a `last_used_at` was committed with a row (`UsedInv`).
- `WalkIsComplete`: the rank of a row among the newer ones only grows as rows are
  added. `PlaceInv` says that a row the walk has not been given is not before its
  next page, and a page that is not full reaches the end.
- `WalkComesToItsEnd`: `GrowthInv` counts the rows added since the walk began: one for
  each page it has been given and one for each other request that has ended.
- `BreakdownIsFair`: the endpoints listed are called at least as often as the others,
  so their calls are at least their share (`Average`). The sum is a fold over a set,
  for which the prover has no induction: `SumIsMeasure` argues with a smallest set for
  which it would differ. The log only grows between the two statements.

`TagStore_proofs` (finitely many tags):

- `LinksHaveOneKey`: `HoldInv` says that no two transactions hold rows of one
  primary key and none adds one that is there. `RowInv` says which rows of its agent
  a session can still find: those it has loaded, and those of requests it has met.
- `RefusedHasMet`: who waits, or finds a key taken, has met the one that holds it.
- `DeadlockIsCrossed`: along a cycle of waits the rank of the tag that a request is
  at would grow for ever, if the lists agreed on an order of the tags.
- `ListIsCommitted`: `ListInv` says what of the list has been looked up, which at
  the commit is all of it.

`Listing_proofs` (finitely many agents, a bound on endpoints, pages of 1 to 100 rows):

- `ItemsStored`, `ShortPageComplete`: every statement of a request adds a relation
  between what it holds and `past` (`ReadInv`, `CompleteInv`).
- `PagesAndTotal`: `TotalInv` relates count and page of a request at rest, and `WalkInv`
  the pages before this one to OFFSET.

`Migrations_proofs` (any number of runs and publishers; the two scripts are those of
the repository, whose plans are computed in `PlanFacts`):

- `PlaceInv` says that a running migration is at a place of its plan, and that what its
  transaction has created, dropped and copied is what the statements so far say.
- `SchemaOfRevision`: the stamp of a run is refused unless the revision is still the
  one it started from, and from its stamp to its commit no other run can stamp
  (`LockInv`), so the tables are those its plan was made for.
- `FirstKeys`: a run that has copied the keys holds a lock on `publishers`, so that
  nobody registers behind its copy; once the schema is there registration brings
  a key with it.
- `RefusedIsDone`: an upgrade that started at a revision and is refused a
  statement has been overtaken, and an upgrade only ever commits 002.

`Publish_proofs` (finitely many terminals and requests, valid manifests):

- `ServedByRegistry`: `PublishSpec => Spec`. Every invariant proved of the registry
  holds under its clients; the proofs use `IInv`, `NamesInv` and `TraceInv`.
- `CommandsAreTyped`: `EnoughInv` counts the requests left against the commands that
  may still need one.
- `ConflictsAreUpdatable`: `ClientInv` says that a PATCH follows a conflict with an agent of
  the publisher, and agents are never removed, renamed or given away.
- `SuccessShows`: `ClientInv` bounds what the server has still to answer by the last
  request of the command and its rivals; `VisibleInv` says that an agent differs from
  the copy that request holds only where one of these has written (`CopyInv`), so that
  at its commit, and from then on, the agent shows their work (`Shows`).
- `QuietSucceeds`: `QuietInv` says that for a command without rivals what its request
  has found is still there, so that only the two constraints it names can refuse it.

Only model-checked: liveness (`EveryRequestAnswered`, `EveryTaggingAnswered`), which together
with ENABLED is out of the prover's reach, and the three violated properties.

## Not modelled

Bodies, wording and validation of single requests; URLs, names and descriptions (but
for the words a listing searches them for);
ETag and TTL (the server stores neither); bcrypt and the generation of tokens;
the compact format; rate limits (there are none). `expires_at` is stored and
never read. The components marked `not_modelled` in
`PROJECT.json` say why.

*Connection pool.* The log of a request takes a connection while its session may
still hold one. Whether it does depends on when the framework closes the session
and on the pool's limits, which are not in the repository; what comes of it, a log
that fails and is swallowed, is `LogFail` of `ApiKeys`.

*CLI configuration.* `save_config` reads one file, truncates it and writes it. A crash
in between loses the key, and the other tables of the file are always lost; both can be
read off the three lines, and a model of them would say no more.

*Tags of a new agent.* `create_agent` appends to `agent.tags` after a flush, when the
collection is not loaded; whether that needs a query the asynchronous session
cannot make there is a matter of the ORM. `TagStore` has the request go on, or end
with `Fail`.

## Plan

Done: `AgentRegistry`, `ApiKeys`, `Discovery`, `UsageStats`, `Publish`, `TagStore`,
`Listing`, `Migrations`, with their runs, and proofs of every safety property the
runs check. Next:

1. The batch route and field selection as part of `Discovery`.
2. An abstract specification of the key table (a key belongs to one publisher for good,
   and changes on its behalf only), with `ApiKeys` proved to implement it, as
   `AgentCatalog` is for the registry.
3. `Publish` implements `AgentCatalog` as well, by `ServedByRegistry` and `Refinement`; what
   a terminal sees of the catalogue could be stated on that level.
