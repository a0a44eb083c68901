------------------------------ MODULE Migrations ------------------------------
(***************************************************************************)
(* The schema of the registry: the two migrations (migrations/versions),   *)
(* run by Alembic in one transaction (migrations/env.py), by hand or by    *)
(* start.sh, which starts the server after them.  Several people may       *)
(* migrate one database at once, while a server is using it.  A CREATE or  *)
(* DROP of a table waits for the transaction that has created, dropped or  *)
(* referenced that table, and any run may fail before its commit, which    *)
(* undoes it.                                                              *)
(*                                                                         *)
(* Indexes, the extension and the columns are left out, but for the key of *)
(* a publisher: the legacy columns of its row, and its rows in api_keys.   *)
(***************************************************************************)
EXTENDS Naturals, Sequences, FiniteSets

CONSTANTS
    Runners,       \* runs of Alembic
    Commands,      \* what they may be asked to do
    Publishers,
    Nil

ASSUME CommandAssumption ==
    /\ Commands \subseteq {"start", "upgrade", "back", "base"}
    /\ Nil \notin Commands \cup {"active", "deleted", "ok", "refused", "failed"}

Tables == {"publishers", "agents", "agent_versions", "capabilities",
           "agent_endpoints", "tags", "agent_tags", "api_keys", "api_key_usage_logs"}

\* The tables the foreign keys of a table name.
References(t) ==
    CASE t = "agents" -> {"publishers"}
      [] t \in {"agent_versions", "capabilities", "agent_endpoints"} -> {"agents"}
      [] t = "agent_tags" -> {"agents", "tags"}
      [] t = "api_keys" -> {"publishers"}
      [] t = "api_key_usage_logs" -> {"api_keys"}
      [] t \in {"publishers", "tags"} -> {}

Revisions == {"none", "001", "002"}

Statement(do, arg) == [do |-> do, arg |-> arg]
Statements == [do : {"create", "drop", "copy", "stamp"}, arg : Tables \cup Revisions]
Create(list) == [i \in DOMAIN list |-> Statement("create", list[i])]
Drop(list) == [i \in DOMAIN list |-> Statement("drop", list[i])]

\* Mutant: agents come before the publishers they refer to.
AgentsFirst ==
    Create(<<"agents", "publishers", "agent_versions", "capabilities",
             "agent_endpoints", "tags", "agent_tags">>)

\* 001_initial.py
Upgrade001 ==
    Create(<<"publishers", "agents", "agent_versions", "capabilities",
             "agent_endpoints", "tags", "agent_tags">>)

Downgrade001 ==
    Drop(<<"agent_tags", "tags", "agent_endpoints", "capabilities",
           "agent_versions", "agents", "publishers">>)

\* Mutant: the keys of the publishers are not carried over.
EmptyKeyTable == Create(<<"api_keys", "api_key_usage_logs">>)

\* 002_api_keys.py
Upgrade002 ==
    Create(<<"api_keys", "api_key_usage_logs">>) \o <<Statement("copy", "api_keys")>>

Downgrade002 == Drop(<<"api_key_usage_logs", "api_keys">>)

\* The scripts Alembic runs from a revision, with the version row after each.
Stamp(revision) == <<Statement("stamp", revision)>>

Plan(command, from) ==
    CASE command \in {"start", "upgrade"} ->
           (IF from = "none" THEN Upgrade001 \o Stamp("001") ELSE <<>>)
           \o (IF from # "002" THEN Upgrade002 \o Stamp("002") ELSE <<>>)
      [] command = "back" ->
           IF from = "002" THEN Downgrade002 \o Stamp("001")
           ELSE Downgrade001 \o Stamp("none")
      [] command = "base" ->
           (IF from = "002" THEN Downgrade002 \o Stamp("001") ELSE <<>>)
           \o (IF from # "none" THEN Downgrade001 \o Stamp("none") ELSE <<>>)

VARIABLES
    \* the committed database
    tables,
    version,      \* the row of alembic_version
    publishers,   \* those registered, each with its legacy key columns
    keys,         \* api_keys: the status of the first key and of a second one
    \* the runs, and the uncommitted work of their transactions
    command, outcome,
    head,         \* the revision the run has last read or written
    todo,
    created, dropped, copied,
    stamped,      \* the runs that have written to alembic_version
    serving       \* the runs of start.sh that have come to start the server

database == <<tables, version, publishers, keys>>
work == <<created, dropped, copied, stamped>>
vars == <<database, command, outcome, head, todo, work, serving>>

Names == {"default", "other"}
Statuses == {"active", "deleted"}
NoKeys == [p \in Publishers |-> [n \in Names |-> Nil]]
FirstKey == [n \in Names |-> IF n = "default" THEN "active" ELSE Nil]

Of001 == {Upgrade001[i].arg : i \in DOMAIN Upgrade001}
TablesOf(revision) == CASE revision = "none" -> {}
                        [] revision = "001" -> Of001
                        [] revision = "002" -> Tables

TypeOK ==
    /\ tables \subseteq Tables /\ version \in Revisions
    /\ publishers \subseteq Publishers
    /\ keys \in [Publishers -> [Names -> Statuses \cup {Nil}]]
    \* the foreign key of api_keys
    /\ \A p \in Publishers : keys[p] # NoKeys[p] => p \in publishers /\ "api_keys" \in tables
    /\ publishers # {} => "publishers" \in tables
    /\ command \in [Runners -> Commands \cup {Nil}]
    /\ outcome \in [Runners -> {"ok", "refused", "failed", Nil}]
    /\ head \in [Runners -> Revisions \cup {Nil}]
    /\ todo \in [Runners -> Seq(Statements)]
    /\ \A m \in Runners : Len(todo[m]) <= Cardinality(Tables) + 3
    /\ {created, dropped} \subseteq [Runners -> SUBSET Tables]
    /\ copied \in [Runners -> SUBSET publishers]
    /\ stamped \subseteq Runners /\ serving \subseteq Runners

\* A fresh database, one of the first release with its publishers, or one that
\* is up to date.
Init ==
    /\ version \in Revisions /\ tables = TablesOf(version)
    /\ publishers \in IF version = "none" THEN {{}} ELSE SUBSET Publishers
    /\ keys = [p \in Publishers |-> IF version = "002" /\ p \in publishers
                                    THEN FirstKey ELSE NoKeys[p]]
    /\ command = [m \in Runners |-> Nil] /\ outcome = [m \in Runners |-> Nil]
    /\ head = [m \in Runners |-> Nil] /\ todo = [m \in Runners |-> <<>>]
    /\ created = [m \in Runners |-> {}] /\ dropped = [m \in Runners |-> {}]
    /\ copied = [m \in Runners |-> {}]
    /\ stamped = {} /\ serving = {}
-------------------------------------------------------------------------------
Running(m) == command[m] # Nil /\ outcome[m] = Nil

End(m, result) ==
    /\ outcome' = [outcome EXCEPT ![m] = result]
    /\ created' = [created EXCEPT ![m] = {}]
    /\ dropped' = [dropped EXCEPT ![m] = {}]
    /\ copied' = [copied EXCEPT ![m] = {}]
    /\ stamped' = stamped \ {m}
    /\ UNCHANGED <<command, head, todo, serving>>

\* Alembic reads the revision and opens the transaction for all scripts.
\* There is no revision to go back to from an empty database.
Begin(m) ==
    /\ command[m] = Nil
    /\ \E c \in Commands :
         /\ command' = [command EXCEPT ![m] = c]
         /\ IF c = "back" /\ version = "none"
            THEN outcome' = [outcome EXCEPT ![m] = "refused"] /\ UNCHANGED <<head, todo>>
            ELSE /\ head' = [head EXCEPT ![m] = version]
                 /\ todo' = [todo EXCEPT ![m] = Plan(c, version)]
                 /\ UNCHANGED outcome
    /\ UNCHANGED <<database, work, serving>>

\* The tables a transaction has locked: its own, and those their keys refer to.
Locked(m) == LET own == created[m] \cup dropped[m]
             IN  own \cup UNION {References(t) : t \in own}

Waits(m, t) == \E n \in Runners \ {m} : ({t} \cup References(t)) \cap Locked(n) # {}

View(m) == (tables \cup created[m]) \ dropped[m]

Possible(m, s) ==
    CASE s.do = "create" -> s.arg \notin View(m) /\ References(s.arg) \subseteq View(m)
      [] s.do = "drop"   -> s.arg \in View(m) /\ \A t \in View(m) : s.arg \notin References(t)
      [] s.do = "copy"   -> TRUE
      [] s.do = "stamp"  -> m \in stamped \/ head[m] = version

\* A stamp is an UPDATE of one row, which Alembic counts.
Free(m, s) == /\ s.do \in {"create", "drop"} => ~Waits(m, s.arg)
              /\ s.do = "stamp" => stamped \subseteq {m}

\* Mutant: every statement commits on its own.
RunInAutocommit(m) ==
    /\ Running(m) /\ todo[m] # <<>>
    /\ LET s == Head(todo[m])
       IN  /\ Free(m, s) /\ Possible(m, s)
           /\ tables' = IF s.do = "create" THEN tables \cup {s.arg}
                        ELSE IF s.do = "drop" THEN tables \ {s.arg} ELSE tables
           /\ copied' = [copied EXCEPT ![m] = IF s.do = "copy" THEN publishers ELSE @]
           /\ head' = [head EXCEPT ![m] = IF s.do = "stamp" THEN s.arg ELSE @]
           /\ stamped' = IF s.do = "stamp" THEN stamped \cup {m} ELSE stamped
    /\ todo' = [todo EXCEPT ![m] = Tail(@)]
    /\ UNCHANGED <<version, publishers, keys, command, outcome, created, dropped, serving>>

\* One statement, once nobody else is at its tables.
RunStatement(m) ==
    /\ Running(m) /\ todo[m] # <<>>
    /\ LET s == Head(todo[m])
       IN  /\ Free(m, s) /\ Possible(m, s)
           /\ created' = [created EXCEPT ![m] = IF s.do = "create" THEN @ \cup {s.arg} ELSE @]
           /\ dropped' = [dropped EXCEPT ![m] = IF s.do = "drop" THEN @ \cup {s.arg} ELSE @]
           /\ copied' = [copied EXCEPT ![m] = IF s.do = "copy" THEN publishers ELSE @]
           /\ head' = [head EXCEPT ![m] = IF s.do = "stamp" THEN s.arg ELSE @]
           /\ stamped' = IF s.do = "stamp" THEN stamped \cup {m} ELSE stamped
    /\ todo' = [todo EXCEPT ![m] = Tail(@)]
    /\ UNCHANGED <<database, command, outcome, serving>>

\* PostgreSQL refuses a statement: the table is there already, or is not, or
\* another one refers to it.
Refuse(m) ==
    /\ Running(m) /\ todo[m] # <<>>
    /\ Free(m, Head(todo[m])) /\ ~Possible(m, Head(todo[m]))
    /\ End(m, "refused")
    /\ UNCHANGED database

Commit(m) ==
    /\ Running(m) /\ todo[m] = <<>>
    /\ tables' = View(m)
    /\ version' = IF m \in stamped THEN head[m] ELSE version
    /\ publishers' = IF "publishers" \in dropped[m] THEN {} ELSE publishers
    /\ keys' = [p \in Publishers |-> IF p \in copied[m] THEN FirstKey
                                     ELSE IF "api_keys" \in dropped[m] THEN NoKeys[p]
                                     ELSE keys[p]]
    /\ End(m, "ok")

\* The connection is lost, the disk is full, the process is stopped.
Fail(m) == Running(m) /\ End(m, "failed") /\ UNCHANGED database

\* start.sh goes on however Alembic ended: the status of a pipeline is that of
\* its last command, `tail`.
Launch(m) ==
    /\ command[m] = "start" /\ outcome[m] # Nil /\ m \notin serving
    /\ serving' = serving \cup {m}
    /\ UNCHANGED <<database, command, outcome, head, todo, work>>

\* Requests to the server; without their tables they answer 500 and write
\* nothing.  They wait for a run that holds the tables.
Available(ts) == serving # {} /\ ts \subseteq tables

\* create_publisher: the legacy columns and the first key.
CreatePublisher(p) ==
    /\ Available({"publishers", "api_keys"}) /\ p \notin publishers
    /\ \A m \in Runners : Locked(m) \cap {"publishers", "api_keys"} = {}
    /\ publishers' = publishers \cup {p}
    /\ keys' = [keys EXCEPT ![p] = FirstKey]
    /\ UNCHANGED <<tables, version, command, outcome, head, todo, work, serving>>

\* Mutant: the key routes ask for no key.
SetKeyOfAnyone(p, n, status) ==
    /\ Available({"api_keys"}) /\ \A m \in Runners : "api_keys" \notin dropped[m]
    /\ keys' = [keys EXCEPT ![p][n] = status]
    /\ UNCHANGED <<tables, version, publishers, command, outcome, head, todo, work, serving>>

\* The key routes, called with an active key of the publisher.
SetKey(p, n, status) ==
    /\ Available({"api_keys"}) /\ \A m \in Runners : "api_keys" \notin dropped[m]
    /\ \E k \in Names : keys[p][k] = "active"
    /\ keys' = [keys EXCEPT ![p][n] = status]
    /\ UNCHANGED <<tables, version, publishers, command, outcome, head, todo, work, serving>>

CreateKey(p) == keys[p]["other"] = Nil /\ SetKey(p, "other", "active")

DeleteKey(p) == \E n \in Names : keys[p][n] = "active" /\ SetKey(p, n, "deleted")

Quiescent == (\A m \in Runners : outcome[m] # Nil) /\ UNCHANGED vars

Next == \/ \E m \in Runners : \/ Begin(m) \/ RunStatement(m) \/ Refuse(m)
                              \/ Commit(m) \/ Fail(m) \/ Launch(m)
        \/ \E p \in Publishers : CreatePublisher(p) \/ CreateKey(p) \/ DeleteKey(p)
        \/ Quiescent

Spec == Init /\ [][Next]_vars
-------------------------------------------------------------------------------
\* The tables are those of the revision the database says it has, however many
\* runs raced, were refused or stopped halfway (do_run_migrations opens one
\* transaction for all scripts).
SchemaIsARevision == tables = TablesOf(version)

\* No publisher is locked out by a migration: with the key table in place each
\* one has its first key there, those registered with a table that was dropped
\* since, and those that register while others migrate, included (the
\* INSERT ... SELECT of 002 against create_publisher).
EveryPublisherHasItsFirstKey ==
    version = "002" => \A p \in publishers : keys[p]["default"] # Nil

\* Of several upgrades at once one may be refused, but only because another
\* has brought the database up to date: running `alembic upgrade head` twice is
\* safe.
RefusedUpgradeIsDone ==
    \A m \in Runners :
       /\ outcome[m] = "refused" /\ command[m] \in {"start", "upgrade"}
       /\ \A n \in Runners : command[n] \in {"start", "upgrade", Nil}
       => version = "002"

\* What start.sh prints before it starts the server, and a failed migration
\* breaks: "Database schema is up to date".
SchemaIsUpToDate ==
    [][\A m \in serving' \ serving : version = "002"]_vars
===============================================================================
