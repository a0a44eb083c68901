--------------------------- MODULE Migrations_proofs ---------------------------
(***************************************************************************)
(* Proofs about Migrations: the schema is that of the revision, every      *)
(* publisher keeps its first key, and an upgrade is refused only when      *)
(* another one is done, for any number of runs and publishers.             *)
(*                                                                         *)
(* A run is at a place of its plan: what its transaction has created,      *)
(* dropped and copied is what the statements up to there say.  The stamp   *)
(* of a run is refused unless the revision is still the one it started     *)
(* from, and from its stamp to its commit no other run changes the schema, *)
(* so that the tables are those the plan was made for.  The locks keep     *)
(* publishers from being dropped, or added, behind a copy of their keys.   *)
(***************************************************************************)
EXTENDS Migrations, FiniteSetTheorems, SequenceTheorems, TLAPS

\* What the first i statements of a plan create, drop, ...
Done(P, i, what) == {P[k].arg : k \in {j \in 1..i : P[j].do = what}}

Within(P, i, what) == \E k \in 1..i : P[k].do = what

\* Nobody has asked for a downgrade.
UpgradesOnly == \A n \in Runners : command[n] \in {"start", "upgrade", Nil}

\* The run is behind statement i of its plan from revision f.
At(m, f, i) ==
    LET P == Plan(command[m], f)
    IN  /\ ~(command[m] = "back" /\ f = "none")
        /\ i <= Len(P) /\ Len(todo[m]) = Len(P) - i
        /\ \A k \in 1..(Len(P) - i) : todo[m][k] = P[i + k]
        /\ created[m] = Done(P, i, "create") /\ dropped[m] = Done(P, i, "drop")
        /\ copied[m] = IF Within(P, i, "copy") THEN publishers ELSE {}
        /\ m \in stamped <=> Within(P, i, "stamp")
        /\ m \notin stamped => head[m] = f
        /\ m \in stamped => version = f
        /\ i > 0 /\ P[i].do = "stamp" => head[m] = P[i].arg
        /\ UpgradesOnly => version \in {f, "002"}

PlaceInv == \A m \in Runners : Running(m) => \E f \in Revisions, i \in 0..12 : At(m, f, i)

\* A run that is not running holds nothing.
EndedInv ==
    \A m \in Runners : ~Running(m) =>
       /\ created[m] = {} /\ dropped[m] = {} /\ copied[m] = {} /\ m \notin stamped
       /\ command[m] = Nil => outcome[m] = Nil

\* The row of alembic_version is locked by one run, a table by one run.
LockInv == /\ \A m, n \in stamped : m = n
           /\ \A m, n \in Runners : m # n => Locked(m) \cap Locked(n) = {}

MigrationInv == /\ TypeOK /\ PlaceInv /\ EndedInv /\ LockInv
                /\ SchemaIsARevision /\ EveryPublisherHasItsFirstKey
                /\ RefusedUpgradeIsDone
-------------------------------------------------------------------------------
(* The plans *)

LEMMA StatementType ==
    /\ \A t \in Tables : Statement("create", t) \in Statements
                         /\ Statement("drop", t) \in Statements
    /\ Statement("copy", "api_keys") \in Statements
    /\ \A v \in Revisions : Stamp(v) \in Seq(Statements) /\ Len(Stamp(v)) = 1
                            /\ Stamp(v)[1] = Statement("stamp", v)
BY DEF Statement, Statements, Stamp, Tables, Revisions

\* 001_initial.py, upward ...
LEMMA Upgrade001Is ==
    /\ Upgrade001 \in Seq(Statements) /\ Len(Upgrade001) = 7
    /\ Upgrade001[1] = Statement("create", "publishers")
    /\ Upgrade001[2] = Statement("create", "agents")
    /\ Upgrade001[3] = Statement("create", "agent_versions")
    /\ Upgrade001[4] = Statement("create", "capabilities")
    /\ Upgrade001[5] = Statement("create", "agent_endpoints")
    /\ Upgrade001[6] = Statement("create", "tags")
    /\ Upgrade001[7] = Statement("create", "agent_tags")
<1> DEFINE list == <<"publishers", "agents", "agent_versions", "capabilities",
                     "agent_endpoints", "tags", "agent_tags">>
<1>1. list \in Seq(Tables) /\ Len(list) = 7
  BY DEF Tables
<1>2. DOMAIN list = 1..7 /\ \A k \in 1..7 : list[k] \in Tables
  BY <1>1
<1>3. Upgrade001 = [k \in 1..7 |-> Statement("create", list[k])]
  BY <1>2 DEF Upgrade001, Create
<1>4. Upgrade001 \in [1..7 -> Statements]
  BY <1>2, <1>3, StatementType
<1>5. Upgrade001 \in Seq(Statements) /\ Len(Upgrade001) = 7
  BY <1>3, <1>4, IsASeq
<1>6. /\ list[1] = "publishers" /\ list[2] = "agents" /\ list[3] = "agent_versions" 
      /\ list[4] = "capabilities" /\ list[5] = "agent_endpoints" /\ list[6] = "tags" 
      /\ list[7] = "agent_tags"
  OBVIOUS
<1> HIDE DEF list
<1> QED BY <1>3, <1>5, <1>6

\* ... and downward.
LEMMA Downgrade001Is ==
    /\ Downgrade001 \in Seq(Statements) /\ Len(Downgrade001) = 7
    /\ Downgrade001[1] = Statement("drop", "agent_tags")
    /\ Downgrade001[2] = Statement("drop", "tags")
    /\ Downgrade001[3] = Statement("drop", "agent_endpoints")
    /\ Downgrade001[4] = Statement("drop", "capabilities")
    /\ Downgrade001[5] = Statement("drop", "agent_versions")
    /\ Downgrade001[6] = Statement("drop", "agents")
    /\ Downgrade001[7] = Statement("drop", "publishers")
<1> DEFINE list == <<"agent_tags", "tags", "agent_endpoints", "capabilities",
                     "agent_versions", "agents", "publishers">>
<1>1. list \in Seq(Tables) /\ Len(list) = 7
  BY DEF Tables
<1>2. DOMAIN list = 1..7 /\ \A k \in 1..7 : list[k] \in Tables
  BY <1>1
<1>3. Downgrade001 = [k \in 1..7 |-> Statement("drop", list[k])]
  BY <1>2 DEF Downgrade001, Drop
<1>4. Downgrade001 \in [1..7 -> Statements]
  BY <1>2, <1>3, StatementType
<1>5. Downgrade001 \in Seq(Statements) /\ Len(Downgrade001) = 7
  BY <1>3, <1>4, IsASeq
<1>6. /\ list[1] = "agent_tags" /\ list[2] = "tags" /\ list[3] = "agent_endpoints" 
      /\ list[4] = "capabilities" /\ list[5] = "agent_versions" /\ list[6] = "agents" 
      /\ list[7] = "publishers"
  OBVIOUS
<1> HIDE DEF list
<1> QED BY <1>3, <1>5, <1>6

\* 002_api_keys.py, upward ...
LEMMA Upgrade002Is ==
    /\ Upgrade002 \in Seq(Statements) /\ Len(Upgrade002) = 3
    /\ Upgrade002[1] = Statement("create", "api_keys")
    /\ Upgrade002[2] = Statement("create", "api_key_usage_logs")
    /\ Upgrade002[3] = Statement("copy", "api_keys")
<1> DEFINE list == <<"api_keys", "api_key_usage_logs">>
           both == [k \in 1..2 |-> Statement("create", list[k])]
           copy == <<Statement("copy", "api_keys")>>
<1>1. DOMAIN list = 1..2 /\ \A k \in 1..2 : list[k] \in Tables
  BY DEF Tables
<1>2. Upgrade002 = both \o copy
  BY <1>1 DEF Upgrade002, Create
<1>3. both \in [1..2 -> Statements]
  BY <1>1, StatementType
<1>4. both \in Seq(Statements) /\ Len(both) = 2
  BY <1>3, IsASeq
<1>5. copy \in Seq(Statements) /\ Len(copy) = 1 /\ copy[1] = Statement("copy", "api_keys")
  BY StatementType
<1>6. both[1] = Statement("create", "api_keys")
      /\ both[2] = Statement("create", "api_key_usage_logs")
  OBVIOUS
<1> HIDE DEF list, both, copy
<1>7. /\ both \o copy \in Seq(Statements) /\ Len(both \o copy) = 3
      /\ \A i \in 1..3 : (both \o copy)[i] = IF i <= 2 THEN both[i] ELSE copy[i - 2]
  BY <1>4, <1>5, ConcatProperties
<1> QED BY <1>2, <1>5, <1>6, <1>7

\* ... and downward.
LEMMA Downgrade002Is ==
    /\ Downgrade002 \in Seq(Statements) /\ Len(Downgrade002) = 2
    /\ Downgrade002[1] = Statement("drop", "api_key_usage_logs")
    /\ Downgrade002[2] = Statement("drop", "api_keys")
<1> DEFINE list == <<"api_key_usage_logs", "api_keys">>
<1>1. DOMAIN list = 1..2 /\ \A k \in 1..2 : list[k] \in Tables
  BY DEF Tables
<1>2. Downgrade002 = [k \in 1..2 |-> Statement("drop", list[k])]
  BY <1>1 DEF Downgrade002, Drop
<1>3. Downgrade002 \in [1..2 -> Statements]
  BY <1>1, <1>2, StatementType
<1>4. Downgrade002 \in Seq(Statements) /\ Len(Downgrade002) = 2
  BY <1>2, <1>3, IsASeq
<1>5. /\ list[1] = "api_key_usage_logs" /\ list[2] = "api_keys"
  OBVIOUS
<1> HIDE DEF list
<1> QED BY <1>2, <1>4, <1>5

\* A script and the stamp behind it.
LEMMA Stamped ==
    ASSUME NEW s \in Seq(Statements), NEW v \in Revisions
    PROVE  /\ s \o Stamp(v) \in Seq(Statements)
           /\ Len(s \o Stamp(v)) = Len(s) + 1
           /\ \A i \in 1..Len(s) : (s \o Stamp(v))[i] = s[i]
           /\ (s \o Stamp(v))[Len(s) + 1] = Statement("stamp", v)
<1>1. Len(s) \in Nat /\ Stamp(v) \in Seq(Statements) /\ Len(Stamp(v)) = 1
      /\ Stamp(v)[1] = Statement("stamp", v)
  BY StatementType, LenProperties
<1>2. /\ s \o Stamp(v) \in Seq(Statements) /\ Len(s \o Stamp(v)) = Len(s) + 1
      /\ \A i \in 1..(Len(s) + 1) :
            (s \o Stamp(v))[i] = IF i <= Len(s) THEN s[i] ELSE Stamp(v)[i - Len(s)]
  <2>1. /\ s \o Stamp(v) \in Seq(Statements)
        /\ Len(s \o Stamp(v)) = Len(s) + Len(Stamp(v))
        /\ \A i \in 1..(Len(s) + Len(Stamp(v))) :
              (s \o Stamp(v))[i] = IF i <= Len(s) THEN s[i] ELSE Stamp(v)[i - Len(s)]
    BY <1>1, ConcatProperties
  <2> QED BY <1>1, <2>1
<1>3. /\ Len(s) + 1 \in 1..(Len(s) + 1) /\ ~(Len(s) + 1 <= Len(s))
      /\ Len(s) + 1 - Len(s) = 1
      /\ \A i \in 1..Len(s) : i \in 1..(Len(s) + 1) /\ i <= Len(s)
  BY <1>1
<1>4. \A i \in 1..Len(s) : (s \o Stamp(v))[i] = s[i]
  BY <1>2, <1>3
<1>5. (s \o Stamp(v))[Len(s) + 1] = Stamp(v)[Len(s) + 1 - Len(s)]
  BY <1>2, <1>3
<1> QED BY <1>1, <1>2, <1>3, <1>4, <1>5

\* One script after another, with their stamps.
LEMMA Chained ==
    ASSUME NEW s \in Seq(Statements), NEW u \in Revisions,
           NEW t \in Seq(Statements), NEW v \in Revisions
    PROVE  LET P == (s \o Stamp(u)) \o (t \o Stamp(v))
               n == Len(s) + 1
           IN  /\ P \in Seq(Statements) /\ Len(P) = n + Len(t) + 1
               /\ \A i \in 1..Len(s) : P[i] = s[i]
               /\ P[n] = Statement("stamp", u)
               /\ \A i \in 1..Len(t) : P[n + i] = t[i]
               /\ P[n + Len(t) + 1] = Statement("stamp", v)
<1> DEFINE a == s \o Stamp(u)
           b == t \o Stamp(v)
           n == Len(s) + 1
<1>1. /\ a \in Seq(Statements) /\ Len(a) = n
      /\ \A i \in 1..Len(s) : a[i] = s[i]
      /\ a[n] = Statement("stamp", u)
  BY Stamped
<1>2. /\ b \in Seq(Statements) /\ Len(b) = Len(t) + 1
      /\ \A i \in 1..Len(t) : b[i] = t[i]
      /\ b[Len(t) + 1] = Statement("stamp", v)
  BY Stamped
<1>3. Len(s) \in Nat /\ Len(t) \in Nat
  BY LenProperties
<1> HIDE DEF a, b
<1>4. /\ a \o b \in Seq(Statements) /\ Len(a \o b) = Len(a) + Len(b)
      /\ \A i \in 1..(Len(a) + Len(b)) : (a \o b)[i] = IF i <= Len(a) THEN a[i] ELSE b[i - Len(a)]
  BY <1>1, <1>2, ConcatProperties
<1>5. Len(a \o b) = n + Len(t) + 1
  BY <1>1, <1>2, <1>3, <1>4
<1>6. \A i \in 1..n : (a \o b)[i] = a[i]
  BY <1>1, <1>2, <1>3, <1>4
<1>7. \A i \in 1..(Len(t) + 1) : (a \o b)[n + i] = b[i]
  <2> SUFFICES ASSUME NEW i \in 1..(Len(t) + 1) PROVE (a \o b)[n + i] = b[i]
    OBVIOUS
  <2>1. /\ n + i \in 1..(Len(a) + Len(b)) /\ ~(n + i <= Len(a)) /\ n + i - Len(a) = i
    BY <1>1, <1>2, <1>3
  <2>2. (a \o b)[n + i] = b[n + i - Len(a)]
    BY <1>4, <2>1
  <2> QED BY <2>1, <2>2
<1>8. /\ \A i \in 1..Len(s) : (a \o b)[i] = s[i]
      /\ (a \o b)[n] = Statement("stamp", u)
  BY <1>1, <1>3, <1>6
<1>9. /\ \A i \in 1..Len(t) : (a \o b)[n + i] = t[i]
      /\ (a \o b)[n + Len(t) + 1] = Statement("stamp", v)
  <2>1. Len(t) + 1 \in 1..(Len(t) + 1) /\ n + (Len(t) + 1) = n + Len(t) + 1
        /\ \A i \in 1..Len(t) : i \in 1..(Len(t) + 1)
    BY <1>3
  <2>2. (a \o b)[n + (Len(t) + 1)] = b[Len(t) + 1]
    BY <1>7, <2>1
  <2> QED BY <1>2, <1>7, <2>1, <2>2
<1> QED BY <1>4, <1>5, <1>8, <1>9 DEF a, b

\* What a plan made for revision f does: it ends with a stamp, and at each of
\* its stamps the tables are those of the revision.
Sound(P, f) ==
    /\ P \in Seq(Statements) /\ Len(P) \in 0..12
    /\ Len(P) > 0 => P[Len(P)].do = "stamp"
    /\ \A i \in 1..Len(P) : P[i].do = "stamp" =>
          /\ P[i].arg \in Revisions
          /\ (TablesOf(f) \cup Done(P, i, "create")) \ Done(P, i, "drop")
             = TablesOf(P[i].arg)
    /\ \A i \in 1..Len(P) : P[i].do \in {"create", "drop"} => P[i].arg \in Tables
    /\ \A i \in 1..Len(P) : P[i].do = "copy" =>
          /\ "api_keys" \in Done(P, i, "create")
          /\ \A k \in 1..Len(P) : P[k].do # "drop"
    /\ Len(P) > 0 /\ P[Len(P)].arg = "002" => Within(P, Len(P), "copy")

\* An upgrade creates what is not there, after what it refers to.
Upward(P, f) ==
    /\ \A i \in 1..Len(P) :
          /\ P[i].do # "drop"
          /\ P[i].do = "create" =>
                LET there == TablesOf(f) \cup Done(P, i - 1, "create")
                IN  P[i].arg \notin there /\ References(P[i].arg) \subseteq there
    /\ IF Len(P) > 0 THEN P[Len(P)].arg = "002" ELSE f = "002"

LEMMA TablesOfIs ==
    /\ Of001 = {"publishers", "agents", "agent_versions", "capabilities",
                "agent_endpoints", "tags", "agent_tags"}
    /\ TablesOf("none") = {} /\ TablesOf("001") = Of001 /\ TablesOf("002") = Tables
<1>1. DOMAIN Upgrade001 = 1..7
  BY Upgrade001Is, LenProperties
<1>2. \A k \in 1..7 : k \in {1, 2, 3, 4, 5, 6, 7}
  OBVIOUS
<1>3. \A t : t \in Of001 <=> \E k \in 1..7 : t = Upgrade001[k].arg
  BY <1>1 DEF Of001
<1>4. /\ Upgrade001[1].arg = "publishers" /\ Upgrade001[2].arg = "agents"
      /\ Upgrade001[3].arg = "agent_versions" /\ Upgrade001[4].arg = "capabilities"
      /\ Upgrade001[5].arg = "agent_endpoints" /\ Upgrade001[6].arg = "tags"
      /\ Upgrade001[7].arg = "agent_tags"
  BY Upgrade001Is DEF Statement
<1>5. Of001 = {"publishers", "agents", "agent_versions", "capabilities",
               "agent_endpoints", "tags", "agent_tags"}
  BY <1>2, <1>3, <1>4
<1> QED BY <1>5 DEF TablesOf

\* From nothing to 002.
LEMMA FreshUpgrade ==
    LET P == (Upgrade001 \o Stamp("001")) \o (Upgrade002 \o Stamp("002"))
    IN  Sound(P, "none") /\ Upward(P, "none")
<1> DEFINE P == (Upgrade001 \o Stamp("001")) \o (Upgrade002 \o Stamp("002"))
<1>1. /\ P \in Seq(Statements) /\ Len(P) = 12
      /\ \A i \in 1..7 : P[i] = Upgrade001[i]
      /\ P[8] = Statement("stamp", "001")
      /\ \A i \in 1..3 : P[8 + i] = Upgrade002[i]
      /\ P[12] = Statement("stamp", "002")
  <2>1. "001" \in Revisions /\ "002" \in Revisions
    BY DEF Revisions
  <2>2. /\ Upgrade001 \in Seq(Statements) /\ Len(Upgrade001) = 7
        /\ Upgrade002 \in Seq(Statements) /\ Len(Upgrade002) = 3
    BY Upgrade001Is, Upgrade002Is
  <2>3. /\ P \in Seq(Statements) /\ Len(P) = (Len(Upgrade001) + 1) + Len(Upgrade002) + 1
        /\ \A i \in 1..Len(Upgrade001) : P[i] = Upgrade001[i]
        /\ P[Len(Upgrade001) + 1] = Statement("stamp", "001")
        /\ \A i \in 1..Len(Upgrade002) : P[(Len(Upgrade001) + 1) + i] = Upgrade002[i]
        /\ P[(Len(Upgrade001) + 1) + Len(Upgrade002) + 1] = Statement("stamp", "002")
    BY <2>1, <2>2, Chained
  <2> HIDE DEF P
  <2>4. Len(Upgrade001) + 1 = 8 /\ (Len(Upgrade001) + 1) + Len(Upgrade002) + 1 = 12
    BY <2>2
  <2> QED BY <2>2, <2>3, <2>4
<1> HIDE DEF P
<1>2. P[9] = Upgrade002[1] /\ P[10] = Upgrade002[2] /\ P[11] = Upgrade002[3]
  <2>1. 9 = 8 + 1 /\ 10 = 8 + 2 /\ 11 = 8 + 3
    OBVIOUS
  <2> QED BY <1>1, <2>1
<1>3. /\ P[1] = Statement("create", "publishers")
      /\ P[2] = Statement("create", "agents")
      /\ P[3] = Statement("create", "agent_versions")
      /\ P[4] = Statement("create", "capabilities")
      /\ P[5] = Statement("create", "agent_endpoints")
      /\ P[6] = Statement("create", "tags")
      /\ P[7] = Statement("create", "agent_tags")
      /\ P[8] = Statement("stamp", "001")
      /\ P[9] = Statement("create", "api_keys")
      /\ P[10] = Statement("create", "api_key_usage_logs")
      /\ P[11] = Statement("copy", "api_keys")
      /\ P[12] = Statement("stamp", "002")
  BY <1>1, <1>2, Upgrade001Is, Upgrade002Is
<1>4. /\ P[1].do = "create" /\ P[2].do = "create" /\ P[3].do = "create"
      /\ P[4].do = "create" /\ P[5].do = "create" /\ P[6].do = "create"
      /\ P[7].do = "create" /\ P[8].do = "stamp" /\ P[9].do = "create"
      /\ P[10].do = "create" /\ P[11].do = "copy" /\ P[12].do = "stamp"
      /\ P[1].arg = "publishers" /\ P[2].arg = "agents"
      /\ P[3].arg = "agent_versions" /\ P[4].arg = "capabilities"
      /\ P[5].arg = "agent_endpoints" /\ P[6].arg = "tags"
      /\ P[7].arg = "agent_tags" /\ P[8].arg = "001"
      /\ P[9].arg = "api_keys" /\ P[10].arg = "api_key_usage_logs"
      /\ P[11].arg = "api_keys" /\ P[12].arg = "002"
  BY <1>3 DEF Statement
<1>5. \A i \in 1..12 : i \in {1, 2, 3, 4, 5, 6, 7, 8, 9, 10, 11, 12}
  OBVIOUS
<1>6. \A i \in 1..12 : \A t : t \in Done(P, i, "create") <=>
         \E k \in 1..12 : k <= i /\ P[k].do = "create" /\ P[k].arg = t
  BY DEF Done
<1>7. Done(P, 8, "create") = Of001 /\ Done(P, 12, "create") = Tables
  <2>1. \A t : t \in Done(P, 8, "create") <=> t \in Of001
    BY <1>4, <1>5, <1>6, TablesOfIs
  <2>2. \A t : t \in Done(P, 12, "create") <=> t \in Tables
    BY <1>4, <1>5, <1>6 DEF Tables
  <2> QED BY <2>1, <2>2
<1>8. \A i \in 1..12 : Done(P, i, "drop") = {}
  BY <1>4, <1>5 DEF Done
<1>9. \A i \in 1..12 : P[i].do = "stamp" =>
         /\ P[i].arg \in Revisions
         /\ (TablesOf("none") \cup Done(P, i, "create")) \ Done(P, i, "drop")
            = TablesOf(P[i].arg)
  BY <1>4, <1>5, <1>7, <1>8, TablesOfIs DEF Revisions
<1>10. "api_keys" \in Done(P, 11, "create") /\ Within(P, 12, "copy")
  BY <1>4, <1>6 DEF Within
<1>11. \A i \in 1..12 : P[i].do \in {"create", "drop"} => P[i].arg \in Tables
  BY <1>4, <1>5 DEF Tables
<1>12. Sound(P, "none")
  BY <1>1, <1>4, <1>5, <1>9, <1>10, <1>11 DEF Sound
<1>13. Upward(P, "none")
  <2>1. SUFFICES ASSUME NEW i \in 1..12, P[i].do = "create"
                 PROVE  /\ P[i].arg \notin Done(P, i - 1, "create")
                        /\ References(P[i].arg) \subseteq Done(P, i - 1, "create")
    BY <1>1, <1>4, <1>5, TablesOfIs DEF Upward
  <2>2. \A t : t \in Done(P, i - 1, "create") <=>
           \E k \in 1..12 : k < i /\ P[k].do = "create" /\ P[k].arg = t
    BY DEF Done
  <2>3. P[i].arg \notin Done(P, i - 1, "create")
    BY <1>4, <1>5, <2>1, <2>2
  <2>4. /\ References("publishers") = {} /\ References("tags") = {}
        /\ References("agents") = {"publishers"}
        /\ References("agent_versions") = {"agents"}
        /\ References("capabilities") = {"agents"}
        /\ References("agent_endpoints") = {"agents"}
        /\ References("agent_tags") = {"agents", "tags"}
        /\ References("api_keys") = {"publishers"}
        /\ References("api_key_usage_logs") = {"api_keys"}
    BY DEF References
  <2>5. References(P[i].arg) \subseteq Done(P, i - 1, "create")
    BY <1>4, <1>5, <2>1, <2>2, <2>4
  <2> QED BY <2>3, <2>5
<1> QED BY <1>12, <1>13 DEF P

\* From 001 to 002.
LEMMA KeyUpgrade ==
    LET P == Upgrade002 \o Stamp("002")
    IN  Sound(P, "001") /\ Upward(P, "001")
<1> DEFINE P == Upgrade002 \o Stamp("002")
<1>1. /\ P \in Seq(Statements) /\ Len(P) = 4
      /\ \A i \in 1..3 : P[i] = Upgrade002[i]
      /\ P[4] = Statement("stamp", "002")
  <2>1. Upgrade002 \in Seq(Statements) /\ Len(Upgrade002) = 3 /\ "002" \in Revisions
    BY Upgrade002Is DEF Revisions
  <2>2. /\ P \in Seq(Statements) /\ Len(P) = Len(Upgrade002) + 1
        /\ \A i \in 1..Len(Upgrade002) : P[i] = Upgrade002[i]
        /\ P[Len(Upgrade002) + 1] = Statement("stamp", "002")
    BY <2>1, Stamped
  <2> HIDE DEF P
  <2> QED BY <2>1, <2>2
<1> HIDE DEF P
<1>2. /\ P[1] = Statement("create", "api_keys")
      /\ P[2] = Statement("create", "api_key_usage_logs")
      /\ P[3] = Statement("copy", "api_keys")
      /\ P[4] = Statement("stamp", "002")
  BY <1>1, Upgrade002Is
<1>3. /\ P[1].do = "create" /\ P[2].do = "create" /\ P[3].do = "copy"
      /\ P[4].do = "stamp"
      /\ P[1].arg = "api_keys" /\ P[2].arg = "api_key_usage_logs"
      /\ P[3].arg = "api_keys" /\ P[4].arg = "002"
  BY <1>2 DEF Statement
<1>4. \A i \in 1..4 : i \in {1, 2, 3, 4}
  OBVIOUS
<1>5. \A i \in 1..4 : \A t : t \in Done(P, i, "create") <=>
         \E k \in 1..4 : k <= i /\ P[k].do = "create" /\ P[k].arg = t
  BY DEF Done
<1>6. Of001 \cup Done(P, 4, "create") = Tables
  <2>1. \A t : t \in Of001 \cup Done(P, 4, "create") <=> t \in Tables
    BY <1>3, <1>4, <1>5, TablesOfIs DEF Tables
  <2> QED BY <2>1
<1>7. \A i \in 1..4 : Done(P, i, "drop") = {}
  BY <1>3, <1>4 DEF Done
<1>8. "api_keys" \in Done(P, 3, "create") /\ Within(P, 4, "copy")
  BY <1>3, <1>5 DEF Within
<1>9. \A i \in 1..4 : P[i].do \in {"create", "drop"} => P[i].arg \in Tables
  BY <1>3, <1>4 DEF Tables
<1>10. (Of001 \cup Done(P, 4, "create")) \ Done(P, 4, "drop") = TablesOf("002")
  BY <1>6, <1>7, TablesOfIs
<1>11. \A i \in 1..4 : P[i].do = "stamp" => i = 4
  BY <1>3, <1>4
<1>12. \A i \in 1..4 : P[i].do = "copy" => i = 3
  BY <1>3, <1>4
<1>13. \A i \in 1..4 : P[i].do # "drop"
  BY <1>3, <1>4
<1>14. Sound(P, "001")
  BY <1>1, <1>3, <1>8, <1>9, <1>10, <1>11, <1>12, <1>13, TablesOfIs DEF Sound, Revisions
<1>15. Upward(P, "001")
  <2>1. SUFFICES ASSUME NEW i \in 1..4, P[i].do = "create"
                 PROVE  LET there == Of001 \cup Done(P, i - 1, "create")
                        IN  P[i].arg \notin there /\ References(P[i].arg) \subseteq there
    BY <1>1, <1>3, <1>13, TablesOfIs DEF Upward
  <2>2. \A t : t \in Done(P, i - 1, "create") <=>
           \E k \in 1..4 : k < i /\ P[k].do = "create" /\ P[k].arg = t
    BY DEF Done
  <2>3. References("api_keys") = {"publishers"} /\ References("api_key_usage_logs") = {"api_keys"}
    BY DEF References
  <2>4. "publishers" \in Of001 /\ "api_keys" \notin Of001 /\ "api_key_usage_logs" \notin Of001
    BY TablesOfIs
  <2> QED BY <1>3, <1>4, <2>1, <2>2, <2>3, <2>4
<1> QED BY <1>14, <1>15 DEF P

\* From 002 back to 001.
LEMMA KeyDowngrade == Sound(Downgrade002 \o Stamp("001"), "002")
<1> DEFINE P == Downgrade002 \o Stamp("001")
<1>1. /\ P \in Seq(Statements) /\ Len(P) = 3
      /\ \A i \in 1..2 : P[i] = Downgrade002[i]
      /\ P[3] = Statement("stamp", "001")
  <2>1. Downgrade002 \in Seq(Statements) /\ Len(Downgrade002) = 2 /\ "001" \in Revisions
    BY Downgrade002Is DEF Revisions
  <2>2. /\ P \in Seq(Statements) /\ Len(P) = Len(Downgrade002) + 1
        /\ \A i \in 1..Len(Downgrade002) : P[i] = Downgrade002[i]
        /\ P[Len(Downgrade002) + 1] = Statement("stamp", "001")
    BY <2>1, Stamped
  <2> HIDE DEF P
  <2> QED BY <2>1, <2>2
<1> HIDE DEF P
<1>2. /\ P[1] = Statement("drop", "api_key_usage_logs")
      /\ P[2] = Statement("drop", "api_keys")
      /\ P[3] = Statement("stamp", "001")
  BY <1>1, Downgrade002Is
<1>3. /\ P[1].do = "drop" /\ P[2].do = "drop" /\ P[3].do = "stamp"
      /\ P[1].arg = "api_key_usage_logs" /\ P[2].arg = "api_keys"
      /\ P[3].arg = "001"
  BY <1>2 DEF Statement
<1>4. \A i \in 1..3 : i \in {1, 2, 3}
  OBVIOUS
<1>5. \A i \in 1..3 : \A t : t \in Done(P, i, "drop") <=>
         \E k \in 1..3 : k <= i /\ P[k].do = "drop" /\ P[k].arg = t
  BY DEF Done
<1>6. \A i \in 1..3 : Done(P, i, "create") = {}
  BY <1>3, <1>4 DEF Done
<1>7. TablesOf("002") \ Done(P, 3, "drop") = TablesOf("001")
  <2>1. \A t : t \in TablesOf("002") \ Done(P, 3, "drop") <=> t \in TablesOf("001")
    BY <1>3, <1>4, <1>5, TablesOfIs DEF Tables
  <2> QED BY <2>1
<1>8. \A i \in 1..3 : P[i].do \in {"create", "drop"} => P[i].arg \in Tables
  BY <1>3, <1>4 DEF Tables
<1>9. \A i \in 1..3 : P[i].do = "stamp" => i = 3
  BY <1>3, <1>4
<1>10. \A i \in 1..3 : P[i].do # "copy"
  BY <1>3, <1>4
<1>11. Sound(P, "002")
  BY <1>1, <1>3, <1>6, <1>7, <1>8, <1>9, <1>10 DEF Sound, Revisions
<1> QED BY <1>11 DEF P

\* From 001 back to nothing.
LEMMA FirstDowngrade == Sound(Downgrade001 \o Stamp("none"), "001")
<1> DEFINE P == Downgrade001 \o Stamp("none")
<1>1. /\ P \in Seq(Statements) /\ Len(P) = 8
      /\ \A i \in 1..7 : P[i] = Downgrade001[i]
      /\ P[8] = Statement("stamp", "none")
  <2>1. Downgrade001 \in Seq(Statements) /\ Len(Downgrade001) = 7 /\ "none" \in Revisions
    BY Downgrade001Is DEF Revisions
  <2>2. /\ P \in Seq(Statements) /\ Len(P) = Len(Downgrade001) + 1
        /\ \A i \in 1..Len(Downgrade001) : P[i] = Downgrade001[i]
        /\ P[Len(Downgrade001) + 1] = Statement("stamp", "none")
    BY <2>1, Stamped
  <2> HIDE DEF P
  <2> QED BY <2>1, <2>2
<1> HIDE DEF P
<1>2. /\ P[1] = Statement("drop", "agent_tags")
      /\ P[2] = Statement("drop", "tags")
      /\ P[3] = Statement("drop", "agent_endpoints")
      /\ P[4] = Statement("drop", "capabilities")
      /\ P[5] = Statement("drop", "agent_versions")
      /\ P[6] = Statement("drop", "agents")
      /\ P[7] = Statement("drop", "publishers")
      /\ P[8] = Statement("stamp", "none")
  BY <1>1, Downgrade001Is
<1>3. /\ P[1].do = "drop" /\ P[2].do = "drop" /\ P[3].do = "drop"
      /\ P[4].do = "drop" /\ P[5].do = "drop" /\ P[6].do = "drop"
      /\ P[7].do = "drop" /\ P[8].do = "stamp"
      /\ P[1].arg = "agent_tags" /\ P[2].arg = "tags"
      /\ P[3].arg = "agent_endpoints" /\ P[4].arg = "capabilities"
      /\ P[5].arg = "agent_versions" /\ P[6].arg = "agents"
      /\ P[7].arg = "publishers" /\ P[8].arg = "none"
  BY <1>2 DEF Statement
<1>4. \A i \in 1..8 : i \in {1, 2, 3, 4, 5, 6, 7, 8}
  OBVIOUS
<1>5. \A i \in 1..8 : \A t : t \in Done(P, i, "drop") <=>
         \E k \in 1..8 : k <= i /\ P[k].do = "drop" /\ P[k].arg = t
  BY DEF Done
<1>6. \A i \in 1..8 : Done(P, i, "create") = {}
  BY <1>3, <1>4 DEF Done
<1>7. TablesOf("001") \ Done(P, 8, "drop") = TablesOf("none")
  <2>1. \A t : t \in TablesOf("001") \ Done(P, 8, "drop") <=> t \in TablesOf("none")
    BY <1>3, <1>4, <1>5, TablesOfIs DEF Tables
  <2> QED BY <2>1
<1>8. \A i \in 1..8 : P[i].do \in {"create", "drop"} => P[i].arg \in Tables
  BY <1>3, <1>4 DEF Tables
<1>9. \A i \in 1..8 : P[i].do = "stamp" => i = 8
  BY <1>3, <1>4
<1>10. \A i \in 1..8 : P[i].do # "copy"
  BY <1>3, <1>4
<1>11. Sound(P, "001")
  BY <1>1, <1>3, <1>6, <1>7, <1>8, <1>9, <1>10 DEF Sound, Revisions
<1> QED BY <1>11 DEF P

\* From 002 back to nothing.
LEMMA FullDowngrade == Sound((Downgrade002 \o Stamp("001")) \o (Downgrade001 \o Stamp("none")), "002")
<1> DEFINE P == (Downgrade002 \o Stamp("001")) \o (Downgrade001 \o Stamp("none"))
<1>1. /\ P \in Seq(Statements) /\ Len(P) = 11
      /\ \A i \in 1..2 : P[i] = Downgrade002[i]
      /\ P[3] = Statement("stamp", "001")
      /\ P[4] = Downgrade001[1] /\ P[5] = Downgrade001[2] /\ P[6] = Downgrade001[3]
      /\ P[7] = Downgrade001[4] /\ P[8] = Downgrade001[5] /\ P[9] = Downgrade001[6]
      /\ P[10] = Downgrade001[7] /\ P[11] = Statement("stamp", "none")
  <2>1. "001" \in Revisions /\ "none" \in Revisions
    BY DEF Revisions
  <2>2. /\ Downgrade002 \in Seq(Statements) /\ Len(Downgrade002) = 2
        /\ Downgrade001 \in Seq(Statements) /\ Len(Downgrade001) = 7
    BY Downgrade002Is, Downgrade001Is
  <2>3. /\ P \in Seq(Statements) /\ Len(P) = (Len(Downgrade002) + 1) + Len(Downgrade001) + 1
        /\ \A i \in 1..Len(Downgrade002) : P[i] = Downgrade002[i]
        /\ P[Len(Downgrade002) + 1] = Statement("stamp", "001")
        /\ \A i \in 1..Len(Downgrade001) : P[(Len(Downgrade002) + 1) + i] = Downgrade001[i]
        /\ P[(Len(Downgrade002) + 1) + Len(Downgrade001) + 1] = Statement("stamp", "none")
    BY <2>1, <2>2, Chained
  <2> HIDE DEF P
  <2>4. \A i \in 1..7 : P[3 + i] = Downgrade001[i]
    BY <2>2, <2>3
  <2>5. /\ 4 = 3 + 1 /\ 5 = 3 + 2 /\ 6 = 3 + 3 /\ 7 = 3 + 4 /\ 8 = 3 + 5
        /\ 9 = 3 + 6 /\ 10 = 3 + 7
    OBVIOUS
  <2>6. /\ P[4] = Downgrade001[1] /\ P[5] = Downgrade001[2] /\ P[6] = Downgrade001[3]
        /\ P[7] = Downgrade001[4] /\ P[8] = Downgrade001[5] /\ P[9] = Downgrade001[6]
        /\ P[10] = Downgrade001[7]
    BY <2>4, <2>5
  <2> QED BY <2>2, <2>3, <2>6
<1> HIDE DEF P
<1>2. /\ P[1] = Statement("drop", "api_key_usage_logs")
      /\ P[2] = Statement("drop", "api_keys")
      /\ P[3] = Statement("stamp", "001")
      /\ P[4] = Statement("drop", "agent_tags")
      /\ P[5] = Statement("drop", "tags")
      /\ P[6] = Statement("drop", "agent_endpoints")
      /\ P[7] = Statement("drop", "capabilities")
      /\ P[8] = Statement("drop", "agent_versions")
      /\ P[9] = Statement("drop", "agents")
      /\ P[10] = Statement("drop", "publishers")
      /\ P[11] = Statement("stamp", "none")
  BY <1>1, Downgrade002Is, Downgrade001Is
<1>3. /\ P[1].do = "drop" /\ P[2].do = "drop" /\ P[3].do = "stamp"
      /\ P[4].do = "drop" /\ P[5].do = "drop" /\ P[6].do = "drop"
      /\ P[7].do = "drop" /\ P[8].do = "drop" /\ P[9].do = "drop"
      /\ P[10].do = "drop" /\ P[11].do = "stamp"
      /\ P[1].arg = "api_key_usage_logs" /\ P[2].arg = "api_keys"
      /\ P[3].arg = "001" /\ P[4].arg = "agent_tags"
      /\ P[5].arg = "tags" /\ P[6].arg = "agent_endpoints"
      /\ P[7].arg = "capabilities" /\ P[8].arg = "agent_versions"
      /\ P[9].arg = "agents" /\ P[10].arg = "publishers"
      /\ P[11].arg = "none"
  BY <1>2 DEF Statement
<1>4. \A i \in 1..11 : i \in {1, 2, 3, 4, 5, 6, 7, 8, 9, 10, 11}
  OBVIOUS
<1>5. \A i \in 1..11 : \A t : t \in Done(P, i, "drop") <=>
         \E k \in 1..11 : k <= i /\ P[k].do = "drop" /\ P[k].arg = t
  BY DEF Done
<1>6. \A i \in 1..11 : Done(P, i, "create") = {}
  BY <1>3, <1>4 DEF Done
<1>7. TablesOf("002") \ Done(P, 3, "drop") = TablesOf("001")
  <2>1. \A t : t \in TablesOf("002") \ Done(P, 3, "drop") <=> t \in TablesOf("001")
    BY <1>3, <1>4, <1>5, TablesOfIs DEF Tables
  <2> QED BY <2>1
<1>8. TablesOf("002") \ Done(P, 11, "drop") = TablesOf("none")
  <2>1. \A t : t \in TablesOf("002") \ Done(P, 11, "drop") <=> t \in TablesOf("none")
    BY <1>3, <1>4, <1>5, TablesOfIs DEF Tables
  <2> QED BY <2>1
<1>9. \A i \in 1..11 : P[i].do \in {"create", "drop"} => P[i].arg \in Tables
  BY <1>3, <1>4 DEF Tables
<1>10. \A i \in 1..11 : P[i].do = "stamp" => i = 3 \/ i = 11
  BY <1>3, <1>4
<1>11. \A i \in 1..11 : P[i].do # "copy"
  BY <1>3, <1>4
<1>12. Sound(P, "002")
  BY <1>1, <1>3, <1>6, <1>7, <1>8, <1>9, <1>10, <1>11 DEF Sound, Revisions
<1> QED BY <1>12 DEF P

\* Nothing to do.
LEMMA NoPlan == (\A f : Sound(<<>>, f)) /\ Upward(<<>>, "002")
<1>1. <<>> \in Seq(Statements) /\ Len(<<>>) = 0 /\ \A i \in 1..0 : FALSE
  BY EmptySeq
<1>2. ASSUME NEW f PROVE Sound(<<>>, f)
  BY <1>1 DEF Sound
<1>3. Upward(<<>>, "002")
  BY <1>1 DEF Upward
<1> QED BY <1>2, <1>3

\* Every plan Alembic makes is sound.
LEMMA PlanFacts ==
    ASSUME NEW c \in Commands, NEW f \in Revisions, ~(c = "back" /\ f = "none")
    PROVE  /\ Sound(Plan(c, f), f)
           /\ c \in {"start", "upgrade"} => Upward(Plan(c, f), f)
<1>1. c \in {"start", "upgrade", "back", "base"} /\ f \in {"none", "001", "002"}
  BY CommandAssumption DEF Revisions
<1>2. \A s \in Seq(Statements) : <<>> \o s = s /\ s \o <<>> = s
  BY ConcatEmptySeq
<1>3. /\ <<>> \in Seq(Statements)
      /\ Upgrade002 \o Stamp("002") \in Seq(Statements)
      /\ Downgrade002 \o Stamp("001") \in Seq(Statements)
      /\ Downgrade001 \o Stamp("none") \in Seq(Statements)
  BY KeyUpgrade, KeyDowngrade, FirstDowngrade, NoPlan DEF Sound
<1>4. CASE c \in {"start", "upgrade"}
  <2>1. CASE f = "none"
    <3>1. Plan(c, f) = (Upgrade001 \o Stamp("001")) \o (Upgrade002 \o Stamp("002"))
      BY <1>4, <2>1 DEF Plan
    <3> QED BY <2>1, <3>1, FreshUpgrade
  <2>2. CASE f = "001"
    <3>1. Plan(c, f) = <<>> \o (Upgrade002 \o Stamp("002"))
      BY <1>4, <2>2 DEF Plan
    <3> QED BY <1>2, <1>3, <2>2, <3>1, KeyUpgrade
  <2>3. CASE f = "002"
    <3>1. Plan(c, f) = <<>> \o <<>>
      BY <1>4, <2>3 DEF Plan
    <3> QED BY <1>2, <1>3, <2>3, <3>1, NoPlan
  <2> QED BY <1>1, <2>1, <2>2, <2>3
<1>5. CASE c = "back"
  <2>1. CASE f = "002"
    <3>1. Plan(c, f) = Downgrade002 \o Stamp("001")
      BY <1>5, <2>1 DEF Plan
    <3> QED BY <1>5, <2>1, <3>1, KeyDowngrade
  <2>2. CASE f = "001"
    <3>1. Plan(c, f) = Downgrade001 \o Stamp("none")
      BY <1>5, <2>2 DEF Plan
    <3> QED BY <1>5, <2>2, <3>1, FirstDowngrade
  <2> QED BY <1>1, <1>5, <2>1, <2>2
<1>6. CASE c = "base"
  <2>1. CASE f = "none"
    <3>1. Plan(c, f) = <<>> \o <<>>
      BY <1>6, <2>1 DEF Plan
    <3> QED BY <1>2, <1>3, <1>6, <3>1, NoPlan
  <2>2. CASE f = "001"
    <3>1. Plan(c, f) = <<>> \o (Downgrade001 \o Stamp("none"))
      BY <1>6, <2>2 DEF Plan
    <3> QED BY <1>2, <1>3, <1>6, <2>2, <3>1, FirstDowngrade
  <2>3. CASE f = "002"
    <3>1. Plan(c, f) = (Downgrade002 \o Stamp("001")) \o (Downgrade001 \o Stamp("none"))
      BY <1>6, <2>3 DEF Plan
    <3> QED BY <1>6, <2>3, <3>1, FullDowngrade
  <2> QED BY <1>1, <2>1, <2>2, <2>3
<1> QED BY <1>1, <1>4, <1>5, <1>6
-------------------------------------------------------------------------------
(* Places in a plan *)

LEMMA NineTables == Cardinality(Tables) = 9
<1> DEFINE t1 == {"publishers"}
           t2 == t1 \cup {"agents"}
           t3 == t2 \cup {"agent_versions"}
           t4 == t3 \cup {"capabilities"}
           t5 == t4 \cup {"agent_endpoints"}
           t6 == t5 \cup {"tags"}
           t7 == t6 \cup {"agent_tags"}
           t8 == t7 \cup {"api_keys"}
           t9 == t8 \cup {"api_key_usage_logs"}
<1>1. IsFiniteSet(t1) /\ Cardinality(t1) = 1
  BY FS_Singleton
<1>2. IsFiniteSet(t2) /\ Cardinality(t2) = 2
  <2>1. "agents" \notin t1
    OBVIOUS
  <2> HIDE DEF t1
  <2> QED BY <1>1, <2>1, FS_AddElement
<1>3. IsFiniteSet(t3) /\ Cardinality(t3) = 3
  <2>1. "agent_versions" \notin t2
    OBVIOUS
  <2> HIDE DEF t2
  <2> QED BY <1>2, <2>1, FS_AddElement
<1>4. IsFiniteSet(t4) /\ Cardinality(t4) = 4
  <2>1. "capabilities" \notin t3
    OBVIOUS
  <2> HIDE DEF t3
  <2> QED BY <1>3, <2>1, FS_AddElement
<1>5. IsFiniteSet(t5) /\ Cardinality(t5) = 5
  <2>1. "agent_endpoints" \notin t4
    OBVIOUS
  <2> HIDE DEF t4
  <2> QED BY <1>4, <2>1, FS_AddElement
<1>6. IsFiniteSet(t6) /\ Cardinality(t6) = 6
  <2>1. "tags" \notin t5
    OBVIOUS
  <2> HIDE DEF t5
  <2> QED BY <1>5, <2>1, FS_AddElement
<1>7. IsFiniteSet(t7) /\ Cardinality(t7) = 7
  <2>1. "agent_tags" \notin t6
    OBVIOUS
  <2> HIDE DEF t6
  <2> QED BY <1>6, <2>1, FS_AddElement
<1>8. IsFiniteSet(t8) /\ Cardinality(t8) = 8
  <2>1. "api_keys" \notin t7
    OBVIOUS
  <2> HIDE DEF t7
  <2> QED BY <1>7, <2>1, FS_AddElement
<1>9. IsFiniteSet(t9) /\ Cardinality(t9) = 9
  <2>1. "api_key_usage_logs" \notin t8
    OBVIOUS
  <2> HIDE DEF t8
  <2> QED BY <1>8, <2>1, FS_AddElement
<1>10. Tables = t9
  BY DEF Tables
<1> QED BY <1>9, <1>10

LEMMA DoneNothing ==
    \A P, what : Done(P, 0, what) = {} /\ ~Within(P, 0, what)
BY DEF Done, Within

LEMMA DoneMore ==
    ASSUME NEW P, NEW i \in Nat, NEW what
    PROVE  /\ Done(P, i + 1, what)
              = Done(P, i, what) \cup (IF P[i + 1].do = what THEN {P[i + 1].arg} ELSE {})
           /\ Within(P, i + 1, what) <=> Within(P, i, what) \/ P[i + 1].do = what
<1>1. \A k : k \in 1..(i + 1) <=> k \in 1..i \/ k = i + 1
  OBVIOUS
<1>2. \A t : t \in Done(P, i + 1, what) <=>
         t \in Done(P, i, what) \/ (P[i + 1].do = what /\ t = P[i + 1].arg)
  BY <1>1 DEF Done
<1>3. Within(P, i + 1, what) <=> Within(P, i, what) \/ P[i + 1].do = what
  BY <1>1 DEF Within
<1> QED BY <1>2, <1>3

\* A run is somewhere in a plan that is sound.
LEMMA PlaceOf ==
    ASSUME TypeOK, PlaceInv, NEW m \in Runners, Running(m)
    PROVE  \E f \in Revisions, i \in 0..12 :
              /\ At(m, f, i) /\ Sound(Plan(command[m], f), f)
              /\ command[m] \in {"start", "upgrade"} => Upward(Plan(command[m], f), f)
<1>1. command[m] \in Commands
  BY DEF TypeOK, Running
<1>2. PICK f \in Revisions, i \in 0..12 : At(m, f, i)
  BY DEF PlaceInv
<1>3. ~(command[m] = "back" /\ f = "none")
  BY <1>2 DEF At
<1> QED BY <1>1, <1>2, <1>3, PlanFacts

\* What a step has to leave alone for a run to stay where it is.
LEMMA AtKept ==
    ASSUME NEW n, NEW f, NEW i, At(n, f, i),
           command'[n] = command[n], todo'[n] = todo[n], head'[n] = head[n],
           created'[n] = created[n], dropped'[n] = dropped[n], copied'[n] = copied[n],
           n \in stamped' <=> n \in stamped,
           \/ publishers' = publishers
           \/ ~Within(Plan(command[n], f), i, "copy"),
           n \in stamped => version' = version,
           UpgradesOnly' => UpgradesOnly,
           UpgradesOnly => version' \in {version, "002"}
    PROVE  At(n, f, i)'
<1> DEFINE P == Plan(command[n], f)
<1>1. Plan(command[n], f)' = P
  BY DEF Plan
<1> HIDE DEF P
<1> QED BY <1>1 DEF At, P

\* Who has copied the keys holds api_keys, and publishers with it.
LEMMA CopyHolds ==
    ASSUME NEW n, NEW f, NEW i \in Nat, At(n, f, i), Sound(Plan(command[n], f), f),
           Within(Plan(command[n], f), i, "copy")
    PROVE  /\ "api_keys" \in created[n] /\ dropped[n] = {}
           /\ "api_keys" \in Locked(n) /\ "publishers" \in Locked(n)
<1> DEFINE P == Plan(command[n], f)
<1>1. /\ i <= Len(P) /\ Len(P) \in Nat
      /\ created[n] = Done(P, i, "create") /\ dropped[n] = Done(P, i, "drop")
  BY DEF At, Sound
<1>2. PICK k \in 1..i : P[k].do = "copy"
  BY DEF Within
<1>3. k \in 1..Len(P)
  BY <1>1
<1>4. "api_keys" \in Done(P, k, "create") /\ \A j \in 1..Len(P) : P[j].do # "drop"
  BY <1>2, <1>3 DEF Sound
<1> HIDE DEF P
<1>5. "api_keys" \in Done(P, i, "create")
  BY <1>4 DEF Done
<1>6. Done(P, i, "drop") = {}
  BY <1>1, <1>4 DEF Done
<1>7. References("api_keys") = {"publishers"}
  BY DEF References
<1> QED BY <1>1, <1>5, <1>6, <1>7 DEF Locked
-------------------------------------------------------------------------------
(* The invariant *)

LEMMA MigrationInit == Init => MigrationInv
<1> SUFFICES ASSUME Init PROVE MigrationInv
  OBVIOUS
<1>1. /\ version \in Revisions /\ tables = TablesOf(version)
      /\ publishers \in IF version = "none" THEN {{}} ELSE SUBSET Publishers
      /\ keys = [p \in Publishers |-> IF version = "002" /\ p \in publishers
                                      THEN FirstKey ELSE NoKeys[p]]
      /\ command = [m \in Runners |-> Nil] /\ outcome = [m \in Runners |-> Nil]
      /\ head = [m \in Runners |-> Nil] /\ todo = [m \in Runners |-> <<>>]
      /\ created = [m \in Runners |-> {}] /\ dropped = [m \in Runners |-> {}]
      /\ copied = [m \in Runners |-> {}] /\ stamped = {} /\ serving = {}
  BY DEF Init
<1>2. /\ tables \subseteq Tables
      /\ version \in {"001", "002"} => "publishers" \in tables
      /\ version = "002" => "api_keys" \in tables
      /\ publishers \subseteq Publishers /\ (version = "none" => publishers = {})
  BY <1>1, TablesOfIs DEF Tables, Revisions
<1>3. /\ FirstKey \in [Names -> Statuses \cup {Nil}]
      /\ \A p \in Publishers : NoKeys[p] \in [Names -> Statuses \cup {Nil}]
  BY DEF FirstKey, NoKeys, Statuses
<1>4. /\ keys \in [Publishers -> [Names -> Statuses \cup {Nil}]]
      /\ \A p \in Publishers : keys[p] # NoKeys[p] => version = "002" /\ p \in publishers
      /\ version = "002" => \A p \in publishers : keys[p] = FirstKey
  BY <1>1, <1>2, <1>3
<1>5. TypeOK
  <2>1. /\ todo \in [Runners -> Seq(Statements)]
        /\ \A m \in Runners : Len(todo[m]) <= Cardinality(Tables) + 3
    BY <1>1, EmptySeq, NineTables
  <2>2. /\ publishers # {} => "publishers" \in tables
        /\ \A p \in Publishers : keys[p] # NoKeys[p] => p \in publishers /\ "api_keys" \in tables
    BY <1>1, <1>2, <1>4 DEF Revisions
  <2> QED BY <1>1, <1>2, <1>4, <2>1, <2>2 DEF TypeOK
<1>6. PlaceInv /\ EndedInv /\ LockInv
  BY <1>1 DEF PlaceInv, EndedInv, LockInv, Running, Locked
<1>7. SchemaIsARevision /\ RefusedUpgradeIsDone
  BY <1>1, CommandAssumption DEF SchemaIsARevision, RefusedUpgradeIsDone
<1>8. EveryPublisherHasItsFirstKey
  BY <1>4, CommandAssumption DEF EveryPublisherHasItsFirstKey, FirstKey, Names
<1> QED BY <1>5, <1>6, <1>7, <1>8 DEF MigrationInv

\* The end of a run that changes nothing in the database.
LEMMA EndStep ==
    ASSUME MigrationInv, NEW m \in Runners, Running(m), NEW result \in {"refused", "failed"},
           End(m, result), UNCHANGED database,
           result = "refused" /\ command[m] \in {"start", "upgrade"} /\ UpgradesOnly
              => version = "002"
    PROVE  MigrationInv'
<1> USE DEF MigrationInv
<1>1. /\ outcome' = [outcome EXCEPT ![m] = result]
      /\ created' = [created EXCEPT ![m] = {}] /\ dropped' = [dropped EXCEPT ![m] = {}]
      /\ copied' = [copied EXCEPT ![m] = {}] /\ stamped' = stamped \ {m}
      /\ command' = command /\ head' = head /\ todo' = todo /\ serving' = serving
      /\ tables' = tables /\ version' = version /\ publishers' = publishers /\ keys' = keys
  BY DEF End, database
<1>2. TypeOK'
  BY <1>1 DEF TypeOK, NoKeys
<1>3. /\ outcome'[m] = result /\ created'[m] = {} /\ dropped'[m] = {} /\ copied'[m] = {}
      /\ m \notin stamped' /\ result # Nil
      /\ \A n \in Runners \ {m} :
            /\ outcome'[n] = outcome[n] /\ created'[n] = created[n]
            /\ dropped'[n] = dropped[n] /\ copied'[n] = copied[n]
            /\ n \in stamped' <=> n \in stamped
  BY <1>1, CommandAssumption DEF TypeOK
<1>4. UpgradesOnly' = UpgradesOnly
  BY <1>1 DEF UpgradesOnly
<1>5. PlaceInv'
  <2>1. SUFFICES ASSUME NEW n \in Runners, Running(n)'
                 PROVE  \E f \in Revisions, i \in 0..12 : At(n, f, i)'
    BY DEF PlaceInv
  <2>2. n # m /\ Running(n)
    BY <1>1, <1>3, <2>1 DEF Running
  <2>3. PICK f \in Revisions, i \in 0..12 : At(n, f, i)
    BY <2>2 DEF PlaceInv
  <2>4. At(n, f, i)'
    BY <1>1, <1>3, <1>4, <2>2, <2>3, AtKept
  <2> QED BY <2>4
<1>6. EndedInv'
  BY <1>1, <1>3 DEF EndedInv, Running
<1>7. LockInv'
  <2>1. \A n \in Runners : Locked(n)' = IF n = m THEN {} ELSE Locked(n)
    BY <1>3 DEF Locked
  <2>2. \A n, k \in stamped' : n = k
    BY <1>1 DEF LockInv
  <2>3. \A n, k \in Runners : n # k => Locked(n)' \cap Locked(k)' = {}
    BY <2>1 DEF LockInv
  <2> QED BY <2>2, <2>3 DEF LockInv
<1>8. SchemaIsARevision' /\ EveryPublisherHasItsFirstKey'
  BY <1>1 DEF SchemaIsARevision, EveryPublisherHasItsFirstKey, TablesOf
<1>9. RefusedUpgradeIsDone'
  BY <1>1, <1>3 DEF RefusedUpgradeIsDone, UpgradesOnly
<1> QED BY <1>2, <1>5, <1>6, <1>7, <1>8, <1>9

LEMMA FailStep == ASSUME MigrationInv, NEW m \in Runners, Fail(m) PROVE MigrationInv'
BY EndStep DEF Fail

LEMMA BeginStep == ASSUME MigrationInv, NEW m \in Runners, Begin(m) PROVE MigrationInv'
<1> USE DEF MigrationInv
<1>1. PICK c \in Commands :
         /\ command' = [command EXCEPT ![m] = c]
         /\ IF c = "back" /\ version = "none"
            THEN outcome' = [outcome EXCEPT ![m] = "refused"] /\ UNCHANGED <<head, todo>>
            ELSE /\ head' = [head EXCEPT ![m] = version]
                 /\ todo' = [todo EXCEPT ![m] = Plan(c, version)]
                 /\ UNCHANGED outcome
  BY DEF Begin
<1>2. /\ command[m] = Nil
      /\ tables' = tables /\ version' = version /\ publishers' = publishers /\ keys' = keys
      /\ created' = created /\ dropped' = dropped /\ copied' = copied /\ stamped' = stamped
      /\ serving' = serving
  BY DEF Begin, database, work
<1>3. c # Nil /\ version \in Revisions /\ Nil # "refused"
  BY CommandAssumption DEF TypeOK
<1>4. /\ command'[m] = c /\ m \in Runners
      /\ \A n \in Runners \ {m} : /\ command'[n] = command[n] /\ outcome'[n] = outcome[n]
                                  /\ head'[n] = head[n] /\ todo'[n] = todo[n]
  BY <1>1 DEF TypeOK
<1>5. ~(c = "back" /\ version = "none") =>
         /\ head'[m] = version /\ todo'[m] = Plan(c, version) /\ outcome'[m] = outcome[m]
         /\ Sound(Plan(c, version), version)
  BY <1>1, <1>3, PlanFacts DEF TypeOK
<1>6. (c = "back" /\ version = "none") => outcome'[m] = "refused"
  BY <1>1 DEF TypeOK
<1>7. UpgradesOnly' => UpgradesOnly
  BY <1>2, <1>4 DEF UpgradesOnly
<1>8. TypeOK'
  <2>1. /\ command' \in [Runners -> Commands \cup {Nil}]
        /\ outcome' \in [Runners -> {"ok", "refused", "failed", Nil}]
        /\ head' \in [Runners -> Revisions \cup {Nil}]
    BY <1>1, <1>3 DEF TypeOK
  <2>2. /\ todo' \in [Runners -> Seq(Statements)]
        /\ \A n \in Runners : Len(todo'[n]) <= Cardinality(Tables) + 3
    <3>1. CASE c = "back" /\ version = "none"
      BY <1>1, <3>1 DEF TypeOK
    <3>2. CASE ~(c = "back" /\ version = "none")
      <4>1. Plan(c, version) \in Seq(Statements) /\ Len(Plan(c, version)) <= 12
        BY <1>5, <3>2 DEF Sound
      <4>2. todo' = [todo EXCEPT ![m] = Plan(c, version)]
        BY <1>1, <3>2
      <4>3. todo' \in [Runners -> Seq(Statements)]
        BY <4>1, <4>2 DEF TypeOK
      <4>4. \A n \in Runners : Len(todo'[n]) <= Cardinality(Tables) + 3
        <5> SUFFICES ASSUME NEW n \in Runners PROVE Len(todo'[n]) <= Cardinality(Tables) + 3
          OBVIOUS
        <5>1. CASE n = m
          <6>1. Len(todo'[n]) <= 12
            BY <1>5, <3>2, <4>1, <5>1
          <6> QED BY <6>1, NineTables
        <5>2. CASE n # m
          BY <1>4, <5>2 DEF TypeOK
        <5> QED BY <5>1, <5>2
      <4> QED BY <4>3, <4>4
    <3> QED BY <3>1, <3>2
  <2> QED BY <1>2, <2>1, <2>2 DEF TypeOK, NoKeys
<1>9. PlaceInv'
  <2>1. SUFFICES ASSUME NEW n \in Runners, Running(n)'
                 PROVE  \E f \in Revisions, i \in 0..12 : At(n, f, i)'
    BY DEF PlaceInv
  <2>2. CASE n = m
    <3>1. ~(c = "back" /\ version = "none")
      BY <1>3, <1>6, <2>1, <2>2 DEF Running
    <3>2. created[m] = {} /\ dropped[m] = {} /\ copied[m] = {} /\ m \notin stamped
      BY <1>2 DEF EndedInv, Running
    <3> DEFINE P == Plan(c, version)
    <3>3. P \in Seq(Statements) /\ Len(P) \in Nat /\ Plan(command'[m], version) = P
      BY <1>4, <1>5, <3>1 DEF Sound
    <3>4. todo'[m] = P /\ head'[m] = version
      BY <1>5, <3>1
    <3> HIDE DEF P
    <3>5. \A f : Plan(command[m], f)' = Plan(command'[m], f)
      BY DEF Plan
    <3>6. At(m, version, 0)'
      BY <1>2, <1>4, <3>1, <3>2, <3>3, <3>4, <3>5, DoneNothing DEF At
    <3> QED BY <1>2, <1>3, <2>2, <3>6
  <2>3. CASE n # m
    <3>1. Running(n)
      BY <1>4, <2>1, <2>3 DEF Running
    <3>2. PICK f \in Revisions, i \in 0..12 : At(n, f, i)
      BY <3>1 DEF PlaceInv
    <3>3. At(n, f, i)'
      BY <1>2, <1>4, <1>7, <2>3, <3>2, AtKept
    <3> QED BY <3>3
  <2> QED BY <2>2, <2>3
<1>10. EndedInv'
  <2>1. created[m] = {} /\ dropped[m] = {} /\ copied[m] = {} /\ m \notin stamped
    BY <1>2 DEF EndedInv, Running
  <2> QED BY <1>2, <1>3, <1>4, <2>1 DEF EndedInv, Running
<1>11. LockInv' /\ SchemaIsARevision' /\ EveryPublisherHasItsFirstKey'
  BY <1>2 DEF LockInv, Locked, SchemaIsARevision, EveryPublisherHasItsFirstKey, TablesOf
<1>12. RefusedUpgradeIsDone'
  <2>1. SUFFICES ASSUME NEW n \in Runners, outcome'[n] = "refused",
                        command'[n] \in {"start", "upgrade"}, UpgradesOnly'
                 PROVE  version = "002"
    BY <1>2 DEF RefusedUpgradeIsDone, UpgradesOnly
  <2>2. CASE n # m
    BY <1>4, <1>7, <2>1, <2>2 DEF RefusedUpgradeIsDone, UpgradesOnly
  <2>3. CASE n = m
    <3>1. c \in {"start", "upgrade"} /\ outcome[m] = "refused"
      BY <1>4, <1>5, <2>1, <2>3
    <3> QED BY <1>2, <1>3, <3>1 DEF EndedInv, Running
  <2> QED BY <2>2, <2>3
<1> QED BY <1>8, <1>9, <1>10, <1>11, <1>12

\* The statement is the next one of the plan.
LEMMA NextStatement ==
    ASSUME TypeOK, NEW m \in Runners, todo[m] # <<>>,
           NEW f, NEW i \in Nat, At(m, f, i), Sound(Plan(command[m], f), f)
    PROVE  LET P == Plan(command[m], f)
           IN  /\ Head(todo[m]) = P[i + 1] /\ i + 1 <= Len(P) /\ i + 1 \in 0..12
               /\ P[i + 1] \in Statements
               /\ Tail(todo[m]) \in Seq(Statements) /\ Len(Tail(todo[m])) = Len(P) - (i + 1)
               /\ \A k \in 1..(Len(P) - (i + 1)) : Tail(todo[m])[k] = P[(i + 1) + k]
<1> DEFINE P == Plan(command[m], f)
<1>1. /\ todo[m] \in Seq(Statements) /\ Len(todo[m]) = Len(P) - i /\ i <= Len(P)
      /\ \A k \in 1..(Len(P) - i) : todo[m][k] = P[i + k]
      /\ P \in Seq(Statements) /\ Len(P) \in 0..12
  BY DEF TypeOK, At, Sound
<1> HIDE DEF P
<1>2. /\ Tail(todo[m]) \in Seq(Statements) /\ Len(Tail(todo[m])) = Len(todo[m]) - 1
      /\ \A k \in 1..Len(Tail(todo[m])) : Tail(todo[m])[k] = todo[m][k + 1]
      /\ Len(todo[m]) \in Nat \ {0} /\ Head(todo[m]) = todo[m][1]
  BY <1>1, HeadTailProperties, EmptySeq
<1>3. Head(todo[m]) = P[i + 1]
  BY <1>1, <1>2
<1>4. i + 1 <= Len(P) /\ i + 1 \in 0..12 /\ i + 1 \in 1..Len(P)
  <2> DEFINE l == Len(todo[m])
             n == Len(P)
  <2>1. l \in Nat /\ l >= 1 /\ l = n - i /\ n \in 0..12
    BY <1>1, <1>2
  <2> HIDE DEF l, n
  <2>2. i + 1 <= n /\ i + 1 \in 0..12 /\ i + 1 \in 1..n
    BY <2>1
  <2> QED BY <2>2 DEF n
<1>5. P[i + 1] \in Statements
  BY <1>1, <1>4, ElementOfSeq
<1>6. \A k \in 1..(Len(P) - (i + 1)) : Tail(todo[m])[k] = P[(i + 1) + k]
  <2> SUFFICES ASSUME NEW k \in 1..(Len(P) - (i + 1))
               PROVE  Tail(todo[m])[k] = P[(i + 1) + k]
    OBVIOUS
  <2>1. k \in 1..Len(Tail(todo[m])) /\ k + 1 \in 1..(Len(P) - i) /\ i + (k + 1) = (i + 1) + k
    BY <1>1, <1>2
  <2>2. Tail(todo[m])[k] = todo[m][k + 1] /\ todo[m][k + 1] = P[i + (k + 1)]
    BY <1>1, <1>2, <2>1
  <2> QED BY <2>1, <2>2
<1>7. Len(Tail(todo[m])) = Len(P) - (i + 1)
  BY <1>1, <1>2
<1> QED BY <1>2, <1>3, <1>4, <1>5, <1>6, <1>7 DEF P

LEMMA RunStatementStep ==
    ASSUME MigrationInv, NEW m \in Runners, RunStatement(m) PROVE MigrationInv'
<1> USE DEF MigrationInv
<1> DEFINE s == Head(todo[m])
<1>1. /\ Running(m) /\ todo[m] # <<>> /\ Free(m, s) /\ Possible(m, s)
      /\ created' = [created EXCEPT ![m] = IF s.do = "create" THEN @ \cup {s.arg} ELSE @]
      /\ dropped' = [dropped EXCEPT ![m] = IF s.do = "drop" THEN @ \cup {s.arg} ELSE @]
      /\ copied' = [copied EXCEPT ![m] = IF s.do = "copy" THEN publishers ELSE @]
      /\ head' = [head EXCEPT ![m] = IF s.do = "stamp" THEN s.arg ELSE @]
      /\ stamped' = IF s.do = "stamp" THEN stamped \cup {m} ELSE stamped
      /\ todo' = [todo EXCEPT ![m] = Tail(@)]
      /\ tables' = tables /\ version' = version /\ publishers' = publishers /\ keys' = keys
      /\ command' = command /\ outcome' = outcome /\ serving' = serving
  BY DEF RunStatement, database
<1>2. PICK f \in Revisions, i \in 0..12 :
         At(m, f, i) /\ Sound(Plan(command[m], f), f)
  BY <1>1, PlaceOf
<1> DEFINE P == Plan(command[m], f)
<1>3. /\ s = P[i + 1] /\ i + 1 <= Len(P) /\ i + 1 \in 0..12 /\ i \in Nat
      /\ P[i + 1] \in Statements
      /\ Tail(todo[m]) \in Seq(Statements) /\ Len(Tail(todo[m])) = Len(P) - (i + 1)
      /\ \A k \in 1..(Len(P) - (i + 1)) : Tail(todo[m])[k] = P[(i + 1) + k]
  <2>1. i \in Nat
    OBVIOUS
  <2> HIDE DEF s
  <2> QED BY <1>1, <1>2, <2>1, NextStatement DEF s
<1>4. /\ Len(P) \in 0..12
      /\ s.do \in {"create", "drop"} => s.arg \in Tables
      /\ s.do = "stamp" => s.arg \in Revisions
  <2>1. i + 1 \in 1..Len(P)
    BY <1>3
  <2> QED BY <1>2, <1>3, <2>1 DEF Sound
<1>5. Plan(command[m], f)' = P /\ command[m] # Nil
  BY <1>1 DEF Plan, Running
<1>6. /\ created[m] = Done(P, i, "create") /\ dropped[m] = Done(P, i, "drop")
      /\ copied[m] = IF Within(P, i, "copy") THEN publishers ELSE {}
      /\ m \in stamped <=> Within(P, i, "stamp")
      /\ m \notin stamped => head[m] = f
      /\ m \in stamped => version = f
      /\ UpgradesOnly => version \in {f, "002"}
      /\ ~(command[m] = "back" /\ f = "none")
  BY <1>2 DEF At
<1> HIDE DEF P, s
<1>7. /\ created'[m] = created[m] \cup (IF s.do = "create" THEN {s.arg} ELSE {})
      /\ dropped'[m] = dropped[m] \cup (IF s.do = "drop" THEN {s.arg} ELSE {})
      /\ copied'[m] = IF s.do = "copy" THEN publishers ELSE copied[m]
      /\ head'[m] = IF s.do = "stamp" THEN s.arg ELSE head[m]
      /\ todo'[m] = Tail(todo[m])
      /\ m \in stamped' <=> m \in stamped \/ s.do = "stamp"
  BY <1>1 DEF TypeOK
<1>8. \A n \in Runners \ {m} :
         /\ created'[n] = created[n] /\ dropped'[n] = dropped[n] /\ copied'[n] = copied[n]
         /\ head'[n] = head[n] /\ todo'[n] = todo[n] /\ (n \in stamped' <=> n \in stamped)
  BY <1>1 DEF TypeOK
<1>9. UpgradesOnly' = UpgradesOnly
  BY <1>1 DEF UpgradesOnly
<1>10. TypeOK'
  <2>1. /\ todo' \in [Runners -> Seq(Statements)]
        /\ \A n \in Runners : Len(todo'[n]) <= Cardinality(Tables) + 3
    <3>1. todo' \in [Runners -> Seq(Statements)]
      BY <1>1, <1>3 DEF TypeOK
    <3>2. Len(todo'[m]) <= 12
      <4> DEFINE l == Len(todo'[m])
                 n == Len(P)
      <4>1. l = n - (i + 1) /\ i \in Nat /\ n \in 0..12
        BY <1>3, <1>4, <1>7
      <4> HIDE DEF l, n
      <4>2. l <= 12
        BY <4>1
      <4> QED BY <4>2 DEF l
    <3>3. \A n \in Runners \ {m} : Len(todo'[n]) <= Cardinality(Tables) + 3
      BY <1>8 DEF TypeOK
    <3> QED BY <3>1, <3>2, <3>3, NineTables
  <2>2. /\ created' \in [Runners -> SUBSET Tables] /\ dropped' \in [Runners -> SUBSET Tables]
        /\ copied' \in [Runners -> SUBSET publishers]
    BY <1>1, <1>4 DEF TypeOK
  <2>3. head' \in [Runners -> Revisions \cup {Nil}] /\ stamped' \subseteq Runners
    BY <1>1, <1>4 DEF TypeOK
  <2> QED BY <1>1, <2>1, <2>2, <2>3 DEF TypeOK, NoKeys
<1>11. At(m, f, i + 1)'
  <2>1. /\ created'[m] = Done(P, i + 1, "create") /\ dropped'[m] = Done(P, i + 1, "drop")
        /\ copied'[m] = IF Within(P, i + 1, "copy") THEN publishers ELSE {}
        /\ m \in stamped' <=> Within(P, i + 1, "stamp")
    <3>1. /\ \A what : Done(P, i + 1, what)
                = Done(P, i, what) \cup (IF s.do = what THEN {s.arg} ELSE {})
          /\ \A what : Within(P, i + 1, what) <=> Within(P, i, what) \/ s.do = what
      <4>1. i \in Nat /\ s = P[i + 1]
        BY <1>3
      <4>2. \A what : Done(P, i + 1, what)
               = Done(P, i, what) \cup (IF P[i + 1].do = what THEN {P[i + 1].arg} ELSE {})
        BY <4>1, DoneMore
      <4>3. \A what : Within(P, i + 1, what) <=> Within(P, i, what) \/ P[i + 1].do = what
        BY <4>1, DoneMore
      <4> QED BY <4>1, <4>2, <4>3
    <3> QED BY <1>6, <1>7, <3>1
  <2>2. m \notin stamped' => head'[m] = f
    BY <1>6, <1>7
  <2>3. m \in stamped' => version = f
    BY <1>1, <1>6, <1>7 DEF Possible
  <2>4. P[i + 1].do = "stamp" => head'[m] = P[i + 1].arg
    BY <1>3, <1>7
  <2> QED BY <1>1, <1>3, <1>5, <1>6, <1>7, <1>9, <2>1, <2>2, <2>3, <2>4 DEF At
<1>12. PlaceInv'
  <2>1. SUFFICES ASSUME NEW n \in Runners, Running(n)'
                 PROVE  \E g \in Revisions, j \in 0..12 : At(n, g, j)'
    BY DEF PlaceInv
  <2>2. CASE n = m
    BY <1>3, <1>11, <2>2
  <2>3. CASE n # m
    <3>1. Running(n)
      BY <1>1, <2>1 DEF Running
    <3>2. PICK g \in Revisions, j \in 0..12 : At(n, g, j)
      BY <3>1 DEF PlaceInv
    <3>3. At(n, g, j)'
      BY <1>1, <1>8, <1>9, <2>3, <3>2, AtKept
    <3> QED BY <3>3
  <2> QED BY <2>2, <2>3
<1>13. EndedInv'
  BY <1>1, <1>8 DEF EndedInv, Running
<1>14. LockInv'
  <2>1. \A n, k \in stamped' : n = k
    BY <1>1 DEF LockInv, Free
  <2>2. \A n \in Runners \ {m} : Locked(n)' = Locked(n)
    BY <1>8 DEF Locked
  <2>3. Locked(m)' = Locked(m) \cup
           (IF s.do \in {"create", "drop"} THEN {s.arg} \cup References(s.arg) ELSE {})
    <3>1. created'[m] \cup dropped'[m] = (created[m] \cup dropped[m]) \cup
             (IF s.do \in {"create", "drop"} THEN {s.arg} ELSE {})
      BY <1>7
    <3> QED BY <3>1 DEF Locked
  <2>4. s.do \in {"create", "drop"} =>
           \A n \in Runners \ {m} : ({s.arg} \cup References(s.arg)) \cap Locked(n) = {}
    BY <1>1 DEF Free, Waits
  <2>5. \A n \in Runners \ {m} : Locked(m)' \cap Locked(n) = {}
    BY <2>3, <2>4 DEF LockInv
  <2>6. \A n, k \in Runners : n # k => Locked(n)' \cap Locked(k)' = {}
    BY <2>2, <2>5 DEF LockInv
  <2> QED BY <2>1, <2>6 DEF LockInv
<1>15. SchemaIsARevision' /\ EveryPublisherHasItsFirstKey' /\ RefusedUpgradeIsDone'
  BY <1>1 DEF SchemaIsARevision, EveryPublisherHasItsFirstKey, RefusedUpgradeIsDone, TablesOf
<1> QED BY <1>10, <1>12, <1>13, <1>14, <1>15

\* An upgrade among upgrades is refused nothing as long as the revision is the
\* one it started from.
LEMMA RefuseStep ==
    ASSUME MigrationInv, NEW m \in Runners, Refuse(m) PROVE MigrationInv'
<1> USE DEF MigrationInv
<1> DEFINE s == Head(todo[m])
<1>1. /\ Running(m) /\ todo[m] # <<>> /\ ~Possible(m, s)
      /\ End(m, "refused") /\ UNCHANGED database
  BY DEF Refuse
<1>2. ASSUME command[m] \in {"start", "upgrade"}, UpgradesOnly, version # "002"
      PROVE  FALSE
  <2>1. PICK f \in Revisions, i \in 0..12 :
           /\ At(m, f, i) /\ Sound(Plan(command[m], f), f)
           /\ Upward(Plan(command[m], f), f)
    BY <1>1, <1>2, PlaceOf
  <2> DEFINE P == Plan(command[m], f)
  <2>2. s = P[i + 1] /\ i + 1 \in 1..Len(P) /\ P[i + 1] \in Statements
    BY <1>1, <2>1, NextStatement
  <2>3. /\ created[m] = Done(P, i, "create") /\ dropped[m] = Done(P, i, "drop")
        /\ m \notin stamped => head[m] = f
        /\ version = f /\ i <= Len(P) /\ Len(P) \in Nat
    BY <1>2, <2>1 DEF At, Sound
  <2>4. /\ \A k \in 1..Len(P) : P[k].do # "drop"
        /\ P[i + 1].do = "create" =>
              LET there == TablesOf(f) \cup Done(P, (i + 1) - 1, "create")
              IN  P[i + 1].arg \notin there /\ References(P[i + 1].arg) \subseteq there
    BY <2>1, <2>2 DEF Upward
  <2> HIDE DEF P
  <2>5. (i + 1) - 1 = i
    OBVIOUS
  <2>6. Done(P, i, "drop") = {}
    BY <2>3, <2>4 DEF Done
  <2>7. View(m) = TablesOf(f) \cup Done(P, i, "create")
    BY <2>3, <2>6 DEF View, SchemaIsARevision
  <2>8. P[i + 1].do \in {"create", "drop", "copy", "stamp"} /\ P[i + 1].do # "drop"
    BY <2>2, <2>4 DEF Statements
  <2>9. P[i + 1].do = "create" => Possible(m, s)
    BY <2>2, <2>4, <2>5, <2>7 DEF Possible
  <2>10. P[i + 1].do = "copy" => Possible(m, s)
    BY <2>2 DEF Possible
  <2>11. P[i + 1].do = "stamp" => Possible(m, s)
    BY <2>2, <2>3 DEF Possible
  <2> QED BY <1>1, <2>8, <2>9, <2>10, <2>11
<1> HIDE DEF MigrationInv
<1> QED BY <1>1, <1>2, EndStep

\* What a commit brings: the schema of the revision it stamps and, with 002,
\* the keys of everyone; a run without a stamp has had nothing to do.
LEMMA CommitBrings ==
    ASSUME MigrationInv, NEW m \in Runners, Running(m), todo[m] = <<>>
    PROVE  /\ m \in stamped =>
                 /\ head[m] \in Revisions /\ View(m) = TablesOf(head[m])
                 /\ UpgradesOnly => head[m] = "002"
                 /\ head[m] = "002" => copied[m] = publishers /\ dropped[m] = {}
           /\ m \notin stamped => created[m] = {} /\ dropped[m] = {} /\ copied[m] = {}
           /\ copied[m] # {} => "api_keys" \in created[m] /\ dropped[m] = {}
<1> USE DEF MigrationInv
<1>1. PICK f \in Revisions, i \in 0..12 :
         /\ At(m, f, i) /\ Sound(Plan(command[m], f), f)
         /\ command[m] \in {"start", "upgrade"} => Upward(Plan(command[m], f), f)
  BY PlaceOf
<1> DEFINE P == Plan(command[m], f)
<1>2. /\ i <= Len(P) /\ Len(todo[m]) = Len(P) - i /\ Len(P) \in 0..12
      /\ created[m] = Done(P, i, "create") /\ dropped[m] = Done(P, i, "drop")
      /\ copied[m] = IF Within(P, i, "copy") THEN publishers ELSE {}
      /\ m \in stamped <=> Within(P, i, "stamp")
      /\ m \in stamped => version = f
      /\ i > 0 /\ P[i].do = "stamp" => head[m] = P[i].arg
  BY <1>1 DEF At, Sound
<1>3. i = Len(P)
  <2> DEFINE n == Len(P)
  <2>1. n \in 0..12 /\ 0 = n - i
    BY <1>2, EmptySeq
  <2> HIDE DEF n
  <2>2. i = n
    BY <2>1
  <2> QED BY <2>2 DEF n
<1>4. Within(P, i, "copy") => "api_keys" \in created[m] /\ dropped[m] = {}
  <2>1. i \in Nat
    OBVIOUS
  <2> QED BY <1>1, <2>1, CopyHolds
<1>5. i # 0 => i \in 1..Len(P) /\ P[i].do = "stamp" /\ i > 0
  BY <1>1, <1>2, <1>3 DEF Sound
<1>6. m \in stamped => i # 0
  BY <1>2, DoneNothing
<1>7. i # 0 => m \in stamped
  <2>1. i # 0 => i \in 1..i
    OBVIOUS
  <2> QED BY <1>2, <1>5, <2>1 DEF Within
<1>8. ASSUME m \in stamped
      PROVE  /\ head[m] \in Revisions /\ View(m) = TablesOf(head[m])
             /\ UpgradesOnly => head[m] = "002"
             /\ head[m] = "002" => copied[m] = publishers /\ dropped[m] = {}
  <2>1. i \in 1..Len(P) /\ P[i].do = "stamp" /\ head[m] = P[i].arg /\ Len(P) > 0
    BY <1>2, <1>3, <1>5, <1>6, <1>8
  <2>2. /\ P[i].arg \in Revisions
        /\ (TablesOf(f) \cup Done(P, i, "create")) \ Done(P, i, "drop") = TablesOf(P[i].arg)
    BY <1>1, <2>1 DEF Sound
  <2>3. View(m) = TablesOf(head[m])
    BY <1>2, <1>8, <2>1, <2>2 DEF View, SchemaIsARevision
  <2>4. head[m] = "002" => Within(P, i, "copy")
    BY <1>1, <1>3, <2>1 DEF Sound
  <2>5. ASSUME UpgradesOnly PROVE head[m] = "002"
    <3>1. command[m] \in {"start", "upgrade"}
      BY <2>5 DEF UpgradesOnly, Running
    <3> QED BY <1>1, <1>3, <2>1, <3>1 DEF Upward
  <2> QED BY <1>2, <1>4, <2>1, <2>2, <2>3, <2>4, <2>5
<1>9. m \notin stamped => created[m] = {} /\ dropped[m] = {} /\ copied[m] = {}
  BY <1>2, <1>7, DoneNothing
<1>10. copied[m] # {} => "api_keys" \in created[m] /\ dropped[m] = {}
  BY <1>2, <1>4
<1> QED BY <1>8, <1>9, <1>10

LEMMA CommitStep == ASSUME MigrationInv, NEW m \in Runners, Commit(m) PROVE MigrationInv'
<1> USE DEF MigrationInv
<1>1. /\ Running(m) /\ todo[m] = <<>>
      /\ tables' = View(m)
      /\ version' = IF m \in stamped THEN head[m] ELSE version
      /\ publishers' = IF "publishers" \in dropped[m] THEN {} ELSE publishers
      /\ keys' = [p \in Publishers |-> IF p \in copied[m] THEN FirstKey
                                       ELSE IF "api_keys" \in dropped[m] THEN NoKeys[p]
                                       ELSE keys[p]]
      /\ outcome' = [outcome EXCEPT ![m] = "ok"]
      /\ created' = [created EXCEPT ![m] = {}] /\ dropped' = [dropped EXCEPT ![m] = {}]
      /\ copied' = [copied EXCEPT ![m] = {}] /\ stamped' = stamped \ {m}
      /\ command' = command /\ head' = head /\ todo' = todo /\ serving' = serving
  BY DEF Commit, End
<1>2. /\ m \in stamped =>
            /\ head[m] \in Revisions /\ View(m) = TablesOf(head[m])
            /\ UpgradesOnly => head[m] = "002"
            /\ head[m] = "002" => copied[m] = publishers /\ dropped[m] = {}
      /\ m \notin stamped => created[m] = {} /\ dropped[m] = {} /\ copied[m] = {}
      /\ copied[m] # {} => "api_keys" \in created[m] /\ dropped[m] = {}
  BY <1>1, CommitBrings
<1>3. /\ outcome'[m] = "ok" /\ created'[m] = {} /\ dropped'[m] = {} /\ copied'[m] = {}
      /\ m \notin stamped' /\ Nil # "ok"
      /\ \A n \in Runners \ {m} :
            /\ outcome'[n] = outcome[n] /\ created'[n] = created[n]
            /\ dropped'[n] = dropped[n] /\ copied'[n] = copied[n]
            /\ n \in stamped' <=> n \in stamped
  BY <1>1, CommandAssumption DEF TypeOK
<1>4. UpgradesOnly' = UpgradesOnly
  BY <1>1 DEF UpgradesOnly
<1>5. SchemaIsARevision'
  <2>1. TablesOf(version)' = TablesOf(version')
    BY DEF TablesOf
  <2>2. CASE m \in stamped
    BY <1>1, <1>2, <2>1, <2>2 DEF SchemaIsARevision
  <2>3. CASE m \notin stamped
    BY <1>1, <1>2, <2>1, <2>3 DEF SchemaIsARevision, View
  <2> QED BY <2>2, <2>3
<1>6. /\ version' \in Revisions /\ tables' = TablesOf(version') /\ tables' \subseteq Tables
  <2>1. version' \in Revisions
    BY <1>1, <1>2 DEF TypeOK
  <2>2. tables' = TablesOf(version')
    BY <1>5 DEF SchemaIsARevision, TablesOf
  <2> QED BY <2>1, <2>2, TablesOfIs DEF Revisions, Tables
<1>7. /\ FirstKey \in [Names -> Statuses \cup {Nil}] /\ FirstKey["default"] # Nil
      /\ \A p \in Publishers : NoKeys[p] \in [Names -> Statuses \cup {Nil}]
  BY CommandAssumption DEF FirstKey, NoKeys, Statuses, Names
<1>8. TypeOK'
  <2>1. keys' \in [Publishers -> [Names -> Statuses \cup {Nil}]]
    BY <1>1, <1>7 DEF TypeOK
  <2>2. ASSUME NEW p \in Publishers, keys'[p] # NoKeys[p]
        PROVE  p \in publishers' /\ "api_keys" \in tables'
    <3>1. CASE p \in copied[m]
      <4>1. "api_keys" \in created[m] /\ dropped[m] = {} /\ p \in publishers
        BY <1>2, <3>1 DEF TypeOK
      <4> QED BY <1>1, <4>1 DEF View
    <3>2. CASE p \notin copied[m]
      <4>1. "api_keys" \notin dropped[m] /\ keys'[p] = keys[p]
        BY <1>1, <2>2, <3>2
      <4>2. p \in publishers /\ "api_keys" \in tables
        BY <2>2, <4>1 DEF TypeOK
      <4>3. "api_keys" \in tables'
        BY <1>1, <4>1, <4>2 DEF View
      <4>4. version' = "002" /\ "publishers" \in tables'
        BY <1>6, <4>3, TablesOfIs DEF Revisions, Tables
      <4>5. "publishers" \notin dropped[m]
        BY <1>1, <4>4 DEF View
      <4> QED BY <1>1, <4>2, <4>3, <4>5
    <3> QED BY <3>1, <3>2
  <2>3. publishers' \subseteq Publishers /\ (publishers' # {} => "publishers" \in tables')
    BY <1>1 DEF TypeOK, View
  <2>4. copied' \in [Runners -> SUBSET publishers']
    <3>1. copied' \in [Runners -> SUBSET publishers]
      BY <1>1 DEF TypeOK
    <3>2. CASE "publishers" \in dropped[m]
      <4>1. "publishers" \in Locked(m)
        BY <3>2 DEF Locked
      <4>2. ASSUME NEW n \in Runners PROVE copied'[n] = {}
        <5>1. CASE n = m
          BY <1>3, <5>1
        <5>2. CASE n # m /\ ~Running(n)
          BY <1>3, <5>2 DEF EndedInv
        <5>3. CASE n # m /\ Running(n)
          <6>1. PICK f \in Revisions, i \in 0..12 : At(n, f, i) /\ Sound(Plan(command[n], f), f)
            BY <5>3, PlaceOf
          <6>2. i \in Nat /\ "publishers" \notin Locked(n)
            BY <4>1, <5>3 DEF LockInv
          <6>3. ~Within(Plan(command[n], f), i, "copy")
            BY <6>1, <6>2, CopyHolds
          <6> QED BY <1>3, <5>3, <6>1, <6>3 DEF At
        <5> QED BY <5>1, <5>2, <5>3
      <4> QED BY <3>1, <4>2
    <3>3. CASE "publishers" \notin dropped[m]
      BY <1>1, <3>1, <3>3
    <3> QED BY <3>2, <3>3
  <2>5. /\ outcome' \in [Runners -> {"ok", "refused", "failed", Nil}]
        /\ created' \in [Runners -> SUBSET Tables] /\ dropped' \in [Runners -> SUBSET Tables]
        /\ stamped' \subseteq Runners
    BY <1>1 DEF TypeOK
  <2>6. \A p \in Publishers : keys'[p] # NoKeys'[p] => p \in publishers' /\ "api_keys" \in tables'
    BY <2>2 DEF NoKeys
  <2> QED BY <1>1, <1>6, <2>1, <2>3, <2>4, <2>5, <2>6 DEF TypeOK
<1>9. PlaceInv'
  <2>1. SUFFICES ASSUME NEW n \in Runners, Running(n)'
                 PROVE  \E f \in Revisions, i \in 0..12 : At(n, f, i)'
    BY DEF PlaceInv
  <2>2. n # m /\ Running(n)
    BY <1>1, <1>3, <2>1 DEF Running
  <2>3. PICK f \in Revisions, i \in 0..12 : At(n, f, i) /\ Sound(Plan(command[n], f), f)
    BY <2>2, PlaceOf
  <2>4. publishers' = publishers \/ ~Within(Plan(command[n], f), i, "copy")
    <3> SUFFICES ASSUME "publishers" \in dropped[m], Within(Plan(command[n], f), i, "copy")
                 PROVE  FALSE
      BY <1>1
    <3>1. "publishers" \in Locked(m) /\ i \in Nat
      BY DEF Locked
    <3>2. "publishers" \in Locked(n)
      BY <2>3, <3>1, CopyHolds
    <3> QED BY <2>2, <3>1, <3>2 DEF LockInv
  <2>5. n \in stamped => version' = version
    BY <1>1, <2>2 DEF LockInv
  <2>6. UpgradesOnly => version' \in {version, "002"}
    BY <1>1, <1>2
  <2>7. At(n, f, i)'
    BY <1>1, <1>3, <1>4, <2>2, <2>3, <2>4, <2>5, <2>6, AtKept
  <2> QED BY <2>7
<1>10. EndedInv'
  BY <1>1, <1>3 DEF EndedInv, Running
<1>11. LockInv'
  <2>1. \A n \in Runners : Locked(n)' = IF n = m THEN {} ELSE Locked(n)
    BY <1>3 DEF Locked
  <2>2. \A n, k \in stamped' : n = k
    BY <1>1 DEF LockInv
  <2>3. \A n, k \in Runners : n # k => Locked(n)' \cap Locked(k)' = {}
    BY <2>1 DEF LockInv
  <2> QED BY <2>2, <2>3 DEF LockInv
<1>12. EveryPublisherHasItsFirstKey'
  <2>1. SUFFICES ASSUME version' = "002", NEW p \in publishers'
                 PROVE  keys'[p]["default"] # Nil
    BY DEF EveryPublisherHasItsFirstKey
  <2>2. p \in publishers /\ p \in Publishers
    BY <1>1, <2>1 DEF TypeOK
  <2>3. CASE m \in stamped
    <3>1. p \in copied[m]
      BY <1>1, <1>2, <2>1, <2>2, <2>3
    <3> QED BY <1>1, <1>7, <2>2, <3>1
  <2>4. CASE m \notin stamped
    <3>1. version = "002" /\ keys'[p] = keys[p]
      BY <1>1, <1>2, <2>1, <2>2, <2>4
    <3> QED BY <2>2, <3>1 DEF EveryPublisherHasItsFirstKey
  <2> QED BY <2>3, <2>4
<1>13. RefusedUpgradeIsDone'
  <2>1. SUFFICES ASSUME NEW n \in Runners, outcome'[n] = "refused",
                        command'[n] \in {"start", "upgrade"}, UpgradesOnly
                 PROVE  version' = "002"
    BY <1>4 DEF RefusedUpgradeIsDone, UpgradesOnly
  <2>2. n # m /\ outcome[n] = "refused" /\ command[n] = command'[n]
    BY <1>1, <1>3, <2>1
  <2>3. version = "002"
    BY <2>1, <2>2 DEF RefusedUpgradeIsDone, UpgradesOnly
  <2> QED BY <1>1, <1>2, <2>1, <2>3
<1> QED BY <1>5, <1>8, <1>9, <1>10, <1>11, <1>12, <1>13
-------------------------------------------------------------------------------
(* The server beside the runs *)

\* The steps of the server write rows only: runs stay where they are.
LEMMA RowsStep ==
    ASSUME MigrationInv,
           UNCHANGED <<tables, version, command, outcome, head, todo, work>>,
           \/ publishers' = publishers
           \/ \A n \in Runners : "api_keys" \notin Locked(n)
    PROVE  PlaceInv' /\ EndedInv' /\ LockInv' /\ SchemaIsARevision' /\ RefusedUpgradeIsDone'
<1> USE DEF MigrationInv
<1>1. created' = created /\ dropped' = dropped /\ copied' = copied /\ stamped' = stamped
  BY DEF work
<1>2. UpgradesOnly' = UpgradesOnly
  BY DEF UpgradesOnly
<1>3. PlaceInv'
  <2>1. SUFFICES ASSUME NEW n \in Runners, Running(n)'
                 PROVE  \E f \in Revisions, i \in 0..12 : At(n, f, i)'
    BY DEF PlaceInv
  <2>2. Running(n)
    BY <2>1 DEF Running
  <2>3. PICK f \in Revisions, i \in 0..12 : At(n, f, i) /\ Sound(Plan(command[n], f), f)
    BY <2>2, PlaceOf
  <2>4. publishers' = publishers \/ ~Within(Plan(command[n], f), i, "copy")
    BY <2>3, CopyHolds
  <2>5. At(n, f, i)'
    BY <1>1, <1>2, <2>3, <2>4, AtKept
  <2> QED BY <2>5
<1>4. EndedInv' /\ LockInv'
  BY <1>1 DEF EndedInv, LockInv, Running, Locked
<1>5. SchemaIsARevision' /\ RefusedUpgradeIsDone'
  BY DEF SchemaIsARevision, RefusedUpgradeIsDone, TablesOf
<1> QED BY <1>3, <1>4, <1>5

LEMMA CreatePublisherStep ==
    ASSUME MigrationInv, NEW p \in Publishers, CreatePublisher(p) PROVE MigrationInv'
<1>1. /\ "publishers" \in tables /\ "api_keys" \in tables
      /\ \A n \in Runners : "api_keys" \notin Locked(n)
      /\ publishers' = publishers \cup {p} /\ keys' = [keys EXCEPT ![p] = FirstKey]
      /\ UNCHANGED <<tables, version, command, outcome, head, todo, work, serving>>
  BY DEF CreatePublisher, Available
<1>2. PlaceInv' /\ EndedInv' /\ LockInv' /\ SchemaIsARevision' /\ RefusedUpgradeIsDone'
  BY <1>1, RowsStep
<1>3. FirstKey \in [Names -> Statuses \cup {Nil}] /\ FirstKey["default"] # Nil
  BY CommandAssumption DEF FirstKey, Statuses, Names
<1>4. TypeOK'
  <2>1. keys' \in [Publishers -> [Names -> Statuses \cup {Nil}]]
    BY <1>1, <1>3 DEF TypeOK, MigrationInv
  <2>2. \A q \in Publishers : keys'[q] # NoKeys[q] => q \in publishers' /\ "api_keys" \in tables'
    BY <1>1 DEF TypeOK, MigrationInv
  <2>3. copied' \in [Runners -> SUBSET publishers'] /\ NoKeys' = NoKeys
    BY <1>1 DEF TypeOK, MigrationInv, work, NoKeys
  <2> QED BY <1>1, <2>1, <2>2, <2>3 DEF TypeOK, MigrationInv, work
<1>5. EveryPublisherHasItsFirstKey'
  BY <1>1, <1>3 DEF EveryPublisherHasItsFirstKey, MigrationInv, TypeOK
<1> QED BY <1>2, <1>4, <1>5 DEF MigrationInv

LEMMA SetKeyStep ==
    ASSUME MigrationInv, NEW p \in Publishers, NEW n \in Names, NEW status \in Statuses,
           SetKey(p, n, status)
    PROVE  MigrationInv'
<1>1. /\ "api_keys" \in tables /\ keys' = [keys EXCEPT ![p][n] = status]
      /\ UNCHANGED <<tables, version, publishers, command, outcome, head, todo, work, serving>>
      /\ \E k \in Names : keys[p][k] = "active"
  BY DEF SetKey, Available
<1>2. PlaceInv' /\ EndedInv' /\ LockInv' /\ SchemaIsARevision' /\ RefusedUpgradeIsDone'
  BY <1>1, RowsStep
<1>3. Nil \notin Statuses
  BY CommandAssumption DEF Statuses
<1>4. p \in publishers
  <2>1. keys[p] # NoKeys[p]
    BY <1>1, <1>3 DEF NoKeys, Statuses
  <2> QED BY <2>1 DEF MigrationInv, TypeOK
<1>5. /\ keys' \in [Publishers -> [Names -> Statuses \cup {Nil}]]
      /\ \A q \in Publishers \ {p} : keys'[q] = keys[q]
      /\ \A k \in Names : keys'[p][k] = IF k = n THEN status ELSE keys[p][k]
  BY <1>1 DEF MigrationInv, TypeOK
<1>6. TypeOK'
  <2>1. \A q \in Publishers : keys'[q] # NoKeys[q] => q \in publishers' /\ "api_keys" \in tables'
    BY <1>1, <1>4, <1>5 DEF MigrationInv, TypeOK
  <2>2. NoKeys' = NoKeys
    BY DEF NoKeys
  <2> QED BY <1>1, <1>5, <2>1, <2>2 DEF TypeOK, MigrationInv, work
<1>7. EveryPublisherHasItsFirstKey'
  <2>1. SUFFICES ASSUME version = "002", NEW q \in publishers
                 PROVE  keys'[q]["default"] # Nil
    BY <1>1 DEF EveryPublisherHasItsFirstKey
  <2>2. keys[q]["default"] # Nil /\ q \in Publishers /\ "default" \in Names
    BY <2>1 DEF EveryPublisherHasItsFirstKey, MigrationInv, TypeOK, Names
  <2> QED BY <1>3, <1>5, <2>2
<1> QED BY <1>2, <1>6, <1>7 DEF MigrationInv

LEMMA LaunchStep == ASSUME MigrationInv, NEW m \in Runners, Launch(m) PROVE MigrationInv'
<1>1. /\ serving' = serving \cup {m}
      /\ UNCHANGED <<tables, version, publishers, keys, command, outcome, head, todo, work>>
  BY DEF Launch, database
<1>2. PlaceInv' /\ EndedInv' /\ LockInv' /\ SchemaIsARevision' /\ RefusedUpgradeIsDone'
  BY <1>1, RowsStep
<1>3. TypeOK' /\ EveryPublisherHasItsFirstKey'
  BY <1>1 DEF TypeOK, EveryPublisherHasItsFirstKey, MigrationInv, work, NoKeys
<1> QED BY <1>2, <1>3 DEF MigrationInv

LEMMA MigrationStutter == ASSUME MigrationInv, UNCHANGED vars PROVE MigrationInv'
<1>1. /\ serving' = serving
      /\ UNCHANGED <<tables, version, publishers, keys, command, outcome, head, todo, work>>
  BY DEF vars, database
<1>2. PlaceInv' /\ EndedInv' /\ LockInv' /\ SchemaIsARevision' /\ RefusedUpgradeIsDone'
  BY <1>1, RowsStep
<1>3. TypeOK' /\ EveryPublisherHasItsFirstKey'
  BY <1>1 DEF TypeOK, EveryPublisherHasItsFirstKey, MigrationInv, work, NoKeys
<1> QED BY <1>2, <1>3 DEF MigrationInv

LEMMA MigrationInvariant == Spec => []MigrationInv
<1>1. MigrationInv /\ [Next]_vars => MigrationInv'
  <2> SUFFICES ASSUME MigrationInv, [Next]_vars PROVE MigrationInv'
    OBVIOUS
  <2>1. CASE \E m \in Runners : \/ Begin(m) \/ RunStatement(m) \/ Refuse(m)
                                \/ Commit(m) \/ Fail(m) \/ Launch(m)
    BY <2>1, BeginStep, RunStatementStep, RefuseStep, CommitStep, FailStep, LaunchStep
  <2>2. CASE \E p \in Publishers : CreatePublisher(p)
    BY <2>2, CreatePublisherStep
  <2>3. CASE \E p \in Publishers : CreateKey(p) \/ DeleteKey(p)
    <3>1. PICK p \in Publishers : CreateKey(p) \/ DeleteKey(p)
      BY <2>3
    <3>2. PICK n \in Names, status \in Statuses : SetKey(p, n, status)
      BY <3>1 DEF CreateKey, DeleteKey, Names, Statuses
    <3> QED BY <3>2, SetKeyStep
  <2>4. CASE UNCHANGED vars
    BY <2>4, MigrationStutter
  <2> QED BY <2>1, <2>2, <2>3, <2>4 DEF Next, Quiescent
<1> QED BY MigrationInit, <1>1, PTL DEF Spec
-------------------------------------------------------------------------------
(* What the runs check *)

\* The work of every run is well formed, and the foreign key of api_keys holds:
\* nobody has a key without being registered.
THEOREM RunsAreTyped == Spec => []TypeOK
<1>1. MigrationInv => TypeOK
  BY DEF MigrationInv
<1> QED BY <1>1, MigrationInvariant, PTL

\* The tables are those of the revision in alembic_version, whatever runs of
\* upgrade and downgrade race, are refused or fail (migrations/env.py).
THEOREM SchemaOfRevision == Spec => []SchemaIsARevision
<1>1. MigrationInv => SchemaIsARevision
  BY DEF MigrationInv
<1> QED BY <1>1, MigrationInvariant, PTL

\* With the key table in place every publisher has its first key there
\* (the INSERT ... SELECT of 002_api_keys.py against create_publisher).
THEOREM FirstKeys == Spec => []EveryPublisherHasItsFirstKey
<1>1. MigrationInv => EveryPublisherHasItsFirstKey
  BY DEF MigrationInv
<1> QED BY <1>1, MigrationInvariant, PTL

\* An upgrade is refused among upgrades only when the database is up to date:
\* `alembic upgrade head` may be run by several at once.
THEOREM RefusedIsDone == Spec => []RefusedUpgradeIsDone
<1>1. MigrationInv => RefusedUpgradeIsDone
  BY DEF MigrationInv
<1> QED BY <1>1, MigrationInvariant, PTL
===============================================================================
