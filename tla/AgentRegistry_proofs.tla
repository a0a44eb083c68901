------------------------- MODULE AgentRegistry_proofs -------------------------
(***************************************************************************)
(* Proofs about AgentRegistry, for any requests, names, versions and       *)
(* inputs.                                                                 *)
(***************************************************************************)
EXTENDS AgentRegistry, TLAPS

\* What a session in a given control state has already established.
SessionInv ==
    \A r \in Requests :
       /\ pc[r] # "idle" => req[r] # Nil
       /\ pc[r] \in {"draw", "insert", "inserted"} => req[r].op = "register"
       /\ pc[r] \in {"idle", "auth"} => draws[r] = 0
       /\ pc[r] = "draw" => draws[r] < MaxDraws
       /\ pc[r] \in {"insert", "inserted"} => shortId[r] # Nil
       /\ pc[r] = "found" => seen[r] # Nil /\ req[r].op # "register"
       /\ pc[r] = "idle" => seen[r] = Nil
       /\ unread[r] # {} => seen[r] # Nil
       /\ seen[r] # Nil => /\ agents[seen[r].agent] # Nil
                           /\ agents[seen[r].agent].owner = req[r].caller
                           /\ agents[seen[r].agent].owner = req[r].owner
                           /\ agents[seen[r].agent].slug = req[r].slug

\* A registration leaves no row before it commits, and rows of its agent
\* exist only afterwards.
PendingInv ==
    \A r \in Requests :
       pc[r] \in {"idle", "auth", "draw", "insert", "inserted"} => agents[r] = Nil

IInv == TypeOK /\ SessionInv /\ PendingInv

-------------------------------------------------------------------------------
\* The parts of IInv that mention no session stay true when the store stays.
LEMMA InitIInv == Init => IInv
BY MaxDrawsAssumption, SMT
   DEF Init, IInv, TypeOK, SessionInv, PendingInv

LEMMA InputFields ==
    ASSUME NEW i \in Inputs
    PROVE  /\ i.op \in {"register", "update", "archive"}
           /\ i.caller \in Publishers /\ i.owner \in Publishers /\ i.slug \in Slugs
           /\ i.version \in Versions \cup {Nil} /\ i.status \in Statuses \cup {Nil}
           /\ i.lists \in SUBSET Kinds
           /\ i.op = "register" => i.owner = i.caller /\ i.version \in Versions
                                   /\ i.status \in Statuses
           /\ i # Nil
<1>1. i \in AllInputs
  BY InputsAssumption
<1>2. i # Nil
  BY <1>1, NilAssumption
<1>3. i.op = "register" => i.owner = i.caller /\ i.version # Nil /\ i.status # Nil
  BY InputsAssumption
<1>. QED
  BY <1>1, <1>2, <1>3 DEF AllInputs

LEMMA CopyOfType ==
    ASSUME TypeOK, NEW a \in Requests, agents[a] # Nil
    PROVE  CopyOf(a) \in Copy /\ CopyOf(a) # Nil
<1>1. agents[a] \in Row
  BY DEF TypeOK
<1>2. CopyOf(a) \in Copy
  BY <1>1 DEF CopyOf, Copy, Row
<1>. QED
  BY <1>2, NilAssumption

LEMMA ArriveStep ==
    ASSUME IInv, NEW r \in Requests, Arrive(r)
    PROVE  IInv'
<1>. USE DEF IInv
<1>1. PICK i \in Inputs :
         LET mine == {a \in Holders(i.owner, i.slug) :
                         i.op # "register" /\ i.owner = i.caller}
         IN  /\ req' = [req EXCEPT ![r] = i]
             /\ \/ mine = {} /\ UNCHANGED <<seen, unread>>
                \/ \E a \in mine :
                     /\ seen' = [seen EXCEPT ![r] = CopyOf(a)]
                     /\ unread' = [unread EXCEPT ![r] = Kinds]
  BY Zenon DEF Arrive
<1>2. /\ pc[r] = "idle"
      /\ pc' = [pc EXCEPT ![r] = "auth"]
      /\ UNCHANGED <<seenRows, shortId, draws, reply, agents, rows, snapshots>>
  BY DEF Arrive, store
<1>3. i # Nil
  BY InputFields
<1>4. CASE UNCHANGED <<seen, unread>>
  <2>1. TypeOK'
    BY <1>1, <1>2, <1>4 DEF TypeOK
  <2>2. SessionInv'
    BY <1>1, <1>2, <1>3, <1>4 DEF TypeOK, SessionInv
  <2>3. PendingInv'
    BY <1>2, <1>4 DEF TypeOK, PendingInv
  <2>. QED BY <2>1, <2>2, <2>3
<1>5. CASE \E a \in Holders(i.owner, i.slug) :
               /\ i.op # "register" /\ i.owner = i.caller
               /\ seen' = [seen EXCEPT ![r] = CopyOf(a)]
               /\ unread' = [unread EXCEPT ![r] = Kinds]
  <2>1. PICK a \in Holders(i.owner, i.slug) :
               /\ i.op # "register" /\ i.owner = i.caller
               /\ seen' = [seen EXCEPT ![r] = CopyOf(a)]
               /\ unread' = [unread EXCEPT ![r] = Kinds]
    BY <1>5
  <2>2. /\ a \in Requests /\ agents[a] # Nil
        /\ agents[a].owner = i.owner /\ agents[a].slug = i.slug
    BY DEF Holders
  <2>3. CopyOf(a) \in Copy /\ CopyOf(a) # Nil /\ CopyOf(a).agent = a
    BY <2>2, CopyOfType DEF CopyOf
  <2>4. TypeOK'
    BY <1>1, <1>2, <2>1, <2>3 DEF TypeOK
  <2>5. SessionInv'
    BY <1>1, <1>2, <1>3, <2>1, <2>2, <2>3 DEF TypeOK, SessionInv
  <2>6. PendingInv'
    BY <1>2 DEF TypeOK, PendingInv
  <2>. QED BY <2>4, <2>5, <2>6
<1>. QED BY <1>1, <1>4, <1>5

LEMMA ReadRowsStep ==
    ASSUME IInv, NEW r \in Requests, NEW k \in Kinds, ReadRows(r, k)
    PROVE  IInv'
<1>. USE DEF IInv, ReadRows, store
<1>1. seen[r].agent \in Requests /\ rows[seen[r].agent][k] \in SUBSET Requests
  BY DEF TypeOK, SessionInv, Copy
<1>2. TypeOK'
  BY <1>1 DEF TypeOK
<1>3. SessionInv' /\ PendingInv'
  BY DEF TypeOK, SessionInv, PendingInv
<1>. QED BY <1>2, <1>3

\* Only pc and reply change, and the request ends.
LEMMA AnswerStep ==
    ASSUME IInv, NEW r \in Requests, NEW code \in Replies, Answer(r, code),
           UNCHANGED <<req, seen, seenRows, unread, shortId, draws, store>>,
           pc[r] # "idle"
    PROVE  IInv'
<1>. USE DEF IInv, Answer, store
<1>1. TypeOK'
  BY DEF TypeOK
<1>2. SessionInv' /\ PendingInv'
  BY DEF TypeOK, SessionInv, PendingInv
<1>. QED BY <1>1, <1>2

LEMMA CheckSlugStep ==
    ASSUME IInv, NEW r \in Requests, CheckSlug(r)
    PROVE  IInv'
<1>1. CASE Answer(r, "409")
  BY <1>1, AnswerStep DEF CheckSlug, Replies
<1>2. CASE pc' = [pc EXCEPT ![r] = "draw"] /\ UNCHANGED reply
  <2>. USE DEF IInv, CheckSlug, store
  <2>1. TypeOK'
    BY <1>2 DEF TypeOK
  <2>2. SessionInv' /\ PendingInv'
    BY <1>2, MaxDrawsAssumption DEF TypeOK, SessionInv, PendingInv
  <2>. QED BY <2>1, <2>2
<1>. QED BY <1>1, <1>2 DEF CheckSlug

LEMMA FindTargetStep ==
    ASSUME IInv, NEW r \in Requests, FindTarget(r)
    PROVE  IInv'
<1>1. CASE Answer(r, "404") /\ UNCHANGED <<seen, unread>>
  BY <1>1, AnswerStep DEF FindTarget, Replies
<1>2. CASE Answer(r, "403") /\ UNCHANGED <<seen, unread>>
  BY <1>2, AnswerStep DEF FindTarget, Replies
<1>3. ASSUME NEW a \in Holders(req[r].owner, req[r].slug),
             req[r].owner = req[r].caller,
             pc' = [pc EXCEPT ![r] = "found"],
             IF seen[r] = Nil
             THEN /\ seen' = [seen EXCEPT ![r] = CopyOf(a)]
                  /\ unread' = [unread EXCEPT ![r] = Kinds]
             ELSE UNCHANGED <<seen, unread>>,
             UNCHANGED reply
      PROVE  IInv'
  <2>. USE DEF IInv
  <2>1. /\ a \in Requests /\ agents[a] # Nil
        /\ agents[a].owner = req[r].owner /\ agents[a].slug = req[r].slug
    BY DEF Holders
  <2>2. CopyOf(a) \in Copy /\ CopyOf(a) # Nil /\ CopyOf(a).agent = a
    BY <2>1, CopyOfType DEF CopyOf
  <2>3. /\ pc[r] = "auth" /\ req[r].op # "register"
        /\ UNCHANGED <<req, seenRows, shortId, draws, agents, rows, snapshots>>
    BY DEF FindTarget, store
  <2>4. CASE seen[r] = Nil
    <3>. /\ seen' = [seen EXCEPT ![r] = CopyOf(a)]
         /\ unread' = [unread EXCEPT ![r] = Kinds]
         /\ pc' = [pc EXCEPT ![r] = "found"]
         /\ reply' = reply
      BY <1>3, <2>4
    <3>1. TypeOK'
      BY <2>2, <2>3 DEF TypeOK
    <3>2. SessionInv'
      BY <1>3, <2>1, <2>2, <2>3 DEF TypeOK, SessionInv
    <3>. QED BY <1>3, <2>3, <3>1, <3>2 DEF TypeOK, PendingInv
  <2>5. CASE seen[r] # Nil
    <3>1. TypeOK'
      BY <1>3, <2>3, <2>5 DEF TypeOK
    <3>2. SessionInv'
      BY <1>3, <2>3, <2>5 DEF TypeOK, SessionInv
    <3>. QED BY <1>3, <2>3, <3>1, <3>2 DEF TypeOK, PendingInv
  <2>. QED BY <2>4, <2>5
<1>. QED BY <1>1, <1>2, <1>3 DEF FindTarget

LEMMA DrawShortIdStep ==
    ASSUME IInv, NEW r \in Requests, DrawShortId(r)
    PROVE  IInv'
<1>. USE DEF IInv, store
<1>1. PICK s \in ShortIds :
         LET taken == \E a \in Requests : agents[a] # Nil /\ agents[a].shortId = s
         IN  /\ shortId' = [shortId EXCEPT ![r] = s]
             /\ pc' = [pc EXCEPT ![r] =
                         IF taken /\ draws[r] + 1 < MaxDraws THEN "draw" ELSE "insert"]
  BY Zenon DEF DrawShortId
<1>2. /\ pc[r] = "draw"
      /\ draws' = [draws EXCEPT ![r] = @ + 1]
      /\ UNCHANGED <<req, seen, seenRows, unread, reply, agents, rows, snapshots>>
  BY DEF DrawShortId
<1>3. /\ shortId' = [shortId EXCEPT ![r] = s]
      /\ \/ pc' = [pc EXCEPT ![r] = "draw"] /\ draws[r] + 1 < MaxDraws
         \/ pc' = [pc EXCEPT ![r] = "insert"]
  BY <1>1
<1>4. draws[r] \in Nat /\ draws[r] + 1 \in 0..MaxDraws
  BY <1>2, MaxDrawsAssumption DEF TypeOK, SessionInv
<1>5. TypeOK'
  BY <1>2, <1>3, <1>4 DEF TypeOK
<1>6. SessionInv'
  BY <1>2, <1>3, <1>4, NilAssumption DEF TypeOK, SessionInv
<1>7. PendingInv'
  BY <1>2, <1>3 DEF TypeOK, PendingInv
<1>. QED BY <1>5, <1>6, <1>7

LEMMA InsertAgentStep ==
    ASSUME IInv, NEW r \in Requests, InsertAgent(r)
    PROVE  IInv'
<1>1. CASE Answer(r, "integrity")
  BY <1>1, AnswerStep DEF InsertAgent, Replies
<1>2. CASE pc' = [pc EXCEPT ![r] = "inserted"] /\ UNCHANGED reply
  <2>. USE DEF IInv, InsertAgent, store
  <2>1. TypeOK'
    BY <1>2 DEF TypeOK
  <2>2. SessionInv' /\ PendingInv'
    BY <1>2 DEF TypeOK, SessionInv, PendingInv
  <2>. QED BY <2>1, <2>2
<1>. QED BY <1>1, <1>2 DEF InsertAgent

LEMMA NewRowType ==
    ASSUME IInv, NEW r \in Requests, pc[r] \in {"insert", "inserted"}
    PROVE  NewRow(r) \in Row /\ NewRow(r) # Nil
<1>1. /\ req[r] \in Inputs /\ req[r].op = "register"
      /\ shortId[r] \in ShortIds
  BY DEF IInv, TypeOK, SessionInv
<1>2. NewRow(r) \in Row
  BY <1>1, InputFields DEF NewRow, Row
<1>. QED BY <1>2, NilAssumption

LEMMA CommitRegisterStep ==
    ASSUME IInv, NEW r \in Requests, CommitRegister(r)
    PROVE  IInv'
<1>. USE DEF IInv, CommitRegister
<1>1. NewRow(r) \in Row /\ NewRow(r) # Nil
  BY NewRowType
<1>2. req[r].version \in Versions
  BY InputFields DEF TypeOK, SessionInv
<1>3. agents[r] = Nil
  BY DEF PendingInv
<1>4. TypeOK'
  BY <1>1, <1>2 DEF TypeOK
<1>5. SessionInv'
  BY <1>1, <1>3 DEF TypeOK, SessionInv, Copy
<1>6. PendingInv'
  BY DEF TypeOK, PendingInv
<1>. QED BY <1>4, <1>5, <1>6

LEMMA WrittenColumn ==
    ASSUME NEW S, NEW new \in S \cup {Nil}, NEW copy \in S, NEW current \in S
    PROVE  Written(new, copy, current) \in S
BY DEF Written

SameNames(c, d) == c.owner = d.owner /\ c.slug = d.slug /\ c.shortId = d.shortId

\* A commit that keeps the names of a registered agent and gives it other
\* columns and lists, whatever they are.
LEMMA ReviseStep ==
    ASSUME IInv, NEW r \in Requests, pc[r] = "found",
           NEW card \in Row, SameNames(card, agents[seen[r].agent]),
           agents' = [agents EXCEPT ![seen[r].agent] = card],
           rows' \in [Requests -> [Kinds -> SUBSET Requests]],
           snapshots' \in SUBSET [agent : Requests, version : Versions, by : Requests],
           pc' = [pc EXCEPT ![r] = "committed"],
           UNCHANGED <<req, seen, seenRows, unread, shortId, draws, reply>>
    PROVE  IInv'
<1>. DEFINE a == seen[r].agent
<1>1. a \in Requests /\ agents[a] \in Row /\ agents[a] # Nil
  BY DEF IInv, TypeOK, SessionInv, Copy
<1>2. card # Nil
  BY NilAssumption
<1>3. agents'[a] = card /\ \A b \in Requests \ {a} : agents'[b] = agents[b]
  BY <1>1 DEF IInv, TypeOK
<1>4. TypeOK'
  BY <1>1 DEF IInv, TypeOK
<1>5. SessionInv'
  BY <1>1, <1>2, <1>3 DEF IInv, TypeOK, SessionInv, Copy, SameNames
<1>6. PendingInv'
  BY <1>1, <1>3 DEF IInv, TypeOK, PendingInv
<1>. QED BY <1>4, <1>5, <1>6 DEF IInv

\* What update_agent writes when it is not refused.
LEMMA UpdatedRow ==
    ASSUME IInv, NEW r \in Requests, pc[r] = "found"
    PROVE  LET a == seen[r].agent
           IN  /\ a \in Requests /\ agents[a] \in Row
               /\ seen[r].version \in Versions /\ seen[r].status \in Statuses
               /\ Updated(r, agents[a]) \in Row
               /\ SameNames(Updated(r, agents[a]), agents[a])
               /\ Updated(r, agents[a]).version =
                     Written(req[r].version, seen[r].version, agents[a].version)
<1>. DEFINE a == seen[r].agent
<1>1. /\ a \in Requests /\ agents[a] \in Row
      /\ seen[r].version \in Versions /\ seen[r].status \in Statuses
  BY DEF IInv, TypeOK, SessionInv, Copy
<1>2. req[r].version \in Versions \cup {Nil} /\ req[r].status \in Statuses \cup {Nil}
  BY InputFields DEF IInv, TypeOK, SessionInv
<1>3. /\ Written(req[r].version, seen[r].version, agents[a].version) \in Versions
      /\ Written(req[r].status, seen[r].status, agents[a].status) \in Statuses
  BY <1>1, <1>2, WrittenColumn DEF Row
<1>. QED BY <1>1, <1>3 DEF Updated, SameNames, Row

LEMMA CommitUpdateStep ==
    ASSUME IInv, NEW r \in Requests, CommitUpdate(r)
    PROVE  IInv'
<1>. DEFINE a == seen[r].agent
            card == Updated(r, agents[a])
<1>0. pc[r] = "found"
  BY DEF CommitUpdate
<1>1. CASE Answer(r, "integrity") /\ UNCHANGED store
  BY <1>1, AnswerStep DEF CommitUpdate, Replies
<1>2. CASE ~(VersionChanged(r) /\ VersionTaken(r))
  <2>1. /\ agents' = [agents EXCEPT ![a] = card]
        /\ rows' = [rows EXCEPT ![a] = [k \in Kinds |-> ReplaceRows(r, k, rows[a][k])]]
        /\ snapshots' = snapshots \cup
              (IF VersionChanged(r)
               THEN {[agent |-> a, version |-> req[r].version, by |-> r]}
               ELSE {})
        /\ pc' = [pc EXCEPT ![r] = "committed"]
        /\ UNCHANGED <<req, seen, seenRows, unread, shortId, draws, reply>>
    BY <1>2 DEF CommitUpdate
  <2>2. a \in Requests /\ card \in Row /\ SameNames(card, agents[a])
    BY <1>0, UpdatedRow
  <2>3. rows' \in [Requests -> [Kinds -> SUBSET Requests]]
    BY <2>1, <2>2 DEF IInv, TypeOK, ReplaceRows
  <2>4. VersionChanged(r) => req[r].version \in Versions
    BY <1>0, InputFields DEF IInv, TypeOK, SessionInv, VersionChanged
  <2>5. snapshots' \in SUBSET [agent : Requests, version : Versions, by : Requests]
    BY <2>1, <2>2, <2>4 DEF IInv, TypeOK
  <2>. HIDE DEF card
  <2>. QED BY <1>0, <2>1, <2>2, <2>3, <2>5, ReviseStep
<1>. QED BY <1>1, <1>2 DEF CommitUpdate

LEMMA ArchivedRow ==
    ASSUME IInv, NEW r \in Requests, pc[r] = "found"
    PROVE  LET row  == agents[seen[r].agent]
               card == Archived(r, row)
           IN  /\ seen[r].agent \in Requests /\ row \in Row /\ card \in Row
               /\ SameNames(card, row) /\ card.version = row.version
<1>. DEFINE row == agents[seen[r].agent]
<1>1. seen[r].agent \in Requests /\ row \in Row /\ seen[r].status \in Statuses
  BY DEF IInv, TypeOK, SessionInv, Copy
<1>2. Written("archived", seen[r].status, row.status) \in Statuses
  BY <1>1 DEF Written, Row, Statuses
<1>. QED BY <1>1, <1>2 DEF Archived, SameNames, Row

LEMMA CommitArchiveStep ==
    ASSUME IInv, NEW r \in Requests, CommitArchive(r)
    PROVE  IInv'
<1>. DEFINE a == seen[r].agent
            card == Archived(r, agents[a])
<1>1. /\ pc[r] = "found"
      /\ agents' = [agents EXCEPT ![a] = card]
      /\ pc' = [pc EXCEPT ![r] = "committed"]
      /\ UNCHANGED <<req, seen, seenRows, unread, shortId, draws, reply, rows, snapshots>>
  BY DEF CommitArchive
<1>2. a \in Requests /\ card \in Row /\ SameNames(card, agents[a])
  BY <1>1, ArchivedRow
<1>3. /\ rows' \in [Requests -> [Kinds -> SUBSET Requests]]
      /\ snapshots' \in SUBSET [agent : Requests, version : Versions, by : Requests]
  BY <1>1 DEF IInv, TypeOK
<1>. HIDE DEF card
<1>. QED BY <1>1, <1>2, <1>3, ReviseStep

LEMMA RespondStep ==
    ASSUME IInv, NEW r \in Requests, Respond(r)
    PROVE  IInv'
<1>1. req[r] \in Inputs
  BY DEF IInv, TypeOK, SessionInv, Respond
<1>2. Success[req[r].op] \in Replies
  BY <1>1, InputFields DEF Success, Replies
<1>. QED BY <1>2, AnswerStep DEF Respond

LEMMA FailStep ==
    ASSUME IInv, NEW r \in Requests, Fail(r)
    PROVE  IInv'
BY AnswerStep DEF Fail, Replies

LEMMA StutterIInv ==
    ASSUME IInv, UNCHANGED vars
    PROVE  IInv'
<1>. USE DEF IInv, vars, session, store
<1>1. TypeOK'
  BY DEF TypeOK
<1>2. SessionInv' /\ PendingInv'
  BY DEF SessionInv, PendingInv
<1>. QED BY <1>1, <1>2

LEMMA NextIInv == IInv /\ [Next]_vars => IInv'
<1>. SUFFICES ASSUME IInv, [Next]_vars PROVE IInv'
  OBVIOUS
<1>1. CASE UNCHANGED vars
  BY <1>1, StutterIInv
<1>2. CASE Quiescent
  BY <1>2, StutterIInv DEF Quiescent
<1>3. ASSUME NEW r \in Requests, Arrive(r) \/ Handle(r) \/ Fail(r) PROVE IInv'
  BY <1>3, ArriveStep, ReadRowsStep, CheckSlugStep, FindTargetStep, DrawShortIdStep,
     InsertAgentStep, CommitRegisterStep, CommitUpdateStep, CommitArchiveStep,
     RespondStep, FailStep DEF Handle
<1>. QED BY <1>1, <1>2, <1>3 DEF Next

LEMMA Inductive == Spec => []IInv
<1>. QED BY InitIInv, NextIInv, PTL DEF Spec

\* Every variable of the write path keeps its type: the columns and the keys
\* a session writes are always those of an agent that exists.
THEOREM TypeCorrect == Spec => []TypeOK
<1>1. IInv => TypeOK
  BY DEF IInv
<1>. QED BY <1>1, Inductive, PTL
-------------------------------------------------------------------------------
\* Names: NamesAreUnique is not inductive.  A registration checks a name in
\* one step and commits it in another, so what makes it true is that the rows
\* inserted and not yet committed differ from one another and from the
\* committed ones.
NamesInv ==
    /\ NamesAreUnique
    /\ \A q, r \in Requests :
          q # r /\ pc[q] = "inserted" /\ pc[r] = "inserted"
             => ~SameKey(NewRow(q), NewRow(r))
    /\ \A a, r \in Requests :
          agents[a] # Nil /\ pc[r] = "inserted" => ~SameKey(agents[a], NewRow(r))

\* What a step does to names unless it inserts or commits a registration.
KeepsNames ==
    /\ \A a \in Requests : agents'[a] # Nil =>
          agents[a] # Nil /\ SameNames(agents'[a], agents[a])
    /\ \A r \in Requests : pc'[r] = "inserted" =>
          pc[r] = "inserted" /\ NewRow(r)' = NewRow(r)

LEMMA KeepsNamesInv ==
    ASSUME NamesInv, KeepsNames
    PROVE  NamesInv'
<1>. USE DEF NamesInv, KeepsNames, SameNames
<1>1. NamesAreUnique'
  BY DEF NamesAreUnique, SameKey
<1>2. \A q, r \in Requests :
          q # r /\ pc'[q] = "inserted" /\ pc'[r] = "inserted"
             => ~SameKey(NewRow(q)', NewRow(r)')
  OBVIOUS
<1>3. \A a, r \in Requests :
          agents'[a] # Nil /\ pc'[r] = "inserted" => ~SameKey(agents'[a], NewRow(r)')
  BY DEF SameKey
<1>. QED BY <1>1, <1>2, <1>3 DEF SameKey

LEMMA ReviseKeepsNames ==
    ASSUME IInv, NEW r \in Requests, pc[r] = "found",
           NEW card \in Row, SameNames(card, agents[seen[r].agent]),
           agents' = [agents EXCEPT ![seen[r].agent] = card],
           pc' = [pc EXCEPT ![r] = "committed"],
           UNCHANGED <<req, shortId>>
    PROVE  KeepsNames
<1>1. seen[r].agent \in Requests /\ agents[seen[r].agent] # Nil
  BY DEF IInv, TypeOK, SessionInv, Copy
<1>. QED BY <1>1 DEF IInv, TypeOK, KeepsNames, SameNames, NewRow

LEMMA NextNamesInv == IInv /\ NamesInv /\ [Next]_vars => NamesInv'
<1>. SUFFICES ASSUME IInv, NamesInv, [Next]_vars PROVE NamesInv'
  OBVIOUS
<1>1. CASE UNCHANGED vars
  BY <1>1, KeepsNamesInv DEF vars, session, store, KeepsNames, SameNames, NewRow
<1>2. CASE Quiescent
  BY <1>1, <1>2 DEF Quiescent
<1>3. ASSUME NEW r \in Requests, Arrive(r) PROVE NamesInv'
  <2>1. /\ pc' = [pc EXCEPT ![r] = "auth"] /\ UNCHANGED <<agents, shortId>>
        /\ \E i \in Inputs : req' = [req EXCEPT ![r] = i]
    BY <1>3 DEF Arrive, store
  <2>. QED BY <2>1, KeepsNamesInv DEF KeepsNames, SameNames, NewRow, IInv, TypeOK
<1>4. ASSUME NEW r \in Requests, NEW k \in Kinds, ReadRows(r, k) PROVE NamesInv'
  BY <1>4, KeepsNamesInv DEF ReadRows, store, KeepsNames, SameNames, NewRow
<1>5. ASSUME NEW r \in Requests, CheckSlug(r) \/ FindTarget(r) \/ Respond(r) \/ Fail(r)
      PROVE  NamesInv'
  <2>1. /\ UNCHANGED <<agents, req, shortId>>
        /\ \E c \in {"draw", "found", "done"} : pc' = [pc EXCEPT ![r] = c]
    BY <1>5 DEF CheckSlug, FindTarget, Respond, Fail, Answer, store
  <2>. QED BY <2>1, KeepsNamesInv DEF KeepsNames, SameNames, NewRow, IInv, TypeOK
<1>6. ASSUME NEW r \in Requests, DrawShortId(r) PROVE NamesInv'
  <2>1. /\ UNCHANGED <<agents, req>>
        /\ \E c \in {"draw", "insert"} : pc' = [pc EXCEPT ![r] = c]
        /\ \E s \in ShortIds : shortId' = [shortId EXCEPT ![r] = s]
    BY <1>6 DEF DrawShortId, store
  <2>. QED BY <2>1, KeepsNamesInv DEF KeepsNames, SameNames, NewRow, IInv, TypeOK
<1>7. ASSUME NEW r \in Requests, InsertAgent(r) PROVE NamesInv'
  <2>1. UNCHANGED <<agents, req, shortId>>
    BY <1>7 DEF InsertAgent, store
  <2>2. CASE Answer(r, "integrity")
    BY <2>1, <2>2, KeepsNamesInv
       DEF Answer, KeepsNames, SameNames, NewRow, IInv, TypeOK
  <2>3. CASE ~Taken(r) /\ ~Contended(r) /\ pc' = [pc EXCEPT ![r] = "inserted"]
    <3>1. \A q \in Requests : NewRow(q)' = NewRow(q)
      BY <2>1 DEF NewRow
    <3>2. \A q \in Requests \ {r} : pc'[q] = pc[q]
      BY <2>3 DEF IInv, TypeOK
    <3>3. NamesAreUnique'
      BY <2>1 DEF NamesInv, NamesAreUnique, SameKey
    <3>4. \A q \in Requests : pc[q] = "inserted" =>
             /\ ~SameKey(NewRow(q), NewRow(r)) /\ ~SameKey(NewRow(r), NewRow(q))
      BY <2>3 DEF Contended, SameKey
    <3>5. \A a \in Requests : agents[a] # Nil => ~SameKey(agents[a], NewRow(r))
      BY <2>3 DEF Taken
    <3>6. \A q, p \in Requests :
             q # p /\ pc'[q] = "inserted" /\ pc'[p] = "inserted"
                => ~SameKey(NewRow(q), NewRow(p))
      BY <3>2, <3>4 DEF NamesInv
    <3>7. \A a, q \in Requests :
             agents[a] # Nil /\ pc'[q] = "inserted" => ~SameKey(agents[a], NewRow(q))
      BY <3>2, <3>5 DEF NamesInv
    <3>. QED BY <2>1, <3>1, <3>3, <3>6, <3>7 DEF NamesInv, SameKey
  <2>. QED BY <1>7, <2>2, <2>3 DEF InsertAgent
<1>8. ASSUME NEW r \in Requests, CommitRegister(r) PROVE NamesInv'
  <2>1. /\ pc[r] = "inserted" /\ UNCHANGED <<req, shortId>>
        /\ agents' = [agents EXCEPT ![r] = NewRow(r)]
        /\ pc' = [pc EXCEPT ![r] = "committed"]
    BY <1>8 DEF CommitRegister
  <2>2. /\ \A q \in Requests : NewRow(q)' = NewRow(q)
        /\ \A q \in Requests \ {r} : pc'[q] = pc[q] /\ agents'[q] = agents[q]
        /\ pc'[r] = "committed" /\ agents'[r] = NewRow(r)
    BY <2>1 DEF NewRow, IInv, TypeOK
  <2>3. \A a \in Requests : agents[a] # Nil =>
           ~SameKey(agents[a], NewRow(r)) /\ ~SameKey(NewRow(r), agents[a])
    BY <2>1 DEF NamesInv, SameKey
  <2>4. \A a, b \in Requests :
           a # b /\ agents'[a] # Nil /\ agents'[b] # Nil => ~SameKey(agents'[a], agents'[b])
    BY <2>2, <2>3 DEF NamesInv, NamesAreUnique
  <2>5. \A q, p \in Requests :
           q # p /\ pc'[q] = "inserted" /\ pc'[p] = "inserted"
              => ~SameKey(NewRow(q), NewRow(p))
    BY <2>2 DEF NamesInv
  <2>6. \A a, q \in Requests :
           agents'[a] # Nil /\ pc'[q] = "inserted" => ~SameKey(agents'[a], NewRow(q))
    BY <2>1, <2>2 DEF NamesInv
  <2>. QED BY <2>2, <2>4, <2>5, <2>6 DEF NamesInv, NamesAreUnique, SameKey
<1>9. ASSUME NEW r \in Requests, CommitUpdate(r) PROVE NamesInv'
  <2>. DEFINE card == Updated(r, agents[seen[r].agent])
  <2>1. pc[r] = "found" /\ UNCHANGED <<req, shortId>>
    BY <1>9 DEF CommitUpdate
  <2>2. CASE Answer(r, "integrity") /\ UNCHANGED store
    BY <2>1, <2>2, KeepsNamesInv
       DEF Answer, store, KeepsNames, SameNames, NewRow, IInv, TypeOK
  <2>3. CASE /\ agents' = [agents EXCEPT ![seen[r].agent] = card]
             /\ pc' = [pc EXCEPT ![r] = "committed"]
    <3>1. card \in Row /\ SameNames(card, agents[seen[r].agent])
      BY <2>1, UpdatedRow
    <3>. HIDE DEF card
    <3>. QED BY <2>1, <2>3, <3>1, ReviseKeepsNames, KeepsNamesInv
  <2>. QED BY <1>9, <2>2, <2>3 DEF CommitUpdate
<1>10. ASSUME NEW r \in Requests, CommitArchive(r) PROVE NamesInv'
  <2>. DEFINE card == Archived(r, agents[seen[r].agent])
  <2>1. /\ pc[r] = "found" /\ UNCHANGED <<req, shortId>>
        /\ agents' = [agents EXCEPT ![seen[r].agent] = card]
        /\ pc' = [pc EXCEPT ![r] = "committed"]
    BY <1>10 DEF CommitArchive
  <2>2. card \in Row /\ SameNames(card, agents[seen[r].agent])
    BY <2>1, ArchivedRow
  <2>. HIDE DEF card
  <2>. QED BY <2>1, <2>2, ReviseKeepsNames, KeepsNamesInv
<1>. QED BY <1>1, <1>2, <1>3, <1>4, <1>5, <1>6, <1>7, <1>8, <1>9, <1>10 DEF Next, Handle

\* A (publisher, slug) pair and a short id never name two agents, for any
\* number of concurrent registrations.
THEOREM UniqueNames == Spec => []NamesAreUnique
<1>1. Init => NamesInv
  BY DEF Init, NamesInv, NamesAreUnique
<1>2. NamesInv => NamesAreUnique
  BY DEF NamesInv
<1>. QED BY <1>1, <1>2, NextNamesInv, Inductive, PTL DEF Spec
-------------------------------------------------------------------------------
\* Snapshots.
SnapshotInv ==
    /\ CurrentVersionHasSnapshot
    /\ OneSnapshotPerVersion
    /\ \A s \in snapshots : agents[s.agent] # Nil

\* The three ways a step treats the agents and their snapshots: it leaves them
\* alone, it registers an agent, or it revises one.
Registers(r) ==
    /\ agents[r] = Nil
    /\ agents' = [agents EXCEPT ![r] = NewRow(r)]
    /\ snapshots' = snapshots \cup
          {[agent |-> r, version |-> NewRow(r).version, by |-> r]}
    /\ NewRow(r) \in Row /\ NewRow(r) # Nil
    /\ \A b \in Requests : agents[b] # Nil => ~SameKey(agents[b], NewRow(r))

Revises(r, a, card) ==
    /\ agents[a] \in Row /\ agents[a] # Nil /\ card # Nil
    /\ SameNames(card, agents[a])
    /\ agents' = [agents EXCEPT ![a] = card]
    /\ \/ card.version = agents[a].version /\ snapshots' = snapshots
       \/ /\ \A s \in snapshots : ~(s.agent = a /\ s.version = card.version)
          /\ snapshots' = snapshots \cup
                {[agent |-> a, version |-> card.version, by |-> r]}

StoreStep ==
    \/ UNCHANGED <<agents, snapshots>>
    \/ \E r \in Requests : Registers(r)
    \/ \E r, a \in Requests, card \in Row : Revises(r, a, card)

LEMMA UpdateRevises ==
    ASSUME IInv, NEW r \in Requests, CommitUpdate(r)
    PROVE  StoreStep
<1>. DEFINE a == seen[r].agent
            card == Updated(r, agents[a])
<1>1. pc[r] = "found"
  BY DEF CommitUpdate
<1>2. CASE UNCHANGED store
  BY <1>2 DEF store, StoreStep
<1>3. CASE ~(VersionChanged(r) /\ VersionTaken(r))
  <2>1. /\ agents' = [agents EXCEPT ![a] = card]
        /\ snapshots' = snapshots \cup
              (IF VersionChanged(r)
               THEN {[agent |-> a, version |-> req[r].version, by |-> r]}
               ELSE {})
    BY <1>3 DEF CommitUpdate
  <2>2. /\ a \in Requests /\ agents[a] \in Row /\ agents[a] # Nil
        /\ card \in Row /\ card # Nil /\ SameNames(card, agents[a])
        /\ card.version = Written(req[r].version, seen[r].version, agents[a].version)
    BY <1>1, UpdatedRow, NilAssumption
  <2>3. CASE VersionChanged(r)
    <3>1. card.version = req[r].version
      BY <2>2, <2>3 DEF Written, VersionChanged
    <3>2. \A s \in snapshots : ~(s.agent = a /\ s.version = req[r].version)
      BY <1>3, <2>3 DEF VersionTaken
    <3>3. snapshots' = snapshots \cup {[agent |-> a, version |-> card.version, by |-> r]}
      BY <2>1, <2>3, <3>1
    <3>. HIDE DEF card
    <3>4. Revises(r, a, card)
      BY <2>1, <2>2, <3>1, <3>2, <3>3 DEF Revises
    <3>. QED BY <2>2, <3>4 DEF StoreStep
  <2>4. CASE ~VersionChanged(r)
    <3>1. card.version = agents[a].version
      BY <2>2, <2>4 DEF Written, VersionChanged
    <3>2. snapshots' = snapshots
      BY <2>1, <2>4
    <3>. HIDE DEF card
    <3>3. Revises(r, a, card)
      BY <2>1, <2>2, <3>1, <3>2 DEF Revises
    <3>. QED BY <2>2, <3>3 DEF StoreStep
  <2>. QED BY <2>3, <2>4
<1>. QED BY <1>2, <1>3 DEF CommitUpdate

LEMMA ArchiveRevises ==
    ASSUME IInv, NEW r \in Requests, CommitArchive(r)
    PROVE  StoreStep
<1>. DEFINE a == seen[r].agent
            card == Archived(r, agents[a])
<1>1. /\ pc[r] = "found" /\ snapshots' = snapshots
      /\ agents' = [agents EXCEPT ![a] = card]
  BY DEF CommitArchive
<1>2. /\ a \in Requests /\ agents[a] \in Row /\ card \in Row /\ SameNames(card, agents[a])
      /\ card.version = agents[a].version
  BY <1>1, ArchivedRow
<1>3. agents[a] # Nil /\ card # Nil
  BY <1>2, NilAssumption
<1>. HIDE DEF card
<1>4. Revises(r, a, card)
  BY <1>1, <1>2, <1>3 DEF Revises
<1>. QED BY <1>2, <1>4 DEF StoreStep

LEMMA NextStoreStep == IInv /\ NamesInv /\ [Next]_vars => StoreStep
<1>. SUFFICES ASSUME IInv, NamesInv, [Next]_vars PROVE StoreStep
  OBVIOUS
<1>1. CASE UNCHANGED vars
  BY <1>1 DEF vars, store, StoreStep
<1>2. CASE Quiescent
  BY <1>2 DEF Quiescent, vars, store, StoreStep
<1>3. ASSUME NEW r \in Requests,
             \/ Arrive(r) \/ \E k \in Kinds : ReadRows(r, k)
             \/ CheckSlug(r) \/ FindTarget(r) \/ DrawShortId(r) \/ InsertAgent(r)
             \/ Respond(r) \/ Fail(r)
      PROVE  StoreStep
  <2>1. UNCHANGED store
    BY <1>3 DEF Arrive, ReadRows, CheckSlug, FindTarget, DrawShortId, InsertAgent,
                Respond, Fail
  <2>. QED BY <2>1 DEF store, StoreStep
<1>4. ASSUME NEW r \in Requests, CommitRegister(r) PROVE StoreStep
  <2>1. /\ pc[r] = "inserted"
        /\ agents' = [agents EXCEPT ![r] = NewRow(r)]
        /\ snapshots' = snapshots \cup
              {[agent |-> r, version |-> NewRow(r).version, by |-> r]}
    BY <1>4 DEF CommitRegister, NewRow
  <2>2. NewRow(r) \in Row /\ NewRow(r) # Nil
    BY <2>1, NewRowType
  <2>3. /\ agents[r] = Nil
        /\ \A b \in Requests : agents[b] # Nil => ~SameKey(agents[b], NewRow(r))
    BY <2>1 DEF IInv, PendingInv, NamesInv
  <2>4. Registers(r)
    BY <2>1, <2>2, <2>3 DEF Registers
  <2>. QED BY <2>4 DEF StoreStep
<1>. QED BY <1>1, <1>2, <1>3, <1>4, UpdateRevises, ArchiveRevises DEF Next, Handle

\* A version is added to an agent that has none of that version.
LEMMA AddSnapshot ==
    ASSUME TypeOK, SnapshotInv, NEW a \in Requests, NEW r \in Requests, NEW card,
           agents' = [agents EXCEPT ![a] = card], card # Nil,
           \A s \in snapshots : ~(s.agent = a /\ s.version = card.version),
           snapshots' = snapshots \cup
              {[agent |-> a, version |-> card.version, by |-> r]}
    PROVE  SnapshotInv'
<1>. DEFINE new == [agent |-> a, version |-> card.version, by |-> r]
<1>1. /\ agents'[a] = card /\ \A b \in Requests \ {a} : agents'[b] = agents[b]
      /\ new \in snapshots' /\ new.agent = a /\ new.version = card.version
      /\ \A s \in snapshots' : s \in snapshots \/ s = new
      /\ \A s \in snapshots : s.agent \in Requests /\ s \in snapshots'
  BY DEF TypeOK
<1>. HIDE DEF new
<1>2. CurrentVersionHasSnapshot'
  BY <1>1 DEF SnapshotInv, CurrentVersionHasSnapshot
<1>3. OneSnapshotPerVersion'
  BY <1>1 DEF SnapshotInv, OneSnapshotPerVersion
<1>4. \A s \in snapshots' : agents'[s.agent] # Nil
  BY <1>1 DEF SnapshotInv
<1>. QED BY <1>2, <1>3, <1>4 DEF SnapshotInv

LEMMA NextSnapshotInv == IInv /\ NamesInv /\ SnapshotInv /\ [Next]_vars => SnapshotInv'
<1>. SUFFICES ASSUME IInv, SnapshotInv, StoreStep PROVE SnapshotInv'
  BY NextStoreStep
<1>1. CASE UNCHANGED <<agents, snapshots>>
  BY <1>1 DEF SnapshotInv, CurrentVersionHasSnapshot, OneSnapshotPerVersion
<1>2. ASSUME NEW r \in Requests, Registers(r) PROVE SnapshotInv'
  <2>1. \A s \in snapshots : s.agent # r
    BY <1>2 DEF Registers, SnapshotInv
  <2>. QED BY <1>2, <2>1, AddSnapshot DEF Registers, IInv
<1>3. ASSUME NEW r \in Requests, NEW a \in Requests, NEW card \in Row, Revises(r, a, card)
      PROVE  SnapshotInv'
  <2>1. CASE card.version = agents[a].version /\ snapshots' = snapshots
    <3>1. /\ agents'[a] = card /\ card # Nil /\ agents[a] # Nil
          /\ \A b \in Requests \ {a} : agents'[b] = agents[b]
          /\ \A s \in snapshots : s.agent \in Requests
      BY <1>3 DEF Revises, IInv, TypeOK
    <3>. QED BY <2>1, <3>1
             DEF SnapshotInv, CurrentVersionHasSnapshot, OneSnapshotPerVersion
  <2>2. CASE ~(card.version = agents[a].version /\ snapshots' = snapshots)
    <3>1. /\ agents' = [agents EXCEPT ![a] = card] /\ card # Nil
          /\ \A s \in snapshots : ~(s.agent = a /\ s.version = card.version)
          /\ snapshots' = snapshots \cup
                {[agent |-> a, version |-> card.version, by |-> r]}
      BY <1>3, <2>2 DEF Revises
    <3>. QED BY <3>1, AddSnapshot DEF IInv
  <2>. QED BY <2>1, <2>2
<1>. QED BY <1>1, <1>2, <1>3 DEF StoreStep

LEMMA SnapshotsInductive == Spec => [](IInv /\ NamesInv /\ SnapshotInv)
<1>1. Init => NamesInv /\ SnapshotInv
  BY DEF Init, NamesInv, NamesAreUnique, SnapshotInv,
         CurrentVersionHasSnapshot, OneSnapshotPerVersion
<1>. QED BY <1>1, InitIInv, NextIInv, NextNamesInv, NextSnapshotInv, PTL DEF Spec

\* The version an agent shows has its snapshot in every reachable state: the
\* version and the snapshot are decided from the same, possibly stale, copy.
THEOREM VersionsHaveSnapshots == Spec => []CurrentVersionHasSnapshot
<1>1. SnapshotInv => CurrentVersionHasSnapshot
  BY DEF SnapshotInv
<1>. QED BY <1>1, SnapshotsInductive, PTL

\* No version of an agent is ever recorded twice.
THEOREM SnapshotsAreUnique == Spec => []OneSnapshotPerVersion
<1>1. SnapshotInv => OneSnapshotPerVersion
  BY DEF SnapshotInv
<1>. QED BY <1>1, SnapshotsInductive, PTL
-------------------------------------------------------------------------------
\* Refinement: the registry implements AgentCatalog.
published == {<<s.agent, s.version>> : s \in snapshots}

LEMMA AddPublished ==
    ASSUME NEW a, NEW v, NEW r,
           snapshots' = snapshots \cup {[agent |-> a, version |-> v, by |-> r]}
    PROVE  published' = published \cup {<<a, v>>}
<1>. DEFINE new == [agent |-> a, version |-> v, by |-> r]
<1>1. new.agent = a /\ new.version = v
  OBVIOUS
<1>2. \A s : s \in snapshots' <=> s \in snapshots \/ s = new
  OBVIOUS
<1>. HIDE DEF new
<1>3. \A p : p \in published' <=> p \in published \/ p = <<a, v>>
  BY <1>1, <1>2 DEF published
<1>. QED BY <1>3

\* A registration is a Register step of the catalogue.
LEMMA RegistersRefines ==
    ASSUME TypeOK, NEW r \in Requests, NEW card \in Row, card = NewRow(r), Registers(r)
    PROVE  Catalog!Register(r, card) /\ card \in Catalog!Card
<1>1. published' = published \cup {<<r, card.version>>}
  BY AddPublished DEF Registers
<1>2. \A b \in Requests : agents[b] # Nil => ~Catalog!SameName(agents[b], card)
  BY DEF Registers, SameKey, Catalog!SameName
<1>3. card \in Catalog!Card
  BY DEF Row, Catalog!Card
<1>. QED BY <1>1, <1>2, <1>3 DEF Registers, Catalog!Register, published

\* An update or an archive that writes is a Revise step.
LEMMA RevisesRefines ==
    ASSUME TypeOK, SnapshotInv, NEW r \in Requests, NEW a \in Requests, NEW card \in Row,
           Revises(r, a, card)
    PROVE  Catalog!Revise(a, card.version, card.status)
<1>1. card = [agents[a] EXCEPT !.version = card.version, !.status = card.status]
  BY DEF Revises, Row, SameNames
<1>2. agents' = [agents EXCEPT ![a].version = card.version, ![a].status = card.status]
  <2>1. \A b \in Requests :
           agents'[b] = [agents EXCEPT ![a].version = card.version,
                                       ![a].status = card.status][b]
    BY <1>1 DEF Revises, TypeOK
  <2>. QED BY <2>1 DEF Revises, TypeOK
<1>3. card.version = agents[a].version \/ <<a, card.version>> \notin published
  BY DEF Revises, published
<1>4. published' = published \cup {<<a, card.version>>}
  <2>1. CASE card.version = agents[a].version /\ snapshots' = snapshots
    BY <2>1 DEF published, Revises, SnapshotInv, CurrentVersionHasSnapshot
  <2>2. CASE snapshots' = snapshots \cup {[agent |-> a, version |-> card.version, by |-> r]}
    BY <2>2, AddPublished
  <2>. QED BY <2>1, <2>2 DEF Revises
<1>. QED BY <1>2, <1>3, <1>4 DEF Revises, Catalog!Revise, published

\* The registry implements the catalogue: every step of a handler is a
\* registration, a revision or invisible.
THEOREM Refinement == Spec => ImplementsCatalog
<1>1. Init => Catalog!Init
  BY DEF Init, Catalog!Init
<1>2. IInv /\ NamesInv /\ SnapshotInv /\ [Next]_vars => [Catalog!Next]_(Catalog!vars)
  <2>. SUFFICES ASSUME IInv, SnapshotInv, StoreStep
                PROVE  [Catalog!Next]_(Catalog!vars)
    BY NextStoreStep
  <2>1. CASE UNCHANGED <<agents, snapshots>>
    BY <2>1 DEF Catalog!vars
  <2>2. ASSUME NEW r \in Requests, Registers(r) PROVE Catalog!Next
    <3>1. PICK card \in Row : card = NewRow(r)
      BY <2>2 DEF Registers
    <3>2. Catalog!Register(r, card) /\ card \in Catalog!Card
      BY <2>2, <3>1, RegistersRefines DEF IInv
    <3>. QED BY <3>2 DEF Catalog!Next
  <2>3. ASSUME NEW r \in Requests, NEW a \in Requests, NEW card \in Row, Revises(r, a, card)
        PROVE  Catalog!Next
    <3>1. card.version \in Versions /\ card.status \in Statuses
      BY DEF Row
    <3>. QED BY <2>3, <3>1, RevisesRefines DEF IInv, Catalog!Next
  <2>. QED BY <2>1, <2>2, <2>3 DEF StoreStep
<1>. QED BY <1>1, <1>2, SnapshotsInductive, PTL DEF Spec, ImplementsCatalog, Catalog!Spec
-------------------------------------------------------------------------------
\* Traces: what a request that has not committed may have left, which is nothing.
Ended == {"committed", "done"}

LeftTrace(r) ==
    \/ agents[r] # Nil
    \/ \E s \in snapshots : s.by = r
    \/ \E a \in Requests, k \in Kinds : r \in rows[a][k]

Refusals == {"403", "404", "409", "integrity"}

\* No session has seen a row of a request that has not committed, either.
TraceInv ==
    \A r \in Requests :
       /\ pc[r] \notin Ended => ~LeftTrace(r)
       /\ pc[r] # "done" => reply[r] = Nil
       /\ reply[r] \in Refusals => ~LeftTrace(r)
       /\ \A q \in Requests, k \in Kinds : r \in seenRows[q][k] => pc[r] \in Ended

\* A step that leaves the store alone and answers r, or moves it on to a state
\* before its commit (or past it, if it has committed).
LEMMA QuietKeepsTraceInv ==
    ASSUME IInv, TraceInv, UNCHANGED store, NEW r \in Requests,
           \A q \in Requests \ {r} : pc'[q] = pc[q] /\ reply'[q] = reply[q],
           pc[r] \in Ended => pc'[r] \in Ended,
           pc'[r] \in Ended => pc[r] \in Ended \/ pc'[r] = "done",
           pc'[r] # "done" => reply'[r] = Nil,
           reply'[r] \in Refusals => ~LeftTrace(r),
           \A q, x \in Requests, k \in Kinds :
              x \in seenRows'[q][k] => x \in seenRows[q][k] \/ pc[x] \in Ended
    PROVE  TraceInv'
<1>1. \A q \in Requests : LeftTrace(q)' <=> LeftTrace(q)
  BY DEF LeftTrace, store
<1>. QED BY <1>1 DEF TraceInv

\* A step that commits the work of r.
LEMMA CommitKeepsTraceInv ==
    ASSUME TraceInv, NEW r \in Requests, pc'[r] \in Ended, reply[r] = Nil,
           \A q \in Requests \ {r} : pc'[q] = pc[q],
           UNCHANGED <<reply, seenRows>>,
           \A q \in Requests \ {r} : LeftTrace(q)' => LeftTrace(q)
    PROVE  TraceInv'
<1>1. Nil \notin Refusals
  BY NoReplyAssumption DEF Replies, Refusals
<1>2. ASSUME NEW q \in Requests
      PROVE  /\ pc'[q] \notin Ended => ~LeftTrace(q)'
             /\ pc'[q] # "done" => reply'[q] = Nil
             /\ reply'[q] \in Refusals => ~LeftTrace(q)'
             /\ \A p \in Requests, k \in Kinds : q \in seenRows'[p][k] => pc'[q] \in Ended
  BY <1>1 DEF TraceInv
<1>. QED BY <1>2 DEF TraceInv

LEMMA NextTraceInv == IInv /\ TraceInv /\ [Next]_vars => TraceInv'
<1>. SUFFICES ASSUME IInv, TraceInv, [Next]_vars PROVE TraceInv'
  OBVIOUS
<1>1. CASE UNCHANGED vars
  BY <1>1 DEF vars, session, store, TraceInv, LeftTrace
<1>2. CASE Quiescent
  BY <1>1, <1>2 DEF Quiescent
<1>3. ASSUME NEW r \in Requests, Arrive(r) PROVE TraceInv'
  <2>1. /\ UNCHANGED <<store, reply, seenRows>>
        /\ pc[r] = "idle" /\ pc' = [pc EXCEPT ![r] = "auth"]
    BY <1>3 DEF Arrive
  <2>. QED BY <2>1, QuietKeepsTraceInv DEF IInv, TypeOK, TraceInv, Ended
<1>4. ASSUME NEW r \in Requests, NEW k \in Kinds, ReadRows(r, k) PROVE TraceInv'
  <2>1. /\ UNCHANGED <<store, reply, pc>> /\ pc[r] \in {"auth", "found"}
        /\ seenRows' = [seenRows EXCEPT ![r][k] = rows[seen[r].agent][k]]
    BY <1>4 DEF ReadRows
  <2>2. seen[r].agent \in Requests
    BY <1>4 DEF ReadRows, IInv, TypeOK, SessionInv, Copy
  <2>3. \A q, x \in Requests, j \in Kinds :
           x \in seenRows'[q][j] =>
              x \in seenRows[q][j] \/ x \in rows[seen[r].agent][k]
    BY <2>1 DEF IInv, TypeOK
  <2>4. \A x \in Requests : x \in rows[seen[r].agent][k] => pc[x] \in Ended
    BY <2>2 DEF TraceInv, LeftTrace
  <2>. QED BY <2>1, <2>3, <2>4, QuietKeepsTraceInv DEF TraceInv, Ended
<1>5. ASSUME NEW r \in Requests,
             CheckSlug(r) \/ FindTarget(r) \/ DrawShortId(r) \/ InsertAgent(r)
      PROVE  TraceInv'
  <2>1. /\ UNCHANGED <<store, seenRows>>
        /\ pc[r] \in {"auth", "draw", "insert"}
        /\ \/ /\ UNCHANGED reply
              /\ \E c \in {"draw", "insert", "inserted", "found"} :
                    pc' = [pc EXCEPT ![r] = c]
           \/ \E code \in Replies : Answer(r, code)
    BY <1>5 DEF CheckSlug, FindTarget, DrawShortId, InsertAgent, store, Replies
  <2>2. ~LeftTrace(r) /\ reply[r] = Nil
    BY <2>1 DEF TraceInv, Ended
  <2>. QED BY <2>1, <2>2, QuietKeepsTraceInv DEF IInv, TypeOK, TraceInv, Ended, Answer
<1>6. ASSUME NEW r \in Requests, Respond(r) \/ Fail(r) PROVE TraceInv'
  <2>1. /\ UNCHANGED <<store, seenRows>> /\ pc[r] # "done"
        /\ \E code \in Replies \ Refusals : Answer(r, code)
    <3>1. CASE Fail(r)
      BY <3>1 DEF Fail, Replies, Refusals
    <3>2. CASE Respond(r)
      <4>1. req[r].op \in {"register", "update", "archive"}
        BY <3>2, InputFields DEF Respond, IInv, TypeOK, SessionInv
      <4>. QED BY <3>2, <4>1 DEF Respond, Success, Replies, Refusals
    <3>. QED BY <1>6, <3>1, <3>2
  <2>. QED BY <2>1, QuietKeepsTraceInv DEF IInv, TypeOK, TraceInv, Ended, Answer
<1>7. ASSUME NEW r \in Requests, CommitRegister(r) PROVE TraceInv'
  <2>1. /\ pc[r] = "inserted" /\ pc' = [pc EXCEPT ![r] = "committed"]
        /\ agents' = [agents EXCEPT ![r] = NewRow(r)]
        /\ rows' = [rows EXCEPT ![r] = [k \in Kinds |-> {r}]]
        /\ snapshots' = snapshots \cup {[agent |-> r, version |-> req[r].version, by |-> r]}
        /\ UNCHANGED <<seenRows, reply>>
    BY <1>7 DEF CommitRegister
  <2>2. \A q \in Requests \ {r} : LeftTrace(q)' => LeftTrace(q)
    BY <2>1 DEF LeftTrace, IInv, TypeOK
  <2>3. reply[r] = Nil
    BY <2>1 DEF TraceInv
  <2>. QED BY <2>1, <2>2, <2>3, CommitKeepsTraceInv DEF Ended, IInv, TypeOK
<1>8. ASSUME NEW r \in Requests, CommitUpdate(r) PROVE TraceInv'
  <2>1. pc[r] = "found" /\ UNCHANGED seenRows
    BY <1>8 DEF CommitUpdate
  <2>2. ~LeftTrace(r) /\ reply[r] = Nil
    BY <2>1 DEF TraceInv, Ended
  <2>3. CASE Answer(r, "integrity") /\ UNCHANGED store
    BY <2>1, <2>2, <2>3, QuietKeepsTraceInv DEF IInv, TypeOK, TraceInv, Ended, Answer
  <2>4. CASE ~(VersionChanged(r) /\ VersionTaken(r))
    <3>. DEFINE a == seen[r].agent
    <3>1. /\ agents' = [agents EXCEPT ![a] = Updated(r, agents[a])]
          /\ rows' = [rows EXCEPT ![a] = [k \in Kinds |-> ReplaceRows(r, k, rows[a][k])]]
          /\ snapshots' \subseteq snapshots \cup
                {[agent |-> a, version |-> req[r].version, by |-> r]}
          /\ pc' = [pc EXCEPT ![r] = "committed"] /\ UNCHANGED reply
      BY <1>8, <2>4 DEF CommitUpdate
    <3>2. a \in Requests /\ agents[a] # Nil
      BY <2>1 DEF IInv, TypeOK, SessionInv, Copy
    <3>3. \A q \in Requests \ {r}, b \in Requests, k \in Kinds :
             q \in rows'[b][k] => q \in rows[b][k]
      BY <3>1, <3>2 DEF ReplaceRows, IInv, TypeOK
    <3>4. \A q \in Requests : agents'[q] # Nil => agents[q] # Nil
      BY <3>1, <3>2 DEF IInv, TypeOK
    <3>5. \A q \in Requests \ {r} : (\E s \in snapshots' : s.by = q)
                                       => \E s \in snapshots : s.by = q
      BY <3>1
    <3>6. \A q \in Requests \ {r} : LeftTrace(q)' => LeftTrace(q)
      BY <3>3, <3>4, <3>5 DEF LeftTrace
    <3>. QED BY <2>1, <2>2, <3>1, <3>6, CommitKeepsTraceInv DEF Ended, IInv, TypeOK
  <2>. QED BY <1>8, <2>3, <2>4 DEF CommitUpdate
<1>9. ASSUME NEW r \in Requests, CommitArchive(r) PROVE TraceInv'
  <2>1. /\ pc[r] = "found" /\ pc' = [pc EXCEPT ![r] = "committed"]
        /\ agents' = [agents EXCEPT ![seen[r].agent] = Archived(r, agents[seen[r].agent])]
        /\ UNCHANGED <<rows, snapshots, seenRows, reply>>
    BY <1>9 DEF CommitArchive
  <2>2. seen[r].agent \in Requests /\ agents[seen[r].agent] # Nil
    BY <2>1 DEF IInv, TypeOK, SessionInv, Copy
  <2>3. \A q \in Requests : LeftTrace(q)' => LeftTrace(q)
    BY <2>1, <2>2 DEF LeftTrace, IInv, TypeOK
  <2>4. reply[r] = Nil
    BY <2>1 DEF TraceInv
  <2>. QED BY <2>1, <2>3, <2>4, CommitKeepsTraceInv DEF Ended, IInv, TypeOK
<1>. QED BY <1>1, <1>2, <1>3, <1>4, <1>5, <1>6, <1>7, <1>8, <1>9 DEF Next, Handle

LEMMA TraceInductive == Spec => [](IInv /\ TraceInv)
<1>1. Init => TraceInv
  BY NoReplyAssumption DEF Init, TraceInv, LeftTrace, Refusals, Replies
<1>. QED BY <1>1, InitIInv, NextIInv, NextTraceInv, PTL DEF Spec

\* A refused request has written nothing, however late it was refused.
THEOREM RefusedLeaveNothing == Spec => []RefusedLeavesNoTrace
<1>1. TraceInv => RefusedLeavesNoTrace
  BY DEF TraceInv, LeftTrace, Refusals, RefusedLeavesNoTrace
<1>. QED BY <1>1, TraceInductive, PTL
-------------------------------------------------------------------------------
\* Child lists: a request reads a list before it writes one, so that of two
\* requests whose rows meet neither can have seen the other's.
LEMMA NextMix ==
    IInv /\ TraceInv /\ OnlyOverlappingWritersMix /\ [Next]_vars
       => OnlyOverlappingWritersMix'
<1>. SUFFICES ASSUME IInv, TraceInv, OnlyOverlappingWritersMix, [Next]_vars
              PROVE  OnlyOverlappingWritersMix'
  OBVIOUS
<1>. USE DEF OnlyOverlappingWritersMix
<1>1. CASE UNCHANGED <<rows, seenRows>>
  BY <1>1
<1>2. ASSUME NEW r \in Requests, NEW k \in Kinds, ReadRows(r, k)
      PROVE  OnlyOverlappingWritersMix'
  <2>1. /\ UNCHANGED rows /\ pc[r] \notin Ended
        /\ \A q \in Requests \ {r} : seenRows'[q] = seenRows[q]
    BY <1>2 DEF ReadRows, store, Ended, IInv, TypeOK
  <2>2. \A a \in Requests, j \in Kinds : r \notin rows[a][j]
    BY <2>1 DEF TraceInv, LeftTrace
  <2>3. \A a \in Requests, j \in Kinds : rows[a][j] \in SUBSET Requests
    BY DEF IInv, TypeOK
  <2>4. ASSUME NEW a \in Requests, NEW j \in Kinds,
               NEW q \in rows[a][j], NEW p \in rows[a][j], p # q
        PROVE  q \notin seenRows'[p][j]
    <3>1. p \in Requests \ {r}
      BY <2>2, <2>3
    <3>. QED BY <2>1, <2>4, <3>1
  <2>. QED BY <2>1, <2>4
<1>3. ASSUME NEW r \in Requests, CommitRegister(r) PROVE OnlyOverlappingWritersMix'
  <2>1. /\ rows' = [rows EXCEPT ![r] = [k \in Kinds |-> {r}]] /\ UNCHANGED seenRows
    BY <1>3 DEF CommitRegister
  <2>2. /\ \A a \in Requests \ {r} : rows'[a] = rows[a]
        /\ \A k \in Kinds : rows'[r][k] = {r}
    BY <2>1 DEF IInv, TypeOK
  <2>3. ASSUME NEW a \in Requests, NEW k \in Kinds,
               NEW q \in rows'[a][k], NEW p \in rows'[a][k], p # q
        PROVE  q \notin seenRows[p][k]
    <3>1. a # r
      BY <2>2, <2>3
    <3>. QED BY <2>2, <2>3, <3>1
  <2>. QED BY <2>1, <2>3
<1>4. ASSUME NEW r \in Requests, CommitUpdate(r) PROVE OnlyOverlappingWritersMix'
  <2>. DEFINE a == seen[r].agent
  <2>1. CASE UNCHANGED store
    BY <1>1, <1>4, <2>1 DEF CommitUpdate, store
  <2>2. CASE rows' = [rows EXCEPT ![a] = [k \in Kinds |-> ReplaceRows(r, k, rows[a][k])]]
    <3>1. UNCHANGED seenRows /\ pc[r] \notin Ended /\ a \in Requests
      BY <1>4 DEF CommitUpdate, Ended, IInv, TypeOK, SessionInv, Copy
    <3>2. \A q \in Requests, k \in Kinds : r \notin seenRows[q][k]
      BY <3>1 DEF TraceInv
    <3>3. /\ \A b \in Requests \ {a} : rows'[b] = rows[b]
          /\ \A k \in Kinds : \/ rows'[a][k] = rows[a][k]
                               \/ rows'[a][k] = (rows[a][k] \ seenRows[r][k]) \cup {r}
      BY <2>2, <3>1 DEF ReplaceRows, IInv, TypeOK
    <3>. HIDE DEF a
    <3>4. ASSUME NEW k \in Kinds, NEW q \in rows'[a][k], q # r
          PROVE  q \in rows[a][k]
      BY <3>3, <3>4
    <3>5. ASSUME NEW k \in Kinds, r \in rows'[a][k],
                 NEW q \in rows'[a][k], q # r
          PROVE  q \notin seenRows[r][k]
      <4>1. r \notin rows[a][k]
        BY <3>1 DEF TraceInv, LeftTrace
      <4>. QED BY <3>3, <3>5, <4>1
    <3>6. \A b \in Requests, k \in Kinds : rows'[b][k] \in SUBSET Requests
      <4>1. \A b \in Requests, k \in Kinds : rows[b][k] \in SUBSET Requests
        BY DEF IInv, TypeOK
      <4>2. \A k \in Kinds : rows'[a][k] \subseteq rows[a][k] \cup {r}
        BY <3>3
      <4>. QED BY <3>3, <4>1, <4>2
    <3>7. ASSUME NEW b \in Requests, NEW k \in Kinds,
                 NEW q \in rows'[b][k], NEW p \in rows'[b][k], p # q
          PROVE  q \notin seenRows[p][k]
      <4>1. p \in Requests /\ q \in Requests
        BY <3>6
      <4>. QED BY <3>2, <3>3, <3>4, <3>5, <3>7, <4>1
    <3>. QED BY <3>1, <3>7
  <2>. QED BY <1>4, <2>1, <2>2 DEF CommitUpdate
<1>5. CASE Quiescent
  BY <1>1, <1>5 DEF Quiescent, vars, session, store
<1>6. ASSUME NEW r \in Requests,
             \/ Arrive(r) \/ CheckSlug(r) \/ FindTarget(r) \/ DrawShortId(r)
             \/ InsertAgent(r) \/ CommitArchive(r) \/ Respond(r) \/ Fail(r)
      PROVE  UNCHANGED <<rows, seenRows>>
  BY <1>6 DEF Arrive, CheckSlug, FindTarget, DrawShortId, InsertAgent, CommitArchive,
              Respond, Fail, store
<1>7. CASE UNCHANGED vars
  BY <1>1, <1>7 DEF vars, session, store
<1>. QED BY <1>1, <1>2, <1>3, <1>4, <1>5, <1>6, <1>7 DEF Next, Handle

\* Lists are mixed only by requests that overlap, for any number of them.
THEOREM OverlapMixes == Spec => []OnlyOverlappingWritersMix
<1>1. Init => OnlyOverlappingWritersMix
  BY DEF Init, OnlyOverlappingWritersMix
<1>. QED BY <1>1, TraceInductive, NextMix, PTL DEF Spec
-------------------------------------------------------------------------------
\* Only requests of its owner change an agent: the session holds a copy of
\* an agent only if its caller owns it.
LEMMA NextOwnerWrites ==
    ASSUME IInv, Next, NEW a \in Requests, ChangesAgent(a)
    PROVE  \E r \in Requests : /\ pc[r] # pc'[r] /\ req[r] # Nil
                               /\ req[r].caller = agents'[a].owner
<1>1. ~UNCHANGED store
  BY DEF ChangesAgent, store
<1>2. PICK r \in Requests : CommitRegister(r) \/ CommitUpdate(r) \/ CommitArchive(r)
  BY <1>1 DEF Next, Handle, Quiescent, vars, Arrive, ReadRows, CheckSlug, FindTarget,
              DrawShortId, InsertAgent, Respond, Fail
<1>3. CASE CommitRegister(r)
  <2>1. /\ pc[r] = "inserted" /\ pc'[r] = "committed" /\ req[r] \in Inputs
        /\ req[r].op = "register"
    BY <1>3 DEF CommitRegister, IInv, TypeOK, SessionInv
  <2>2. a = r
    BY <1>3 DEF ChangesAgent, CommitRegister, IInv, TypeOK
  <2>3. agents'[a].owner = req[r].owner
    BY <1>3, <2>2 DEF CommitRegister, NewRow, IInv, TypeOK
  <2>. QED BY <2>1, <2>3, InputFields
<1>4. CASE CommitUpdate(r) \/ CommitArchive(r)
  <2>. DEFINE b == seen[r].agent
  <2>1. /\ pc[r] = "found" /\ b \in Requests /\ req[r] # Nil
        /\ req[r].caller = agents[b].owner
    BY <1>4 DEF CommitUpdate, CommitArchive, IInv, TypeOK, SessionInv, Copy
  <2>2. /\ pc'[r] # "found"
        /\ \A c \in Requests \ {b} : agents'[c] = agents[c] /\ rows'[c] = rows[c]
        /\ \A s \in snapshots' \ snapshots : s.agent = b
        /\ agents'[b] \in {agents[b], Updated(r, agents[b]), Archived(r, agents[b])}
    BY <1>4, <1>1, <2>1 DEF CommitUpdate, CommitArchive, Answer, store, IInv, TypeOK
  <2>3. agents'[b].owner = agents[b].owner
    BY <2>1, <2>2, UpdatedRow, ArchivedRow DEF SameNames
  <2>4. a = b
    BY <2>2 DEF ChangesAgent
  <2>. QED BY <2>1, <2>2, <2>3, <2>4
<1>. QED BY <1>2, <1>3, <1>4

\* No interleaving lets a request change the agent of another publisher.
THEOREM OwnersWrite == Spec => OnlyOwnerWrites
<1>1. IInv /\ [Next]_vars =>
         [\A a \in Requests : ChangesAgent(a) =>
             \E r \in Requests : /\ pc[r] # pc'[r] /\ req[r] # Nil
                                 /\ req[r].caller = agents'[a].owner]_vars
  BY NextOwnerWrites
<1>. QED BY <1>1, Inductive, PTL DEF Spec, OnlyOwnerWrites
-------------------------------------------------------------------------------
\* What a request has stored when it has committed, and what makes it so: the
\* version a session has read has a snapshot, and snapshots are never removed.
Recorded(a, v) == \E s \in snapshots : s.agent = a /\ s.version = v

SeenRecorded(r) == seen[r] # Nil => Recorded(seen[r].agent, seen[r].version)

Stored(r) ==
    /\ req[r].op = "register" =>
          /\ agents[r] # Nil /\ Recorded(r, req[r].version)
          /\ agents[r].owner = req[r].caller /\ agents[r].slug = req[r].slug
    /\ req[r].op = "update" /\ req[r].version # Nil =>
          \E a \in Holders(req[r].owner, req[r].slug) : Recorded(a, req[r].version)

AckInv ==
    \A r \in Requests :
       /\ SeenRecorded(r)
       /\ pc[r] = "committed" => Stored(r)
       /\ reply[r] = "201" => req[r].op = "register" /\ Stored(r)
       /\ reply[r] = "200" => req[r].op = "update" /\ Stored(r)

\* Agents keep their names and snapshots stay.
StoreGrows ==
    /\ snapshots \subseteq snapshots'
    /\ \A a \in Requests : agents[a] # Nil =>
          agents'[a] # Nil /\ SameNames(agents'[a], agents[a])

LEMMA NextStoreGrows == IInv /\ NamesInv /\ [Next]_vars => StoreGrows
<1>. SUFFICES ASSUME IInv, StoreStep PROVE StoreGrows
  BY NextStoreStep
<1>1. CASE UNCHANGED <<agents, snapshots>>
  BY <1>1 DEF StoreGrows, SameNames
<1>2. ASSUME NEW r \in Requests, Registers(r) PROVE StoreGrows
  BY <1>2 DEF Registers, StoreGrows, SameNames, IInv, TypeOK
<1>3. ASSUME NEW r \in Requests, NEW a \in Requests, NEW card \in Row, Revises(r, a, card)
      PROVE  StoreGrows
  BY <1>3 DEF Revises, StoreGrows, SameNames, IInv, TypeOK
<1>. QED BY <1>1, <1>2, <1>3 DEF StoreStep

LEMMA StoredStays ==
    ASSUME StoreGrows, NEW r \in Requests, req'[r] = req[r], Stored(r)
    PROVE  Stored(r)'
<1>1. \A a, v : Recorded(a, v) => Recorded(a, v)'
  BY DEF Recorded, StoreGrows
<1>2. Holders(req[r].owner, req[r].slug) \subseteq Holders(req[r].owner, req[r].slug)'
  BY DEF Holders, StoreGrows, SameNames
<1>. QED BY <1>1, <1>2 DEF Stored, StoreGrows, SameNames

\* A step of a request that has not been answered keeps AckInv if it keeps it
\* for that request.
LEMMA AckOfOthers ==
    ASSUME AckInv, StoreGrows, NEW r \in Requests,
           \A q \in Requests \ {r} : /\ pc'[q] = pc[q] /\ req'[q] = req[q]
                                     /\ seen'[q] = seen[q] /\ reply'[q] = reply[q],
           SeenRecorded(r)',
           pc'[r] = "committed" => Stored(r)',
           reply'[r] = "201" => req'[r].op = "register" /\ Stored(r)',
           reply'[r] = "200" => req'[r].op = "update" /\ Stored(r)'
    PROVE  AckInv'
<1>1. \A a, v : Recorded(a, v) => Recorded(a, v)'
  BY DEF Recorded, StoreGrows
<1>2. \A q \in Requests \ {r} : Stored(q) => Stored(q)'
  BY StoredStays
<1>. QED BY <1>1, <1>2 DEF AckInv, SeenRecorded

LEMMA NextAckInv ==
    IInv /\ NamesInv /\ SnapshotInv /\ TraceInv /\ AckInv /\ [Next]_vars => AckInv'
<1>. SUFFICES ASSUME IInv, NamesInv, SnapshotInv, TraceInv, AckInv, [Next]_vars
              PROVE  AckInv'
  OBVIOUS
<1>. USE NextStoreGrows, NoReplyAssumption
<1>a. Nil \notin {"200", "201"}
  BY DEF Replies
<1>b. \A a \in Requests : agents[a] # Nil => Recorded(a, agents[a].version)
  BY DEF SnapshotInv, CurrentVersionHasSnapshot, Recorded
<1>c. \A a, v : Recorded(a, v) => Recorded(a, v)'
  BY DEF Recorded, StoreGrows
<1>1. CASE UNCHANGED vars
  BY <1>1 DEF vars, session, store, AckInv, SeenRecorded, Stored, Recorded, Holders
<1>2. CASE Quiescent
  BY <1>1, <1>2 DEF Quiescent
<1>3. ASSUME NEW r \in Requests, Arrive(r) PROVE AckInv'
  <2>1. /\ pc[r] = "idle" /\ pc' = [pc EXCEPT ![r] = "auth"] /\ UNCHANGED reply
        /\ \E i \in Inputs : req' = [req EXCEPT ![r] = i]
        /\ \/ UNCHANGED seen
           \/ \E a \in Requests : agents[a] # Nil /\ seen' = [seen EXCEPT ![r] = CopyOf(a)]
    BY <1>3 DEF Arrive, Holders
  <2>2. reply'[r] = Nil /\ seen[r] = Nil
    BY <2>1 DEF TraceInv, IInv, SessionInv
  <2>3. SeenRecorded(r)'
    BY <1>b, <1>c, <2>1, <2>2 DEF SeenRecorded, CopyOf, IInv, TypeOK
  <2>. QED BY <1>a, <2>1, <2>2, <2>3, AckOfOthers DEF IInv, TypeOK
<1>4. ASSUME NEW r \in Requests, NEW k \in Kinds, ReadRows(r, k) PROVE AckInv'
  BY <1>4 DEF ReadRows, store, AckInv, SeenRecorded, Stored, Recorded, Holders
<1>5. ASSUME NEW r \in Requests,
             CheckSlug(r) \/ FindTarget(r) \/ DrawShortId(r) \/ InsertAgent(r)
      PROVE  AckInv'
  <2>1. /\ UNCHANGED <<store, req>> /\ pc[r] # "done"
        /\ \/ /\ UNCHANGED reply
              /\ \E c \in {"draw", "insert", "inserted", "found"} :
                    pc' = [pc EXCEPT ![r] = c]
           \/ \E code \in Refusals : Answer(r, code)
        /\ \/ UNCHANGED seen
           \/ \E a \in Requests : agents[a] # Nil /\ seen' = [seen EXCEPT ![r] = CopyOf(a)]
    BY <1>5 DEF CheckSlug, FindTarget, DrawShortId, InsertAgent, Refusals, Holders
  <2>2. reply[r] = Nil
    BY <2>1 DEF TraceInv
  <2>3. /\ pc'[r] # "committed" /\ reply'[r] \notin {"200", "201"}
        /\ \A q \in Requests \ {r} : pc'[q] = pc[q] /\ reply'[q] = reply[q]
    BY <1>a, <2>1, <2>2 DEF Answer, Refusals, IInv, TypeOK
  <2>4. SeenRecorded(r)'
    BY <1>b, <1>c, <2>1 DEF AckInv, SeenRecorded, CopyOf, IInv, TypeOK
  <2>. QED BY <2>1, <2>3, <2>4, AckOfOthers DEF IInv, TypeOK
<1>6. ASSUME NEW r \in Requests, Respond(r) \/ Fail(r) PROVE AckInv'
  <2>1. /\ UNCHANGED <<req, seen>> /\ pc' = [pc EXCEPT ![r] = "done"]
        /\ \A q \in Requests \ {r} : reply'[q] = reply[q]
    BY <1>6 DEF Respond, Fail, Answer, IInv, TypeOK
  <2>2. /\ reply'[r] = "201" => pc[r] = "committed" /\ req[r].op = "register"
        /\ reply'[r] = "200" => pc[r] = "committed" /\ req[r].op = "update"
    <3>1. CASE Fail(r)
      BY <3>1 DEF Fail, Answer, IInv, TypeOK
    <3>2. CASE Respond(r)
      <4>1. req[r].op \in {"register", "update", "archive"}
        BY <3>2, InputFields DEF Respond, IInv, TypeOK, SessionInv
      <4>. QED BY <3>2, <4>1 DEF Respond, Answer, Success, IInv, TypeOK
    <3>. QED BY <1>6, <3>1, <3>2
  <2>3. pc[r] = "committed" => Stored(r)'
    BY <2>1, StoredStays DEF AckInv
  <2>4. SeenRecorded(r)'
    BY <1>c, <2>1 DEF AckInv, SeenRecorded
  <2>. QED BY <2>1, <2>2, <2>3, <2>4, AckOfOthers DEF IInv, TypeOK
<1>7. ASSUME NEW r \in Requests, CommitRegister(r) PROVE AckInv'
  <2>1. /\ pc[r] = "inserted" /\ pc' = [pc EXCEPT ![r] = "committed"]
        /\ agents'[r] = NewRow(r)
        /\ snapshots' = snapshots \cup {[agent |-> r, version |-> req[r].version, by |-> r]}
        /\ UNCHANGED <<req, seen, reply>>
    BY <1>7 DEF CommitRegister, IInv, TypeOK
  <2>2. req[r].op = "register" /\ req[r] \in Inputs /\ reply[r] = Nil
    BY <2>1 DEF IInv, TypeOK, SessionInv, TraceInv
  <2>3. Stored(r)'
    <3>1. req[r].owner = req[r].caller
      BY <2>2, InputFields
    <3>2. agents'[r] # Nil /\ agents'[r].owner = req[r].owner /\ agents'[r].slug = req[r].slug
      BY <2>1, NewRowType DEF NewRow
    <3>3. Recorded(r, req[r].version)'
      <4>1. [agent |-> r, version |-> req[r].version, by |-> r] \in snapshots'
        BY <2>1
      <4>. QED BY <2>1, <4>1 DEF Recorded
    <3>. QED BY <2>1, <2>2, <3>1, <3>2, <3>3 DEF Stored
  <2>4. SeenRecorded(r)'
    BY <1>c, <2>1 DEF AckInv, SeenRecorded
  <2>. QED BY <1>a, <2>1, <2>2, <2>3, <2>4, AckOfOthers DEF IInv, TypeOK
<1>8. ASSUME NEW r \in Requests, CommitUpdate(r) PROVE AckInv'
  <2>. DEFINE a == seen[r].agent
  <2>1. /\ pc[r] = "found" /\ req[r].op = "update" /\ UNCHANGED <<req, seen>>
        /\ \A q \in Requests \ {r} : pc'[q] = pc[q] /\ reply'[q] = reply[q]
    BY <1>8 DEF CommitUpdate, Answer, IInv, TypeOK
  <2>2. /\ a \in Holders(req[r].owner, req[r].slug) /\ reply[r] = Nil
        /\ Recorded(a, seen[r].version)
    BY <2>1 DEF IInv, TypeOK, SessionInv, Copy, Holders, TraceInv, AckInv, SeenRecorded
  <2>3. SeenRecorded(r)'
    BY <1>c, <2>1 DEF AckInv, SeenRecorded
  <2>4. CASE Answer(r, "integrity")
    BY <2>1, <2>3, <2>4, AckOfOthers DEF Answer, IInv, TypeOK
  <2>5. CASE /\ pc' = [pc EXCEPT ![r] = "committed"] /\ UNCHANGED reply
             /\ ~(VersionChanged(r) /\ VersionTaken(r))
    <3>1. VersionChanged(r) =>
             [agent |-> a, version |-> req[r].version, by |-> r] \in snapshots'
      BY <1>8, <2>5 DEF CommitUpdate
    <3>2. req[r].version # Nil => Recorded(a, req[r].version)'
      <4>1. CASE VersionChanged(r)
        BY <2>1, <3>1, <4>1 DEF Recorded
      <4>2. CASE ~VersionChanged(r)
        BY <1>c, <2>1, <2>2, <4>2 DEF VersionChanged
      <4>. QED BY <4>1, <4>2
    <3>3. a \in Holders(req[r].owner, req[r].slug)'
      BY <2>1, <2>2 DEF Holders, StoreGrows, SameNames
    <3>4. Stored(r)'
      BY <2>1, <3>2, <3>3 DEF Stored
    <3>. QED BY <1>a, <2>1, <2>2, <2>3, <2>5, <3>4, AckOfOthers
  <2>. QED BY <1>8, <2>4, <2>5 DEF CommitUpdate
<1>9. ASSUME NEW r \in Requests, CommitArchive(r) PROVE AckInv'
  <2>1. /\ pc[r] = "found" /\ pc' = [pc EXCEPT ![r] = "committed"]
        /\ req[r].op = "archive" /\ UNCHANGED <<req, seen, reply>>
    BY <1>9 DEF CommitArchive
  <2>2. reply[r] = Nil /\ Stored(r)'
    BY <2>1 DEF TraceInv, Stored
  <2>3. SeenRecorded(r)'
    BY <1>c, <2>1 DEF AckInv, SeenRecorded
  <2>. QED BY <1>a, <2>1, <2>2, <2>3, AckOfOthers DEF IInv, TypeOK
<1>. QED BY <1>1, <1>2, <1>3, <1>4, <1>5, <1>6, <1>7, <1>8, <1>9 DEF Next, Handle

\* What a success reply said is stored, and stays stored.
THEOREM AcknowledgedStays == Spec => []AcknowledgedIsStored
<1>1. Init => AckInv
  BY NoReplyAssumption DEF Init, AckInv, SeenRecorded, Replies
<1>2. AckInv => AcknowledgedIsStored
  BY DEF AckInv, Stored, Recorded, AcknowledgedIsStored
<1>. QED BY <1>1, <1>2, SnapshotsInductive, TraceInductive, NextAckInv, PTL DEF Spec
-------------------------------------------------------------------------------
\* The status of an agent.  What has been read of it, or asked for and
\* committed, is the status it has, unless a request wrote another one.
Acked(r) == \/ pc[r] = "committed" /\ req[r].op # "register"
            \/ reply[r] \in {"200", "204"}

Stands(r) == \/ agents[seen[r].agent].status = Asked(r)
             \/ \E q \in Requests : StatusSetBy(q, seen[r].agent)

StatusInv ==
    \A r \in Requests :
       /\ Acked(r) => seen[r] # Nil
       /\ /\ seen[r] # Nil /\ Asked(r) # Nil
          /\ Acked(r) \/ seen[r].status = Asked(r)
          => Stands(r)

\* A step of r that leaves the agents alone, and either adds nothing to what r
\* has read and acknowledged, or reads an agent.
LEMMA QuietKeepsStatusInv ==
    ASSUME StatusInv, UNCHANGED agents, NEW r \in Requests,
           \A q \in Requests \ {r} : /\ pc'[q] = pc[q] /\ req'[q] = req[q]
                                     /\ seen'[q] = seen[q] /\ reply'[q] = reply[q],
           pc[r] \in Ended => /\ pc'[r] \in Ended /\ reply'[r] # "integrity"
                              /\ req'[r] = req[r] /\ seen'[r] = seen[r],
           \/ req'[r] = req[r] /\ seen'[r] = seen[r] /\ (Acked(r)' => Acked(r))
           \/ ~Acked(r)' /\ seen'[r] = Nil
           \/ ~Acked(r)' /\ \E a \in Requests : seen'[r] = CopyOf(a)
    PROVE  StatusInv'
<1>1. \A q \in Requests : req'[q] = req[q] => Asked(q)' = Asked(q)
  BY DEF Asked
<1>2. ASSUME NEW q \in Requests, NEW a, StatusSetBy(q, a)
      PROVE  StatusSetBy(q, a)'
  <2>1. pc[q] \in Ended
    BY <1>2 DEF StatusSetBy, Ended
  <2>2. /\ pc'[q] \in Ended /\ reply'[q] # "integrity"
        /\ seen'[q] = seen[q] /\ Asked(q)' = Asked(q)
    BY <1>1, <1>2, <2>1 DEF StatusSetBy
  <2>. QED BY <1>2, <2>2 DEF StatusSetBy, Ended
<1>3. \A q \in Requests : seen'[q] = seen[q] /\ req'[q] = req[q] /\ Stands(q) => Stands(q)'
  BY <1>1, <1>2 DEF Stands
<1>4. \A q \in Requests \ {r} : Acked(q)' <=> Acked(q)
  BY DEF Acked
<1>5. ASSUME NEW a \in Requests, seen'[r] = CopyOf(a), seen'[r].status = Asked(r)'
      PROVE  Stands(r)'
  BY <1>5 DEF CopyOf, Stands
<1>6. ASSUME NEW q \in Requests
      PROVE  /\ Acked(q)' => seen'[q] # Nil
             /\ /\ seen'[q] # Nil /\ Asked(q)' # Nil
                /\ Acked(q)' \/ seen'[q].status = Asked(q)'
                => Stands(q)'
  BY <1>1, <1>3, <1>4, <1>5 DEF StatusInv
<1>. QED BY <1>6 DEF StatusInv

\* A commit that writes the status it asks for, if the copy differs from it.
LEMMA CommitKeepsStatusInv ==
    ASSUME IInv, TraceInv, StatusInv, NEW r \in Requests, pc[r] = "found", NEW card,
           card.status = Written(Asked(r), seen[r].status, agents[seen[r].agent].status),
           agents' = [agents EXCEPT ![seen[r].agent] = card],
           pc' = [pc EXCEPT ![r] = "committed"], UNCHANGED <<req, seen, reply>>
    PROVE  StatusInv'
<1>. DEFINE a == seen[r].agent
<1>1. a \in Requests /\ seen[r] # Nil /\ reply[r] = Nil
  BY DEF IInv, TypeOK, SessionInv, Copy, TraceInv
<1>2. /\ agents'[a] = card /\ \A b \in Requests \ {a} : agents'[b] = agents[b]
      /\ pc'[r] = "committed" /\ \A q \in Requests \ {r} : pc'[q] = pc[q]
  BY <1>1 DEF IInv, TypeOK
<1>3. /\ \A q : Asked(q)' = Asked(q)
      /\ \A q \in Requests \ {r} : Acked(q)' <=> Acked(q)
  BY <1>2 DEF Asked, Acked
<1>4. \A q \in Requests : seen[q] # Nil => seen[q].agent \in Requests
  BY DEF IInv, TypeOK, Copy
<1>5. ASSUME NEW q \in Requests, NEW b \in Requests, StatusSetBy(q, b),
             agents'[b].status = agents[b].status
      PROVE  StatusSetBy(q, b)'
  BY <1>2, <1>3, <1>5 DEF StatusSetBy
<1>6. ASSUME NEW q \in Requests, seen[q] # Nil, Stands(q),
             agents'[seen[q].agent].status = agents[seen[q].agent].status
      PROVE  Stands(q)'
  BY <1>3, <1>4, <1>5, <1>6 DEF Stands
<1>7. CASE Asked(r) \in {Nil, seen[r].status}
  <2>1. \A b \in Requests : agents'[b].status = agents[b].status
    BY <1>2, <1>7 DEF Written
  <2>2. \A q \in Requests : seen[q] # Nil /\ Stands(q) => Stands(q)'
    BY <1>4, <1>6, <2>1
  <2>. QED BY <1>1, <1>3, <1>7, <2>2 DEF StatusInv
<1>8. CASE Asked(r) \notin {Nil, seen[r].status}
  <2>1. agents'[a].status = Asked(r)
    BY <1>2, <1>8 DEF Written
  <2>2. Nil # "integrity"
    BY NoReplyAssumption DEF Replies
  <2>3. StatusSetBy(r, a)'
    BY <1>1, <1>2, <1>3, <1>8, <2>1, <2>2 DEF StatusSetBy
  <2>4. ASSUME NEW q \in Requests, seen[q] # Nil, q = r \/ Stands(q)
        PROVE  Stands(q)'
    <3>1. CASE seen[q].agent = a
      BY <2>3, <3>1 DEF Stands
    <3>2. CASE seen[q].agent # a
      BY <1>2, <1>4, <1>6, <2>4, <3>2
    <3>. QED BY <3>1, <3>2
  <2>. QED BY <1>1, <1>3, <2>4 DEF StatusInv
<1>. QED BY <1>7, <1>8

LEMMA NextStatusInv == IInv /\ TraceInv /\ StatusInv /\ [Next]_vars => StatusInv'
<1>. SUFFICES ASSUME IInv, TraceInv, StatusInv, [Next]_vars PROVE StatusInv'
  OBVIOUS
<1>a. Nil \notin {"200", "204", "integrity"}
  BY NoReplyAssumption DEF Replies
<1>1. CASE UNCHANGED vars
  BY <1>1 DEF vars, session, store, StatusInv, Acked, Stands, Asked, StatusSetBy
<1>2. CASE Quiescent
  BY <1>1, <1>2 DEF Quiescent
<1>3. ASSUME NEW r \in Requests, Arrive(r) PROVE StatusInv'
  <2>1. /\ pc[r] = "idle" /\ pc' = [pc EXCEPT ![r] = "auth"] /\ UNCHANGED <<reply, agents>>
        /\ \E i \in Inputs : req' = [req EXCEPT ![r] = i]
        /\ \/ UNCHANGED seen
           \/ \E a \in Requests : seen' = [seen EXCEPT ![r] = CopyOf(a)]
    BY <1>3 DEF Arrive, Holders, store
  <2>2. reply[r] = Nil /\ seen[r] = Nil
    BY <2>1 DEF TraceInv, IInv, SessionInv
  <2>3. ~Acked(r)'
    BY <1>a, <2>1, <2>2 DEF Acked, IInv, TypeOK
  <2>. QED BY <2>1, <2>2, <2>3, QuietKeepsStatusInv DEF IInv, TypeOK, Ended
<1>4. ASSUME NEW r \in Requests, NEW k \in Kinds, ReadRows(r, k) PROVE StatusInv'
  BY <1>4 DEF ReadRows, store, StatusInv, Acked, Stands, Asked, StatusSetBy
<1>5. ASSUME NEW r \in Requests,
             \/ CheckSlug(r) \/ FindTarget(r) \/ DrawShortId(r) \/ InsertAgent(r)
             \/ CommitUpdate(r) /\ Answer(r, "integrity") /\ UNCHANGED store
      PROVE  StatusInv'
  <2>1. /\ UNCHANGED <<agents, req>> /\ pc[r] \notin Ended
        /\ \/ /\ UNCHANGED reply
              /\ \E c \in {"draw", "insert", "inserted", "found"} :
                    pc' = [pc EXCEPT ![r] = c]
           \/ \E code \in Refusals : Answer(r, code)
        /\ \/ UNCHANGED seen
           \/ \E a \in Requests : seen' = [seen EXCEPT ![r] = CopyOf(a)]
    BY <1>5 DEF CheckSlug, FindTarget, DrawShortId, InsertAgent, CommitUpdate, Refusals,
                Holders, Ended, store
  <2>2. reply[r] = Nil
    BY <2>1 DEF TraceInv, Ended
  <2>3. /\ ~Acked(r)'
        /\ \A q \in Requests \ {r} : pc'[q] = pc[q] /\ reply'[q] = reply[q]
    BY <1>a, <2>1, <2>2 DEF Acked, Answer, Refusals, IInv, TypeOK
  <2>. QED BY <2>1, <2>3, QuietKeepsStatusInv DEF IInv, TypeOK
<1>6. ASSUME NEW r \in Requests, Respond(r) \/ Fail(r) PROVE StatusInv'
  <2>1. /\ UNCHANGED <<agents, req, seen>> /\ pc' = [pc EXCEPT ![r] = "done"]
        /\ \A q \in Requests \ {r} : reply'[q] = reply[q]
    BY <1>6 DEF Respond, Fail, Answer, store, IInv, TypeOK
  <2>2. reply'[r] # "integrity" /\ (Acked(r)' => Acked(r))
    <3>1. CASE Fail(r)
      BY <2>1, <3>1 DEF Fail, Answer, Acked, IInv, TypeOK
    <3>2. CASE Respond(r)
      <4>1. req[r].op \in {"register", "update", "archive"}
        BY <3>2, InputFields DEF Respond, IInv, TypeOK, SessionInv
      <4>. QED BY <2>1, <3>2, <4>1 DEF Respond, Answer, Success, Acked, IInv, TypeOK
    <3>. QED BY <1>6, <3>1, <3>2
  <2>. QED BY <2>1, <2>2, QuietKeepsStatusInv DEF IInv, TypeOK, Ended
<1>7. ASSUME NEW r \in Requests, CommitRegister(r) PROVE StatusInv'
  <2>1. /\ pc[r] = "inserted" /\ req[r].op = "register" /\ agents[r] = Nil
        /\ UNCHANGED <<req, seen, reply>>
        /\ pc'[r] = "committed" /\ \A q \in Requests \ {r} : pc'[q] = pc[q]
        /\ \A b \in Requests \ {r} : agents'[b] = agents[b]
    BY <1>7 DEF CommitRegister, IInv, TypeOK, SessionInv, PendingInv
  <2>2. \A q \in Requests : seen[q] # Nil => seen[q].agent \in Requests \ {r}
    BY <2>1 DEF IInv, TypeOK, SessionInv, Copy
  <2>3. \A q : Asked(q)' = Asked(q)
    BY <2>1 DEF Asked
  <2>4. \A q \in Requests : Acked(q)' <=> Acked(q)
    BY <2>1 DEF Acked
  <2>5. \A q \in Requests, b \in Requests \ {r} : StatusSetBy(q, b) => StatusSetBy(q, b)'
    BY <2>1, <2>3 DEF StatusSetBy
  <2>6. \A q \in Requests : seen[q] # Nil /\ Stands(q) => Stands(q)'
    BY <2>1, <2>2, <2>3, <2>5 DEF Stands
  <2>. QED BY <2>1, <2>3, <2>4, <2>6 DEF StatusInv
<1>8. ASSUME NEW r \in Requests, CommitUpdate(r) PROVE StatusInv'
  <2>. DEFINE card == Updated(r, agents[seen[r].agent])
  <2>1. CASE Answer(r, "integrity") /\ UNCHANGED store
    BY <1>5, <1>8, <2>1
  <2>2. CASE ~(VersionChanged(r) /\ VersionTaken(r))
    <3>1. /\ pc[r] = "found" /\ req[r].op = "update"
          /\ agents' = [agents EXCEPT ![seen[r].agent] = card]
          /\ pc' = [pc EXCEPT ![r] = "committed"] /\ UNCHANGED <<req, seen, reply>>
      BY <1>8, <2>2 DEF CommitUpdate
    <3>2. card.status = Written(Asked(r), seen[r].status, agents[seen[r].agent].status)
      BY <3>1, UpdatedRow DEF Updated, Asked, Row
    <3>. HIDE DEF card
    <3>. QED BY <3>1, <3>2, CommitKeepsStatusInv
  <2>. QED BY <1>8, <2>1, <2>2 DEF CommitUpdate
<1>9. ASSUME NEW r \in Requests, CommitArchive(r) PROVE StatusInv'
  <2>. DEFINE card == Archived(r, agents[seen[r].agent])
  <2>1. /\ pc[r] = "found" /\ req[r].op = "archive"
        /\ agents' = [agents EXCEPT ![seen[r].agent] = card]
        /\ pc' = [pc EXCEPT ![r] = "committed"] /\ UNCHANGED <<req, seen, reply>>
    BY <1>9 DEF CommitArchive
  <2>2. card.status = Written(Asked(r), seen[r].status, agents[seen[r].agent].status)
    BY <2>1, ArchivedRow DEF Archived, Asked, Row
  <2>. HIDE DEF card
  <2>. QED BY <2>1, <2>2, CommitKeepsStatusInv
<1>. QED BY <1>1, <1>2, <1>3, <1>4, <1>5, <1>6, <1>7, <1>8, <1>9 DEF Next, Handle

\* An acknowledged archive or change of status is not undone by requests that
\* ask for no other status than they have read, however many there are.
THEOREM StatusHolds == Spec => []AcknowledgedStatusHolds
<1>1. Init => StatusInv
  BY NoReplyAssumption DEF Init, StatusInv, Acked, Replies
<1>2. StatusInv => AcknowledgedStatusHolds
  BY DEF StatusInv, Acked, Stands, AcknowledgedStatusHolds
<1>. QED BY <1>1, <1>2, Inductive, TraceInductive, NextStatusInv, PTL DEF Spec
===============================================================================
