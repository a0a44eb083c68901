---------------------------- MODULE Publish_proofs ----------------------------
(***************************************************************************)
(* Proofs about Publish: what a command reports agrees with the registry.  *)
(* They rest on the invariants of the registry, which hold here since its  *)
(* clients can do to it no more than its own specification lets anyone do. *)
(***************************************************************************)
EXTENDS Publish, AgentRegistry_proofs, FiniteSetTheorems

\* What the registry's own invariants say of the server.
RegistryInv == IInv /\ NamesInv /\ TraceInv

\* What the commands send: complete manifests.
Sendable(i) ==
    /\ i \in Inputs /\ i.op \in {"register", "update"}
    /\ i.version \in Versions /\ i.status \in Statuses /\ i.lists = Kinds

CodesFor(i) == IF i.op = "register" THEN {"201", "409", "integrity", "failed"}
               ELSE {"200", "403", "404", "integrity", "failed"}

\* A request is what was sent, and its answer fits it.
RequestInv ==
    \A r \in Requests :
       /\ sent[r] # Nil => Sendable(sent[r])
       /\ sent[r] = Nil => pc[r] = "idle"
       /\ pc[r] # "idle" => req[r] = sent[r]
       /\ reply[r] # Nil => reply[r] \in CodesFor(sent[r])
       /\ reply[r] = "409" => Holders(sent[r].owner, sent[r].slug) # {}

\* Every command that has sent its POST still has a request for its PATCH.
EnoughInv == Cardinality(Unsent) >= Cardinality({d \in Clients : stage[d] = "POST"})

\* A command knows what it has sent, and why it ended.  Whatever the server has
\* still to answer is its last request or a rival of it.
Began(c) == command[c] # Nil

Waits(c) == \/ sent[call[c]] = PostBody(c, command[c].manifest) /\ stage[c] # "PATCH"
            \/ /\ sent[call[c]] = PatchBody(c, command[c].manifest) /\ stage[c] # "POST"
               /\ Holders(KeyOf[c], command[c].manifest.slug) # {}

ClientInv ==
    \A c \in Clients :
       /\ ~Began(c) => stage[c] = "shell" /\ outcome[c] = Nil
       /\ stage[c] # "shell" => outcome[c] = Nil
       /\ Began(c) =>
            /\ call[c] \in Requests /\ sent[call[c]] # Nil
            /\ Waits(c)
            /\ outcome[c] = "created" => reply[call[c]] = "201"
            /\ outcome[c] = "updated" => reply[call[c]] = "200"
            /\ outcome[c] = "error" =>
                  reply[call[c]] \in {"403", "404", "integrity", "failed"}
            /\ \A r \in rivals[c] : sent[r] # Nil
            /\ Unanswered \subseteq {call[c]} \cup rivals[c]

\* The conflict that a PATCH follows has not gone away.
ConflictInv ==
    \A c \in Clients :
       /\ Began(c) /\ sent[call[c]].op = "update"
       /\ command[c].manifest.publisher = KeyOf[c]
       => reply[call[c]] \notin {"403", "404"}

Writers(c) == {call[c]} \cup rivals[c]

\* What an agent shows comes from c's last request or a rival of it.
Shows(c, a) ==
    /\ agents[a] # Nil
    /\ agents[a].version \in {sent[r].version : r \in Writers(c)}
    /\ agents[a].status \in {sent[r].status : r \in Writers(c)}
    /\ \A k \in Kinds : rows[a][k] # {} /\ rows[a][k] \subseteq Writers(c)

\* Where it differs from the copy that c's last request holds, it does.
CopyInv(c, r) ==
    LET a == seen[r].agent
    IN  /\ agents[a].version \in {seen[r].version} \cup {sent[w].version : w \in Writers(c)}
        /\ agents[a].status \in {seen[r].status} \cup {sent[w].status : w \in Writers(c)}
        /\ \A k \in Kinds \ unread[r] : rows[a][k] \subseteq seenRows[r][k] \cup Writers(c)

VisibleInv ==
    \A c \in Clients : Began(c) =>
       LET r == call[c]
       IN  /\ seen[r] # Nil /\ pc[r] \in {"auth", "found"} => CopyInv(c, r)
           /\ pc[r] = "committed" \/ reply[r] \in {"200", "201"} =>
                 \E a \in Target(c) : Shows(c, a)

\* What a request that has no rival has found is still there, and a constraint
\* that refuses it is the one on short ids or the one on versions.
Current(r) ==
    /\ pc[r] \in {"draw", "insert", "inserted"} => Holders(sent[r].owner, sent[r].slug) = {}
    /\ seen[r] # Nil /\ pc[r] \in {"auth", "found"} =>
         agents[seen[r].agent].version = seen[r].version

Refused(r) ==
    \/ \E a \in Requests : agents[a] # Nil /\ agents[a].shortId = shortId[r]
    \/ \E a \in Holders(sent[r].owner, sent[r].slug) :
          /\ agents[a].version # sent[r].version
          /\ \E s \in snapshots : s.agent = a /\ s.version = sent[r].version

QuietInv ==
    \A c \in Clients : Began(c) /\ rivals[c] = {} =>
       Current(call[c]) /\ (reply[call[c]] = "integrity" => Refused(call[c]))

PublishInv == /\ PublishTypeOK /\ RegistryInv /\ RequestInv /\ EnoughInv
              /\ ClientInv /\ ConflictInv /\ VisibleInv /\ QuietInv
-------------------------------------------------------------------------------
(* The server under its clients *)

\* A step of the clients and their server is a step of the server, or none.
LEMMA StepOfRegistry == [PublishNext]_all => [Next]_vars
<1> SUFFICES ASSUME [PublishNext]_all PROVE [Next]_vars
  OBVIOUS
<1>1. ASSUME NEW c \in Clients, Run(c) \/ Update(c) \/ Report(c) \/ GiveUp(c)
      PROVE  UNCHANGED vars
  BY <1>1 DEF Run, Update, Report, GiveUp
<1>2. ASSUME NEW r \in Requests, Deliver(r) \/ Handles(r) \/ Fails(r)
      PROVE  Next
  BY <1>2 DEF Deliver, Handles, Fails, Next
<1>3. CASE Rest \/ UNCHANGED all
  BY <1>3 DEF Rest, all
<1> QED BY <1>1, <1>2, <1>3 DEF PublishNext

\* Whatever its clients do, the server behaves as AgentRegistry specifies.
THEOREM ServedByRegistry == PublishSpec => Spec
<1>1. PublishInit => Init
  BY DEF PublishInit
<1> QED BY <1>1, StepOfRegistry, PTL DEF PublishSpec, Spec

LEMMA AlwaysRegistry == PublishSpec => [](TypeOK /\ RegistryInv)
<1>1. IInv => TypeOK
  BY DEF IInv
<1>2. IInv /\ NamesInv /\ TraceInv => RegistryInv
  BY DEF RegistryInv
<1> QED BY <1>1, <1>2, ServedByRegistry, SnapshotsInductive, TraceInductive, PTL

LEMMA BodiesSendable ==
    ASSUME NEW c \in Clients, NEW m \in Manifests
    PROVE  /\ Sendable(PostBody(c, m)) /\ PostBody(c, m).op = "register"
           /\ Sendable(PatchBody(c, m)) /\ PatchBody(c, m).op = "update"
<1>1. PostBody(c, m) \in Inputs /\ PatchBody(c, m) \in Inputs /\ m \in Manifest
  BY ClientsAssumption
<1> QED BY <1>1 DEF Sendable, PostBody, PatchBody, Manifest

\* What the requests that have not been sent leave to choose from.
LEMMA NewRequest ==
    ASSUME Cardinality(Unsent) > 0
    PROVE  LET r == CHOOSE new \in Unsent : TRUE IN r \in Requests /\ sent[r] = Nil
<1>1. Unsent # {}
  BY FS_EmptySet
<1>2. (CHOOSE new \in Unsent : TRUE) \in Unsent
  BY <1>1
<1> QED BY <1>2 DEF Unsent

LEMMA Counts ==
    /\ Cardinality(Unsent) \in Nat
    /\ Cardinality({d \in Clients : stage[d] = "POST"}) \in Nat
<1>1. IsFiniteSet(Unsent) /\ IsFiniteSet({d \in Clients : stage[d] = "POST"})
  BY ClientsAssumption, FS_Subset DEF Unsent
<1> QED BY <1>1, FS_CardinalityType

LEMMA EnoughForPost ==
    ASSUME Enough
    PROVE  /\ Cardinality(Unsent) > 0
           /\ Cardinality(Unsent) - 1 >= Cardinality({d \in Clients : stage[d] = "POST"}) + 1
BY Counts DEF Enough

LEMMA EnoughForPatch ==
    ASSUME EnoughInv, NEW c \in Clients, stage[c] = "POST"
    PROVE  /\ Cardinality(Unsent) > 0
           /\ Cardinality({d \in Clients : stage[d] = "POST"}) > 0
<1> DEFINE P == {d \in Clients : stage[d] = "POST"}
<1>1. IsFiniteSet(P) /\ P # {}
  BY ClientsAssumption, FS_Subset
<1>2. Cardinality(P) # 0 /\ Cardinality(P) \in Nat
  BY <1>1, FS_EmptySet, FS_CardinalityType
<1> QED BY <1>2, Counts DEF EnoughInv

\* What Send does.
LEMMA Sends ==
    ASSUME PublishTypeOK, NEW c \in Clients, NEW r \in Requests, sent[r] = Nil,
           NEW method, NEW body, body \in Inputs, Send(c, method, body, r)
    PROVE  /\ Unsent' = Unsent \ {r} /\ body # Nil
           /\ sent'[r] = body /\ \A q \in Requests \ {r} : sent'[q] = sent[q]
           /\ call'[c] = r /\ \A d \in Clients \ {c} : call'[d] = call[d]
           /\ stage'[c] = method /\ \A d \in Clients \ {c} : stage'[d] = stage[d]
           /\ call' \in [Clients -> Requests \cup {Nil}]
           /\ sent' \in [Requests -> Inputs \cup {Nil}]
<1>1. body # Nil
  BY InputFields
<1>2. sent' = [sent EXCEPT ![r] = body] /\ sent \in [Requests -> Inputs \cup {Nil}]
      /\ call' = [call EXCEPT ![c] = r] /\ call \in [Clients -> Requests \cup {Nil}]
      /\ stage' = [stage EXCEPT ![c] = method]
      /\ stage \in [Clients -> {"shell", "POST", "PATCH"}]
  BY DEF Send, PublishTypeOK
<1> QED BY <1>1, <1>2 DEF Unsent

\* The commands that wait for their POST, after a step that moves c.
LEMMA Posting ==
    ASSUME stage \in [Clients -> {"shell", "POST", "PATCH"}], NEW c \in Clients, NEW m,
           stage' = [stage EXCEPT ![c] = m]
    PROVE  LET P == {d \in Clients : stage[d] = "POST"}
           IN  {d \in Clients : stage'[d] = "POST"} = IF m = "POST" THEN P \cup {c} ELSE P \ {c}
OBVIOUS
-------------------------------------------------------------------------------
(* Types, and a request left for every PATCH *)

LEMMA InitPublish == PublishInit => PublishTypeOK /\ EnoughInv
<1> SUFFICES ASSUME PublishInit PROVE PublishTypeOK /\ EnoughInv
  OBVIOUS
<1>1. TypeOK
  BY InitIInv DEF PublishInit, IInv
<1>2. PublishTypeOK
  BY <1>1, ClientsAssumption DEF PublishInit, PublishTypeOK
<1>3. {d \in Clients : stage[d] = "POST"} = {}
  BY DEF PublishInit
<1>4. Cardinality({d \in Clients : stage[d] = "POST"}) = 0
  BY <1>3, FS_EmptySet
<1>5. EnoughInv
  BY <1>4, Counts DEF EnoughInv
<1> QED BY <1>2, <1>5

LEMMA EnoughAfter ==
    ASSUME PublishTypeOK, NEW c \in Clients, NEW m \in {"shell", "POST", "PATCH"},
           stage' = [stage EXCEPT ![c] = m],
           NEW S \in SUBSET Unsent, Unsent' = S,
           LET p == Cardinality({d \in Clients : stage[d] = "POST"})
           IN  Cardinality(S) >=
                  IF stage[c] # "POST" /\ m = "POST" THEN p + 1
                  ELSE IF stage[c] = "POST" /\ m # "POST" THEN p - 1 ELSE p
    PROVE  EnoughInv'
<1> DEFINE P == {d \in Clients : stage[d] = "POST"}
           Q == {d \in Clients : stage'[d] = "POST"}
<1>1. IsFiniteSet(P) /\ Cardinality(P) \in Nat
  BY ClientsAssumption, FS_Subset, FS_CardinalityType
<1>2. Q = IF m = "POST" THEN P \cup {c} ELSE P \ {c}
  BY Posting DEF PublishTypeOK
<1>3. c \in P <=> stage[c] = "POST"
  OBVIOUS
<1> HIDE DEF P, Q
<1>4. Cardinality(Q) = IF c \notin P /\ m = "POST" THEN Cardinality(P) + 1
                       ELSE IF c \in P /\ m # "POST" THEN Cardinality(P) - 1
                       ELSE Cardinality(P)
  <2>1. Cardinality(P \cup {c}) = IF c \in P THEN Cardinality(P) ELSE Cardinality(P) + 1
    BY <1>1, FS_AddElement
  <2>2. Cardinality(P \ {c}) = IF c \in P THEN Cardinality(P) - 1 ELSE Cardinality(P)
    BY <1>1, FS_RemoveElement
  <2> QED BY <1>2, <2>1, <2>2
<1>5. Cardinality(S) >= Cardinality(Q)
  BY <1>1, <1>3, <1>4 DEF P
<1> QED BY <1>5 DEF EnoughInv, Q

LEMMA ServerKeepsTypes ==
    ASSUME PublishTypeOK, TypeOK', EnoughInv, NEW r \in Requests,
           Deliver(r) \/ Handles(r) \/ Fails(r)
    PROVE  PublishTypeOK' /\ EnoughInv'
<1>1. UNCHANGED clients /\ (faults' = faults \/ Fault)
  BY DEF Deliver, Handles, Fails
<1>2. faults' \in 0..MaxFaults
  BY <1>1, ClientsAssumption DEF Fault, PublishTypeOK
<1> QED BY <1>1, <1>2 DEF clients, PublishTypeOK, EnoughInv, Unsent

LEMMA RunKeepsTypes ==
    ASSUME PublishTypeOK, TypeOK', EnoughInv, NEW c \in Clients, Run(c)
    PROVE  PublishTypeOK' /\ EnoughInv'
<1> DEFINE r == CHOOSE new \in Unsent : TRUE
<1>1. PICK name \in {"register", "publish"}, m \in Manifests :
         /\ command' = [command EXCEPT ![c] = [name |-> name, manifest |-> m]]
         /\ Send(c, "POST", PostBody(c, m), r)
         /\ rivals' = [d \in Clients |-> IF d = c THEN Unanswered
                                         ELSE rivals[d] \cup {r}]
  BY DEF Run
<1>2. Enough /\ stage[c] = "shell" /\ outcome' = [outcome EXCEPT ![c] = Nil]
      /\ UNCHANGED <<faults, vars>>
  BY DEF Run
<1>3. r \in Requests /\ sent[r] = Nil
  BY <1>2, EnoughForPost, NewRequest
<1>4. PostBody(c, m) \in Inputs
  BY ClientsAssumption
<1>5. [name |-> name, manifest |-> m] \in Command
  BY DEF Command
<1> HIDE DEF r
<1>6. /\ Unsent' = Unsent \ {r} /\ call' \in [Clients -> Requests \cup {Nil}]
      /\ sent' \in [Requests -> Inputs \cup {Nil}]
  BY <1>1, <1>3, <1>4, Sends
<1>7. command' \in [Clients -> Command \cup {Nil}] /\ rivals' \in [Clients -> SUBSET Requests]
  BY <1>1, <1>3, <1>5 DEF PublishTypeOK, Unanswered
<1>8. stage' = [stage EXCEPT ![c] = "POST"]
  BY <1>1 DEF Send
<1>9. PublishTypeOK'
  BY <1>2, <1>6, <1>7, <1>8 DEF PublishTypeOK
<1>10. Cardinality(Unsent \ {r}) = Cardinality(Unsent) - 1
  <2>1. IsFiniteSet(Unsent) /\ r \in Unsent
    BY <1>3, ClientsAssumption, FS_Subset DEF Unsent
  <2> QED BY <2>1, FS_RemoveElement
<1>11. EnoughInv'
  <2>1. Cardinality(Unsent \ {r}) >= Cardinality({d \in Clients : stage[d] = "POST"}) + 1
    BY <1>2, <1>10, EnoughForPost
  <2> QED BY <1>2, <1>6, <1>8, <2>1, EnoughAfter
<1> QED BY <1>9, <1>11

LEMMA UpdateKeepsTypes ==
    ASSUME PublishTypeOK, TypeOK', EnoughInv, NEW c \in Clients, Update(c), Began(c)
    PROVE  PublishTypeOK' /\ EnoughInv'
<1> DEFINE r == CHOOSE new \in Unsent : TRUE
           body == PatchBody(c, command[c].manifest)
<1>1. /\ stage[c] = "POST" /\ Send(c, "PATCH", body, r)
      /\ rivals' = [d \in Clients |-> IF d = c THEN rivals[d] ELSE rivals[d] \cup {r}]
      /\ UNCHANGED <<command, outcome, faults, vars>>
  BY DEF Update
<1>2. r \in Requests /\ sent[r] = Nil
  BY <1>1, EnoughForPatch, NewRequest
<1>3. body \in Inputs
  BY ClientsAssumption DEF PublishTypeOK, Began, Command
<1> HIDE DEF r, body
<1>4. /\ Unsent' = Unsent \ {r} /\ call' \in [Clients -> Requests \cup {Nil}]
      /\ sent' \in [Requests -> Inputs \cup {Nil}]
  BY <1>1, <1>2, <1>3, Sends
<1>5. stage' = [stage EXCEPT ![c] = "PATCH"]
  BY <1>1 DEF Send
<1>6. PublishTypeOK'
  BY <1>1, <1>2, <1>4, <1>5 DEF PublishTypeOK
<1>7. Cardinality(Unsent \ {r}) = Cardinality(Unsent) - 1
  <2>1. IsFiniteSet(Unsent) /\ r \in Unsent
    BY <1>2, ClientsAssumption, FS_Subset DEF Unsent
  <2> QED BY <2>1, FS_RemoveElement
<1>8. EnoughInv'
  <2>1. Cardinality(Unsent \ {r}) >= Cardinality({d \in Clients : stage[d] = "POST"}) - 1
    BY <1>7, Counts DEF EnoughInv
  <2> QED BY <1>1, <1>4, <1>5, <2>1, EnoughAfter
<1> QED BY <1>6, <1>8

LEMMA EndKeepsTypes ==
    ASSUME PublishTypeOK, TypeOK', EnoughInv, NEW c \in Clients, Report(c) \/ GiveUp(c)
    PROVE  PublishTypeOK' /\ EnoughInv'
<1>1. /\ \E how \in Outcomes : End(c, how)
      /\ UNCHANGED <<command, call, sent, rivals, vars>>
      /\ faults' = faults \/ Fault
  BY DEF Report, GiveUp, Outcomes
<1>2. faults' \in 0..MaxFaults
  BY <1>1, ClientsAssumption DEF Fault, PublishTypeOK
<1>3. stage' = [stage EXCEPT ![c] = "shell"] /\ outcome' \in [Clients -> Outcomes \cup {Nil}]
  BY <1>1 DEF End, PublishTypeOK
<1>4. PublishTypeOK'
  BY <1>1, <1>2, <1>3 DEF PublishTypeOK
<1>5. Unsent' = Unsent
  BY <1>1 DEF Unsent
<1>6. LET p == Cardinality({d \in Clients : stage[d] = "POST"})
      IN  Cardinality(Unsent) >= IF stage[c] = "POST" THEN p - 1 ELSE p
  BY Counts DEF EnoughInv
<1>7. EnoughInv'
  BY <1>3, <1>5, <1>6, EnoughAfter
<1> QED BY <1>4, <1>7

LEMMA RestKeepsTypes ==
    ASSUME PublishTypeOK, EnoughInv, UNCHANGED all
    PROVE  PublishTypeOK' /\ EnoughInv'
BY DEF all, clients, vars, session, store, PublishTypeOK, TypeOK, EnoughInv, Unsent

LEMMA NextTypes ==
    PublishTypeOK /\ TypeOK' /\ EnoughInv /\ ClientInv /\ [PublishNext]_all
       => PublishTypeOK' /\ EnoughInv'
<1> SUFFICES ASSUME PublishTypeOK, TypeOK', EnoughInv, ClientInv, [PublishNext]_all
             PROVE  PublishTypeOK' /\ EnoughInv'
  OBVIOUS
<1>1. ASSUME NEW c \in Clients, Run(c) \/ Update(c) \/ Report(c) \/ GiveUp(c)
      PROVE  PublishTypeOK' /\ EnoughInv'
  <2>1. Update(c) => Began(c)
    BY DEF Update, ClientInv
  <2> QED BY <1>1, <2>1, RunKeepsTypes, UpdateKeepsTypes, EndKeepsTypes
<1>2. ASSUME NEW r \in Requests, Deliver(r) \/ Handles(r) \/ Fails(r)
      PROVE  PublishTypeOK' /\ EnoughInv'
  BY <1>2, ServerKeepsTypes
<1>3. CASE Rest \/ UNCHANGED all
  BY <1>3, RestKeepsTypes DEF Rest
<1> QED BY <1>1, <1>2, <1>3 DEF PublishNext
-------------------------------------------------------------------------------
(* The steps of the server *)

\* A request moves its own session, and turns an agent's columns and lists
\* into its own, or leaves them.
OthersRest(r) ==
    \A q \in Requests \ {r} :
       /\ pc'[q] = pc[q] /\ req'[q] = req[q] /\ reply'[q] = reply[q]
       /\ seen'[q] = seen[q] /\ seenRows'[q] = seenRows[q] /\ unread'[q] = unread[q]
       /\ shortId'[q] = shortId[q]

StoreMoves(r) ==
    \A a \in Requests : agents[a] # Nil =>
       /\ agents'[a] # Nil /\ SameNames(agents'[a], agents[a])
       /\ agents'[a].version \in {agents[a].version, sent[r].version}
       /\ agents'[a].status \in {agents[a].status, sent[r].status}
       /\ \A k \in Kinds : /\ rows'[a][k] \subseteq rows[a][k] \cup {r}
                           /\ rows[a][k] # {} => rows'[a][k] # {}

Serves(r) ==
    /\ sent[r] # Nil /\ pc[r] # "done" /\ pc'[r] # "idle" /\ req'[r] = sent[r]
    /\ OthersRest(r) /\ StoreMoves(r)
    /\ UNCHANGED clients

LEMMA SameStore == ASSUME NEW r \in Requests, UNCHANGED store PROVE StoreMoves(r)
BY DEF store, StoreMoves, SameNames

\* The update of a command writes each of its columns and lists, or leaves it.
LEMMA UpdateMoves ==
    ASSUME TypeOK, RegistryInv, NEW r \in Requests, Sendable(req[r]), req[r] = sent[r],
           CommitUpdate(r)
    PROVE  LET a == seen[r].agent
           IN  \/ pc'[r] = "done" /\ reply'[r] = "integrity" /\ UNCHANGED store
                  /\ VersionChanged(r) /\ VersionTaken(r)
               \/ /\ pc'[r] = "committed" /\ UNCHANGED reply
                  /\ a \in Requests /\ agents[a] # Nil
                  /\ agents' = [agents EXCEPT ![a] = Updated(r, agents[a])]
                  /\ Updated(r, agents[a]) # Nil
                  /\ SameNames(Updated(r, agents[a]), agents[a])
                  /\ Updated(r, agents[a]).version
                       = IF sent[r].version = seen[r].version
                         THEN agents[a].version ELSE sent[r].version
                  /\ Updated(r, agents[a]).status
                       = IF sent[r].status = seen[r].status
                         THEN agents[a].status ELSE sent[r].status
                  /\ \A k \in Kinds : rows'[a][k] = (rows[a][k] \ seenRows[r][k]) \cup {r}
                  /\ \A b \in Requests \ {a} : rows'[b] = rows[b]
<1> DEFINE a == seen[r].agent
           card == Updated(r, agents[a])
<1>1. pc[r] = "found"
  BY DEF CommitUpdate
<1>2. /\ a \in Requests /\ agents[a] \in Row /\ agents[a] # Nil
      /\ card \in Row /\ SameNames(card, agents[a])
      /\ card.version = Written(req[r].version, seen[r].version, agents[a].version)
  <2>1. IInv
    BY DEF RegistryInv
  <2> HIDE DEF card
  <2> QED BY <1>1, <2>1, UpdatedRow, NilAssumption DEF card
<1>3. card # Nil /\ card.status = Written(req[r].status, seen[r].status, agents[a].status)
  BY <1>2, NilAssumption DEF Updated, Row
<1>4. sent[r].version # Nil /\ sent[r].status # Nil /\ req[r].lists = Kinds
  BY NilAssumption DEF Sendable
<1>5. CASE VersionChanged(r) /\ VersionTaken(r)
  BY <1>5 DEF CommitUpdate, Answer, TypeOK
<1>6. CASE ~(VersionChanged(r) /\ VersionTaken(r))
  <2>1. /\ agents' = [agents EXCEPT ![a] = card] /\ pc' = [pc EXCEPT ![r] = "committed"]
        /\ rows' = [rows EXCEPT ![a] = [k \in Kinds |-> ReplaceRows(r, k, rows[a][k])]]
        /\ UNCHANGED reply
    BY <1>6 DEF CommitUpdate
  <2> HIDE DEF card
  <2>2. \A k \in Kinds : rows'[a][k] = (rows[a][k] \ seenRows[r][k]) \cup {r}
    BY <1>2, <1>4, <2>1 DEF TypeOK, ReplaceRows
  <2>3. \A b \in Requests \ {a} : rows'[b] = rows[b]
    BY <2>1 DEF TypeOK
  <2> QED BY <1>2, <1>3, <1>4, <2>1, <2>2, <2>3 DEF TypeOK, Written, card
<1> QED BY <1>5, <1>6

LEMMA ServerServes ==
    ASSUME PublishTypeOK, RegistryInv, RequestInv, NEW r \in Requests,
           Deliver(r) \/ Handles(r) \/ Fails(r)
    PROVE  Serves(r)
<1>1. UNCHANGED clients /\ sent' = sent
  BY DEF Deliver, Handles, Fails, clients
<1>2. TypeOK
  BY DEF PublishTypeOK
<1>3. ASSUME Deliver(r) PROVE Serves(r)
  <2>1. /\ pc[r] = "idle" /\ pc' = [pc EXCEPT ![r] = "auth"] /\ sent[r] # Nil
        /\ req'[r] = sent[r] /\ \E i \in Inputs : req' = [req EXCEPT ![r] = i]
        /\ \/ UNCHANGED <<seen, unread>>
           \/ \E x \in Requests : /\ seen' = [seen EXCEPT ![r] = CopyOf(x)]
                                  /\ unread' = [unread EXCEPT ![r] = Kinds]
        /\ UNCHANGED <<seenRows, shortId, reply, store>>
    BY <1>3 DEF Deliver, Arrive, Holders
  <2>2. OthersRest(r)
    BY <1>2, <2>1 DEF OthersRest, TypeOK
  <2>3. StoreMoves(r)
    BY <2>1, SameStore
  <2> QED BY <1>1, <1>2, <2>1, <2>2, <2>3 DEF Serves, TypeOK
<1>4. ASSUME Handle(r) \/ Fail(r) PROVE pc[r] \notin {"idle", "done"} /\ req'[r] = sent[r] /\ sent[r] # Nil
  <2>1. pc[r] \notin {"idle", "done"} /\ req' = req
    BY <1>4 DEF Handle, ReadRows, CheckSlug, FindTarget, DrawShortId, InsertAgent,
                CommitRegister, CommitUpdate, CommitArchive, Respond, Fail
  <2> QED BY <2>1 DEF RequestInv
<1>5. ASSUME \/ \E k \in Kinds : ReadRows(r, k)
             \/ CheckSlug(r) \/ FindTarget(r) \/ DrawShortId(r) \/ InsertAgent(r)
             \/ Respond(r) \/ Fail(r)
      PROVE  OthersRest(r) /\ StoreMoves(r) /\ pc'[r] # "idle"
  <2>1. UNCHANGED store
    BY <1>5 DEF ReadRows, CheckSlug, FindTarget, DrawShortId, InsertAgent, Respond, Fail
  <2>2. ASSUME \E k \in Kinds : ReadRows(r, k) PROVE OthersRest(r) /\ pc'[r] # "idle"
    BY <1>2, <2>2 DEF ReadRows, OthersRest, TypeOK
  <2>3. ASSUME CheckSlug(r) PROVE OthersRest(r) /\ pc'[r] # "idle"
    BY <1>2, <2>3 DEF CheckSlug, Answer, OthersRest, TypeOK
  <2>4. ASSUME FindTarget(r) PROVE OthersRest(r) /\ pc'[r] # "idle"
    BY <1>2, <2>4 DEF FindTarget, Answer, OthersRest, TypeOK
  <2>5. ASSUME DrawShortId(r) PROVE OthersRest(r) /\ pc'[r] # "idle"
    BY <1>2, <2>5 DEF DrawShortId, OthersRest, TypeOK
  <2>6. ASSUME InsertAgent(r) PROVE OthersRest(r) /\ pc'[r] # "idle"
    BY <1>2, <2>6 DEF InsertAgent, Answer, OthersRest, TypeOK
  <2>7. ASSUME Respond(r) \/ Fail(r) PROVE OthersRest(r) /\ pc'[r] # "idle"
    BY <1>2, <2>7 DEF Respond, Fail, Answer, OthersRest, TypeOK
  <2> QED BY <1>5, <2>1, <2>2, <2>3, <2>4, <2>5, <2>6, <2>7, SameStore
<1>6. ASSUME CommitRegister(r) PROVE OthersRest(r) /\ StoreMoves(r) /\ pc'[r] # "idle"
  <2>1. agents[r] = Nil
    BY <1>6 DEF CommitRegister, RegistryInv, IInv, PendingInv
  <2>2. /\ agents' = [agents EXCEPT ![r] = NewRow(r)]
        /\ rows' = [rows EXCEPT ![r] = [k \in Kinds |-> {r}]]
        /\ pc' = [pc EXCEPT ![r] = "committed"]
        /\ UNCHANGED <<req, seen, seenRows, unread, shortId, draws, reply>>
    BY <1>6 DEF CommitRegister
  <2>3. \A x \in Requests : agents[x] # Nil => agents'[x] = agents[x] /\ rows'[x] = rows[x]
    BY <1>2, <2>1, <2>2 DEF TypeOK
  <2> QED BY <1>2, <2>2, <2>3 DEF OthersRest, StoreMoves, SameNames, TypeOK
<1>7. ASSUME CommitUpdate(r) PROVE OthersRest(r) /\ StoreMoves(r) /\ pc'[r] # "idle"
  <2>1. pc[r] = "found" /\ UNCHANGED <<req, seen, seenRows, unread, shortId>>
    BY <1>7 DEF CommitUpdate
  <2>2. req[r] = sent[r] /\ Sendable(req[r])
    BY <1>4, <1>7, <2>1 DEF RequestInv, Handle
  <2>3. \/ pc' = [pc EXCEPT ![r] = "committed"] /\ UNCHANGED reply
        \/ Answer(r, "integrity")
    BY <1>7 DEF CommitUpdate
  <2>4. OthersRest(r) /\ pc'[r] # "idle"
    BY <1>2, <2>1, <2>3 DEF OthersRest, Answer, TypeOK
  <2>5. CASE UNCHANGED store
    BY <2>4, <2>5, SameStore
  <2> DEFINE a == seen[r].agent
             card == Updated(r, agents[a])
  <2>6. CASE ~UNCHANGED store
    <3>1. /\ a \in Requests /\ agents[a] # Nil /\ agents' = [agents EXCEPT ![a] = card]
          /\ card # Nil /\ SameNames(card, agents[a])
          /\ card.version \in {agents[a].version, sent[r].version}
          /\ card.status \in {agents[a].status, sent[r].status}
          /\ \A k \in Kinds : rows'[a][k] = (rows[a][k] \ seenRows[r][k]) \cup {r}
          /\ \A b \in Requests \ {a} : rows'[b] = rows[b]
      BY <1>2, <1>7, <2>2, <2>6, UpdateMoves
    <3> HIDE DEF card, a
    <3>2. ASSUME NEW x \in Requests, agents[x] # Nil
          PROVE  /\ agents'[x] # Nil /\ SameNames(agents'[x], agents[x])
                 /\ agents'[x].version \in {agents[x].version, sent[r].version}
                 /\ agents'[x].status \in {agents[x].status, sent[r].status}
                 /\ \A k \in Kinds : /\ rows'[x][k] \subseteq rows[x][k] \cup {r}
                                     /\ rows[x][k] # {} => rows'[x][k] # {}
      <4>1. CASE x = a
        BY <1>2, <3>1, <4>1 DEF TypeOK
      <4>2. CASE x # a
        BY <1>2, <3>1, <3>2, <4>2 DEF TypeOK, SameNames
      <4> QED BY <4>1, <4>2
    <3> QED BY <2>4, <3>2 DEF StoreMoves
  <2> QED BY <2>5, <2>6
<1>8. ~CommitArchive(r)
  BY DEF CommitArchive, RequestInv, Sendable
<1> QED BY <1>1, <1>3, <1>4, <1>5, <1>6, <1>7, <1>8 DEF Handles, Fails, Handle, Serves
-------------------------------------------------------------------------------
(* Requests and their answers *)

LEMMA HoldersStay ==
    ASSUME NEW r \in Requests, StoreMoves(r), NEW owner, NEW slug
    PROVE  Holders(owner, slug) \subseteq Holders(owner, slug)'
BY DEF StoreMoves, Holders, SameNames

\* What a step of r answers.
LEMMA Answers ==
    ASSUME PublishTypeOK, RegistryInv, RequestInv, NEW r \in Requests,
           Deliver(r) \/ Handles(r) \/ Fails(r)
    PROVE  /\ reply'[r] # Nil => reply'[r] \in CodesFor(sent[r])
           /\ reply'[r] = "409" => Holders(sent[r].owner, sent[r].slug)' # {}
<1> DEFINE Fit == /\ reply'[r] # Nil => reply'[r] \in CodesFor(sent[r])
                  /\ reply'[r] = "409" => Holders(sent[r].owner, sent[r].slug)' # {}
<1> USE DEF CodesFor
<1>1. TypeOK
  BY DEF PublishTypeOK
<1>2. Serves(r)
  BY ServerServes
<1>3. reply[r] = Nil /\ Sendable(sent[r]) /\ Nil # "409"
  BY <1>2, NoReplyAssumption DEF Serves, RegistryInv, TraceInv, RequestInv, Replies
<1>4. ASSUME reply'[r] = Nil \/ reply'[r] \in {"integrity", "failed"} PROVE Fit
  BY <1>3, <1>4
<1>5. ASSUME pc[r] # "idle" PROVE req[r] = sent[r]
  BY <1>5 DEF RequestInv
<1>6. ASSUME Deliver(r) \/ (\E k \in Kinds : ReadRows(r, k)) \/ DrawShortId(r)
             \/ CommitRegister(r)
      PROVE  reply'[r] = Nil
  BY <1>3, <1>6 DEF Deliver, Arrive, ReadRows, DrawShortId, CommitRegister
<1>7. ASSUME InsertAgent(r) \/ CommitUpdate(r) \/ Fail(r)
      PROVE  reply'[r] = Nil \/ reply'[r] \in {"integrity", "failed"}
  BY <1>1, <1>3, <1>7 DEF InsertAgent, CommitUpdate, Fail, Answer, TypeOK
<1>8. ASSUME CheckSlug(r) PROVE Fit
  <2>1. /\ pc[r] # "idle" /\ req[r].op = "register" /\ UNCHANGED store
        /\ \/ reply'[r] = "409" /\ Holders(req[r].owner, req[r].slug) # {}
           \/ reply'[r] = Nil
    BY <1>1, <1>3, <1>8 DEF CheckSlug, Answer, TypeOK
  <2>2. Holders(sent[r].owner, sent[r].slug)' = Holders(sent[r].owner, sent[r].slug)
    BY <1>2, <2>1 DEF Holders, store, Serves, clients
  <2> QED BY <1>3, <1>5, <2>1, <2>2
<1>9. ASSUME FindTarget(r) PROVE Fit
  <2>1. /\ pc[r] # "idle" /\ req[r].op # "register"
        /\ reply'[r] \in {"403", "404", Nil}
    BY <1>1, <1>3, <1>9 DEF FindTarget, Answer, TypeOK
  <2> QED BY <1>3, <1>5, <2>1
<1>10. ASSUME Respond(r) PROVE Fit
  <2>1. pc[r] # "idle" /\ reply'[r] = Success[req[r].op]
    BY <1>1, <1>10 DEF Respond, Answer, TypeOK
  <2>2. /\ req[r].op = "register" => Success[req[r].op] = "201"
        /\ req[r].op = "update" => Success[req[r].op] = "200"
    BY DEF Success
  <2>3. req[r].op = "register" \/ req[r].op = "update"
    BY <1>3, <1>5, <2>1 DEF Sendable
  <2> QED BY <1>3, <1>5, <2>1, <2>2, <2>3
<1>11. ~CommitArchive(r)
  BY <1>3, <1>5 DEF CommitArchive, Sendable
<1> QED BY <1>4, <1>6, <1>7, <1>8, <1>9, <1>10, <1>11 DEF Handles, Fails, Handle

LEMMA ServerKeepsRequests ==
    ASSUME PublishTypeOK, RegistryInv, RequestInv, NEW r \in Requests,
           Deliver(r) \/ Handles(r) \/ Fails(r)
    PROVE  RequestInv'
<1>1. Serves(r)
  BY ServerServes
<1>2. sent' = sent /\ \A owner, slug : Holders(owner, slug) \subseteq Holders(owner, slug)'
  BY <1>1, HoldersStay DEF Serves, clients
<1>3. ASSUME NEW q \in Requests, q # r
      PROVE  /\ pc'[q] = pc[q] /\ req'[q] = req[q] /\ reply'[q] = reply[q]
             /\ Holders(sent[q].owner, sent[q].slug)
                   \subseteq Holders(sent[q].owner, sent[q].slug)'
  BY <1>1, <1>2, <1>3 DEF Serves, OthersRest
<1>4. sent[r] # Nil /\ pc'[r] # "idle" /\ req'[r] = sent[r] /\ Sendable(sent[r])
  BY <1>1 DEF Serves, RequestInv
<1>5. /\ reply'[r] # Nil => reply'[r] \in CodesFor(sent[r])
      /\ reply'[r] = "409" => Holders(sent[r].owner, sent[r].slug)' # {}
  BY Answers
<1>6. \A owner, slug : Holders(owner, slug)' = {a \in Requests : agents'[a] # Nil /\ agents'[a].owner = owner
                                      /\ agents'[a].slug = slug}
  BY DEF Holders
<1>7. ASSUME NEW q \in Requests
      PROVE  /\ sent'[q] # Nil => Sendable(sent'[q])
             /\ sent'[q] = Nil => pc'[q] = "idle"
             /\ pc'[q] # "idle" => req'[q] = sent'[q]
             /\ reply'[q] # Nil => reply'[q] \in CodesFor(sent'[q])
             /\ reply'[q] = "409" => Holders(sent[q].owner, sent[q].slug)' # {}
  <2>1. CASE q = r
    BY <1>2, <1>4, <1>5, <2>1
  <2>2. CASE q # r
    BY <1>2, <1>3, <2>2 DEF RequestInv
  <2> QED BY <2>1, <2>2
<1> QED BY <1>2, <1>7 DEF RequestInv, Sendable

\* A request that is sent has done nothing yet.
LEMMA SendKeepsRequests ==
    ASSUME PublishTypeOK, RegistryInv, RequestInv, UNCHANGED vars,
           NEW r \in Requests, sent[r] = Nil, Sendable(sent'[r]),
           \A q \in Requests \ {r} : sent'[q] = sent[q]
    PROVE  RequestInv'
<1>1. pc[r] = "idle" /\ reply[r] = Nil /\ Nil # "409"
  BY NoReplyAssumption DEF RequestInv, RegistryInv, TraceInv, Replies
<1>2. \A owner, slug : Holders(owner, slug)' = Holders(owner, slug)
  BY DEF Holders, vars, store
<1>3. pc' = pc /\ req' = req /\ reply' = reply
  BY DEF vars, session
<1>4. sent'[r] # Nil
  BY InputFields DEF Sendable
<1>5. ASSUME NEW q \in Requests
      PROVE  /\ sent'[q] # Nil => Sendable(sent'[q])
             /\ sent'[q] = Nil => pc'[q] = "idle"
             /\ pc'[q] # "idle" => req'[q] = sent'[q]
             /\ reply'[q] # Nil => reply'[q] \in CodesFor(sent'[q])
             /\ reply'[q] = "409" => Holders(sent[q].owner, sent[q].slug)' # {} /\ sent'[q] = sent[q]
  <2>1. CASE q = r
    BY <1>1, <1>3, <1>4, <2>1
  <2>2. CASE q # r
    BY <1>2, <1>3, <2>2 DEF RequestInv
  <2> QED BY <2>1, <2>2
<1>6. ASSUME NEW q \in Requests, reply'[q] = "409"
      PROVE  Holders(sent[q].owner, sent[q].slug)' # {}
  BY <1>5, <1>6
<1> QED BY <1>5, <1>6 DEF RequestInv, Sendable
-------------------------------------------------------------------------------
(* What the steps of the server mean to the commands *)

LEMMA WritersStay == ASSUME NEW r \in Requests, Serves(r), NEW c \in Clients
                     PROVE  /\ Writers(c)' = Writers(c) /\ sent' = sent /\ Began(c)' = Began(c)
                            /\ call' = call /\ command' = command
BY DEF Serves, clients, Writers, Began

LEMMA ServerIsWriter ==
    ASSUME ClientInv, NEW r \in Requests, Serves(r), NEW c \in Clients, Began(c)
    PROVE  r \in Writers(c)
BY DEF ClientInv, Serves, Unanswered, Writers

LEMMA ServerKeepsClients ==
    ASSUME RegistryInv, ClientInv, NEW r \in Requests, Serves(r)
    PROVE  ClientInv'
<1>1. UNCHANGED <<stage, command, call, outcome, sent, rivals>>
  BY DEF Serves, clients
<1>2. reply[r] = Nil /\ \A q \in Requests \ {r} : reply'[q] = reply[q] /\ pc'[q] = pc[q]
  BY DEF Serves, OthersRest, RegistryInv, TraceInv
<1>3. Unanswered' \subseteq Unanswered
  BY <1>1, <1>2 DEF Unanswered, Serves
<1>4. \A q \in Requests : reply[q] \in Replies => reply'[q] = reply[q]
  BY <1>2, NoReplyAssumption
<1>5. ASSUME NEW c \in Clients, Began(c), Waits(c) PROVE Waits(c)'
  <2>1. Holders(KeyOf[c], command[c].manifest.slug)
           \subseteq Holders(KeyOf[c], command[c].manifest.slug)'
    <3>1. \A owner, slug : Holders(owner, slug) \subseteq Holders(owner, slug)'
      BY HoldersStay DEF Serves
    <3> QED BY <1>1, <3>1
  <2> QED BY <1>1, <1>5, <2>1 DEF Waits, PostBody, PatchBody
<1>6. ASSUME NEW c \in Clients
      PROVE  /\ ~Began(c) => stage[c] = "shell" /\ outcome[c] = Nil
             /\ stage[c] # "shell" => outcome[c] = Nil
             /\ Began(c) =>
                  /\ call[c] \in Requests /\ sent[call[c]] # Nil
                  /\ Waits(c)'
                  /\ outcome[c] = "created" => reply'[call[c]] = "201"
                  /\ outcome[c] = "updated" => reply'[call[c]] = "200"
                  /\ outcome[c] = "error" =>
                        reply'[call[c]] \in {"403", "404", "integrity", "failed"}
                  /\ \A q \in rivals[c] : sent[q] # Nil
                  /\ Unanswered' \subseteq {call[c]} \cup rivals[c]
  BY <1>3, <1>4, <1>5 DEF ClientInv, Replies
<1> QED BY <1>1, <1>6 DEF ClientInv, Began

\* Only a lookup answers 403 or 404, and it finds what is there.
LEMMA NoRefusal ==
    ASSUME PublishTypeOK, RegistryInv, RequestInv, NEW r \in Requests,
           Deliver(r) \/ Handles(r) \/ Fails(r),
           sent[r].owner = sent[r].caller, Holders(sent[r].owner, sent[r].slug) # {}
    PROVE  reply'[r] \notin {"403", "404"}
<1>1. TypeOK /\ Serves(r)
  BY ServerServes DEF PublishTypeOK
<1>2. reply[r] = Nil /\ Nil \notin {"403", "404"} /\ Sendable(sent[r])
  BY <1>1, NoReplyAssumption DEF Serves, RegistryInv, TraceInv, RequestInv, Replies
<1>3. pc[r] # "idle" => req[r] = sent[r]
  BY DEF RequestInv
<1>4. ASSUME Deliver(r) \/ (\E k \in Kinds : ReadRows(r, k)) \/ DrawShortId(r)
             \/ CommitRegister(r) \/ CommitArchive(r)
      PROVE  reply'[r] = Nil
  BY <1>2, <1>4 DEF Deliver, Arrive, ReadRows, DrawShortId, CommitRegister, CommitArchive
<1>5. ASSUME CheckSlug(r) \/ InsertAgent(r) \/ CommitUpdate(r) \/ Fail(r)
      PROVE  reply'[r] \in {"409", "integrity", "failed", Nil}
  BY <1>1, <1>2, <1>5 DEF CheckSlug, InsertAgent, CommitUpdate, Fail, Answer, TypeOK
<1>6. ASSUME FindTarget(r) PROVE reply'[r] = Nil
  BY <1>2, <1>3, <1>6 DEF FindTarget
<1>7. ASSUME Respond(r) PROVE reply'[r] \in {"200", "201"}
  <2>1. pc[r] # "idle" /\ reply'[r] = Success[req[r].op]
    BY <1>1, <1>7 DEF Respond, Answer, TypeOK
  <2>2. req[r].op = "register" \/ req[r].op = "update"
    BY <1>2, <1>3, <2>1 DEF Sendable
  <2> QED BY <2>1, <2>2 DEF Success
<1> QED BY <1>2, <1>4, <1>5, <1>6, <1>7 DEF Handles, Fails, Handle

LEMMA ServerKeepsConflicts ==
    ASSUME PublishTypeOK, RegistryInv, RequestInv, ClientInv, ConflictInv, NEW r \in Requests,
           Deliver(r) \/ Handles(r) \/ Fails(r)
    PROVE  ConflictInv'
<1> SUFFICES ASSUME NEW c \in Clients, Began(c), sent[call[c]].op = "update",
                    command[c].manifest.publisher = KeyOf[c]
             PROVE  reply'[call[c]] \notin {"403", "404"}
  <2>1. sent' = sent /\ call' = call /\ command' = command
    BY ServerServes DEF Serves, clients
  <2> QED BY <2>1 DEF ConflictInv, Began
<1>1. Serves(r)
  BY ServerServes
<1>2. CASE call[c] # r
  <2>1. reply'[call[c]] = reply[call[c]]
    BY <1>1, <1>2 DEF Serves, OthersRest, ClientInv
  <2> QED BY <2>1 DEF ConflictInv
<1>3. CASE call[c] = r
  <2>1. Waits(c) /\ sent[r].op = "update"
    BY <1>3 DEF ClientInv
  <2>2. sent[r] = PatchBody(c, command[c].manifest)
        /\ Holders(KeyOf[c], command[c].manifest.slug) # {}
    BY <1>3, <2>1 DEF Waits, PostBody
  <2>3. sent[r].owner = sent[r].caller /\ Holders(sent[r].owner, sent[r].slug) # {}
    BY <2>2 DEF PatchBody
  <2> QED BY <1>3, <2>3, NoRefusal
<1> QED BY <1>2, <1>3
-------------------------------------------------------------------------------
(* What an agent shows while a command runs, and after it *)

LEMMA ShowsStays ==
    ASSUME NEW c \in Clients, NEW r \in Requests, Serves(r), r \in Writers(c),
           NEW a \in Target(c), Shows(c, a)
    PROVE  a \in Target(c)' /\ Shows(c, a)'
<1>1. Writers(c)' = Writers(c) /\ sent' = sent /\ command' = command
  BY WritersStay
<1>2. a \in Requests /\ agents[a] # Nil
  BY DEF Target, Holders
<1>3. /\ agents'[a] # Nil /\ SameNames(agents'[a], agents[a])
      /\ agents'[a].version \in {agents[a].version, sent[r].version}
      /\ agents'[a].status \in {agents[a].status, sent[r].status}
      /\ \A k \in Kinds : /\ rows'[a][k] \subseteq rows[a][k] \cup {r}
                          /\ rows[a][k] # {} => rows'[a][k] # {}
  BY <1>2 DEF Serves, StoreMoves
<1>4. a \in Target(c)'
  BY <1>1, <1>3 DEF Target, Holders, SameNames
<1>5. /\ agents'[a].version \in {sent[w].version : w \in Writers(c)}
      /\ agents'[a].status \in {sent[w].status : w \in Writers(c)}
      /\ \A k \in Kinds : rows'[a][k] # {} /\ rows'[a][k] \subseteq Writers(c)
  BY <1>3 DEF Shows
<1> QED BY <1>1, <1>3, <1>4, <1>5 DEF Shows

LEMMA CopyStays ==
    ASSUME RegistryInv, NEW c \in Clients, NEW r \in Requests, Serves(r), r \in Writers(c),
           NEW w \in Requests, w # r, seen[w] # Nil, CopyInv(c, w)
    PROVE  CopyInv(c, w)'
<1> DEFINE a == seen[w].agent
<1>1. Writers(c)' = Writers(c) /\ sent' = sent
  BY WritersStay
<1>2. a \in Requests /\ agents[a] # Nil
  BY DEF RegistryInv, IInv, TypeOK, SessionInv, Copy
<1>3. seen'[w] = seen[w] /\ seenRows'[w] = seenRows[w] /\ unread'[w] = unread[w]
  BY DEF Serves, OthersRest
<1>4. /\ agents'[a].version \in {agents[a].version, sent[r].version}
      /\ agents'[a].status \in {agents[a].status, sent[r].status}
      /\ \A k \in Kinds : rows'[a][k] \subseteq rows[a][k] \cup {r}
  BY <1>2 DEF Serves, StoreMoves
<1>5. /\ agents'[a].version \in {seen[w].version} \cup {sent[x].version : x \in Writers(c)}
      /\ agents'[a].status \in {seen[w].status} \cup {sent[x].status : x \in Writers(c)}
      /\ \A k \in Kinds \ unread[w] : rows'[a][k] \subseteq seenRows[w][k] \cup Writers(c)
  BY <1>4 DEF CopyInv
<1> QED BY <1>1, <1>3, <1>5 DEF CopyInv

LEMMA OwnCopy ==
    ASSUME PublishTypeOK, RegistryInv, RequestInv, NEW r \in Requests,
           Deliver(r) \/ Handles(r) \/ Fails(r), NEW c \in Clients, r \in Writers(c),
           seen[r] # Nil /\ pc[r] \in {"auth", "found"} => CopyInv(c, r),
           seen'[r] # Nil, pc'[r] \in {"auth", "found"}
    PROVE  CopyInv(c, r)'
<1>1. TypeOK /\ Serves(r)
  BY ServerServes DEF PublishTypeOK
<1>2. Writers(c)' = Writers(c) /\ sent' = sent
  BY <1>1, WritersStay
\* a copy just taken
<1>3. ASSUME NEW x \in Requests, seen'[r] = CopyOf(x), unread'[r] = Kinds, UNCHANGED store
      PROVE  CopyInv(c, r)'
  <2>1. /\ seen'[r].agent = x /\ seen'[r].version = agents[x].version
        /\ seen'[r].status = agents[x].status /\ agents' = agents
    BY <1>3 DEF CopyOf, store
  <2> QED BY <1>3, <2>1 DEF CopyInv
\* the copy there was
<1>4. ASSUME pc[r] \in {"auth", "found"}, UNCHANGED <<seen, seenRows, unread, store>>
      PROVE  CopyInv(c, r)'
  BY <1>2, <1>4 DEF CopyInv, store
<1>5. ASSUME Deliver(r) PROVE CopyInv(c, r)'
  <2>1. /\ pc[r] = "idle" /\ UNCHANGED store
        /\ \/ UNCHANGED seen
           \/ \E x \in Requests : /\ seen' = [seen EXCEPT ![r] = CopyOf(x)]
                                  /\ unread' = [unread EXCEPT ![r] = Kinds]
    BY <1>5 DEF Deliver, Arrive, Holders
  <2>2. seen[r] = Nil
    BY <2>1 DEF RegistryInv, IInv, SessionInv
  <2>3. PICK x \in Requests : /\ seen' = [seen EXCEPT ![r] = CopyOf(x)]
                              /\ unread' = [unread EXCEPT ![r] = Kinds]
    BY <2>1, <2>2
  <2>4. seen'[r] = CopyOf(x) /\ unread'[r] = Kinds
    BY <1>1, <2>3 DEF TypeOK
  <2> QED BY <1>3, <2>1, <2>4
<1>6. ASSUME FindTarget(r) PROVE CopyInv(c, r)'
  <2>1. /\ pc[r] = "auth" /\ UNCHANGED store /\ UNCHANGED seenRows
        /\ \/ UNCHANGED <<seen, unread>>
           \/ \E x \in Requests : /\ seen' = [seen EXCEPT ![r] = CopyOf(x)]
                                  /\ unread' = [unread EXCEPT ![r] = Kinds]
    BY <1>6 DEF FindTarget, Holders
  <2>2. CASE UNCHANGED <<seen, unread>>
    BY <1>4, <2>1, <2>2
  <2>3. ASSUME NEW x \in Requests, seen' = [seen EXCEPT ![r] = CopyOf(x)],
               unread' = [unread EXCEPT ![r] = Kinds]
        PROVE  CopyInv(c, r)'
    <3>1. seen'[r] = CopyOf(x) /\ unread'[r] = Kinds
      BY <1>1, <2>3 DEF TypeOK
    <3> QED BY <1>3, <2>1, <3>1
  <2> QED BY <2>1, <2>2, <2>3
<1>7. ASSUME NEW k \in Kinds, ReadRows(r, k) PROVE CopyInv(c, r)'
  <2>1. /\ pc[r] \in {"auth", "found"} /\ UNCHANGED store /\ seen' = seen
        /\ seenRows' = [seenRows EXCEPT ![r][k] = rows[seen[r].agent][k]]
        /\ unread' = [unread EXCEPT ![r] = @ \ {k}]
    BY <1>7 DEF ReadRows
  <2>2. /\ unread'[r] = unread[r] \ {k} /\ seenRows'[r][k] = rows[seen[r].agent][k]
        /\ \A l \in Kinds \ {k} : seenRows'[r][l] = seenRows[r][l]
    BY <1>1, <2>1 DEF TypeOK
  <2>3. CopyInv(c, r)
    BY <2>1
  <2>4. rows' = rows /\ agents' = agents
    BY <2>1 DEF store
  <2> QED BY <1>2, <2>1, <2>2, <2>3, <2>4 DEF CopyInv
<1>8. ASSUME CheckSlug(r) \/ DrawShortId(r) \/ InsertAgent(r) \/ CommitRegister(r)
             \/ CommitUpdate(r) \/ CommitArchive(r) \/ Respond(r) \/ Fail(r)
      PROVE  pc'[r] \notin {"auth", "found"}
  BY <1>1, <1>8 DEF CheckSlug, DrawShortId, InsertAgent, CommitRegister, CommitUpdate,
                    CommitArchive, Respond, Fail, Answer, TypeOK
<1> QED BY <1>5, <1>6, <1>7, <1>8 DEF Handles, Fails, Handle

\* The commit of a command's own request shows.
LEMMA OwnCommit ==
    ASSUME PublishTypeOK, RegistryInv, RequestInv, NEW c \in Clients, NEW r \in Requests,
           Serves(r), r \in Writers(c), Waits(c), call[c] = r,
           CommitRegister(r) \/ CommitUpdate(r), pc'[r] = "committed",
           pc[r] = "found" => CopyInv(c, r)
    PROVE  \E a \in Target(c)' : Shows(c, a)'
<1> DEFINE m == command[c].manifest
<1>1. Writers(c)' = Writers(c) /\ sent' = sent /\ command' = command /\ TypeOK
  BY WritersStay DEF PublishTypeOK
<1>2. req[r] = sent[r] /\ Sendable(sent[r])
  BY DEF RequestInv, Serves, CommitRegister, CommitUpdate
<1>3. sent[r].caller = KeyOf[c] /\ sent[r].slug = m.slug
  BY DEF Waits, PostBody, PatchBody
<1>4. ASSUME CommitRegister(r) PROVE \E a \in Target(c)' : Shows(c, a)'
  <2>1. /\ pc[r] = "inserted" /\ agents' = [agents EXCEPT ![r] = NewRow(r)]
        /\ rows' = [rows EXCEPT ![r] = [k \in Kinds |-> {r}]]
    BY <1>4 DEF CommitRegister
  <2>2. NewRow(r) # Nil /\ req[r].op = "register"
    BY <2>1, NewRowType DEF RegistryInv, IInv, SessionInv
  <2>3. sent[r].owner = KeyOf[c]
    BY <1>2, <2>2 DEF Waits, PostBody, PatchBody
  <2>4. /\ agents'[r] = NewRow(r) /\ \A k \in Kinds : rows'[r][k] = {r}
    BY <1>1, <2>1 DEF TypeOK
  <2>5. /\ NewRow(r).owner = KeyOf[c] /\ NewRow(r).slug = m.slug
        /\ NewRow(r).version = sent[r].version /\ NewRow(r).status = sent[r].status
    BY <1>2, <1>3, <2>3 DEF NewRow
  <2>6. r \in Target(c)'
    BY <1>1, <2>2, <2>4, <2>5 DEF Target, Holders
  <2>7. Shows(c, r)'
    BY <1>1, <2>2, <2>4, <2>5 DEF Shows
  <2> QED BY <2>6, <2>7
<1>5. ASSUME CommitUpdate(r) PROVE \E a \in Target(c)' : Shows(c, a)'
  <2>0. PICK a : a = seen[r].agent
    OBVIOUS
  <2> DEFINE card == Updated(r, agents[a])
  <2>1. pc[r] = "found" /\ unread[r] = {}
    BY <1>5 DEF CommitUpdate
  <2>2. /\ a \in Requests /\ agents[a] # Nil /\ agents' = [agents EXCEPT ![a] = card]
        /\ card # Nil /\ SameNames(card, agents[a])
        /\ card.version = IF sent[r].version = seen[r].version
                          THEN agents[a].version ELSE sent[r].version
        /\ card.status = IF sent[r].status = seen[r].status
                         THEN agents[a].status ELSE sent[r].status
        /\ \A k \in Kinds : rows'[a][k] = (rows[a][k] \ seenRows[r][k]) \cup {r}
    BY <1>1, <1>2, <1>5, <2>0, UpdateMoves
  <2>3. agents[a].owner = KeyOf[c] /\ agents[a].slug = m.slug
    BY <1>2, <1>3, <2>0, <2>1 DEF RegistryInv, IInv, SessionInv
  <2> HIDE DEF card
  <2>4. agents'[a] = card
    BY <1>1, <2>2 DEF TypeOK
  <2>5. /\ agents[a].version \in {seen[r].version} \cup {sent[w].version : w \in Writers(c)}
        /\ agents[a].status \in {seen[r].status} \cup {sent[w].status : w \in Writers(c)}
        /\ \A k \in Kinds : rows[a][k] \subseteq seenRows[r][k] \cup Writers(c)
    BY <2>0, <2>1 DEF CopyInv
  <2>6. /\ card.version \in {sent[w].version : w \in Writers(c)}
        /\ card.status \in {sent[w].status : w \in Writers(c)}
        /\ \A k \in Kinds : rows'[a][k] # {} /\ rows'[a][k] \subseteq Writers(c)
    BY <2>2, <2>5
  <2>7. a \in Target(c)'
    BY <1>1, <2>2, <2>3, <2>4 DEF Target, Holders, SameNames
  <2>8. Shows(c, a)'
    <3>1. agents'[a] # Nil
      BY <2>2, <2>4
    <3> QED BY <1>1, <2>4, <2>6, <3>1 DEF Shows
  <2> QED BY <2>7, <2>8
<1> QED BY <1>4, <1>5
LEMMA ServerKeepsVisible ==
    ASSUME PublishTypeOK, RegistryInv, RequestInv, ClientInv, VisibleInv, NEW r \in Requests,
           Deliver(r) \/ Handles(r) \/ Fails(r)
    PROVE  VisibleInv'
<1>1. TypeOK /\ Serves(r)
  BY ServerServes DEF PublishTypeOK
<1>2. SUFFICES ASSUME NEW c \in Clients, Began(c)
               PROVE  LET w == call[c]
                      IN  /\ seen'[w] # Nil /\ pc'[w] \in {"auth", "found"} => CopyInv(c, w)'
                          /\ pc'[w] = "committed" \/ reply'[w] \in {"200", "201"} =>
                                \E a \in Target(c)' : Shows(c, a)'
  BY <1>1 DEF VisibleInv, Serves, clients, Began, CopyInv, Writers
<1>3. r \in Writers(c) /\ call[c] \in Requests /\ Waits(c)
  BY <1>1, <1>2, ServerIsWriter DEF ClientInv
<1>4. /\ seen[call[c]] # Nil /\ pc[call[c]] \in {"auth", "found"} => CopyInv(c, call[c])
      /\ pc[call[c]] = "committed" \/ reply[call[c]] \in {"200", "201"} =>
            \E a \in Target(c) : Shows(c, a)
  BY <1>2 DEF VisibleInv
<1>5. (\E a \in Target(c) : Shows(c, a)) => \E a \in Target(c)' : Shows(c, a)'
  BY <1>1, <1>3, ShowsStays
<1>6. CASE call[c] # r
  <2>1. /\ pc'[call[c]] = pc[call[c]] /\ reply'[call[c]] = reply[call[c]]
        /\ seen'[call[c]] = seen[call[c]]
    BY <1>1, <1>3, <1>6 DEF Serves, OthersRest
  <2>2. ASSUME NEW w \in Requests, w = call[c], seen[w] # Nil, CopyInv(c, w)
        PROVE  CopyInv(c, w)'
    BY <1>1, <1>3, <1>6, <2>2, CopyStays
  <2>3. call' = call
    BY <1>1 DEF Serves, clients
  <2> QED BY <1>3, <1>4, <1>5, <2>1, <2>2, <2>3
<1>7. CASE call[c] = r
  <2>1. seen'[r] # Nil /\ pc'[r] \in {"auth", "found"} => CopyInv(c, r)'
    BY <1>3, <1>4, <1>7, OwnCopy
  <2>2. ASSUME pc'[r] = "committed" \/ reply'[r] \in {"200", "201"}
        PROVE  \E a \in Target(c)' : Shows(c, a)'
    <3>1. CASE pc[r] = "committed"
      BY <1>4, <1>5, <1>7, <3>1
    <3>2. CASE pc[r] # "committed"
      <4>1. reply[r] = Nil /\ Nil \notin {"200", "201"}
        BY <1>1, NoReplyAssumption DEF Serves, RegistryInv, TraceInv, Replies
      <4>2. CommitRegister(r) \/ CommitUpdate(r)
        <5>1. ASSUME Deliver(r) \/ (\E k \in Kinds : ReadRows(r, k)) \/ CheckSlug(r)
                     \/ FindTarget(r) \/ DrawShortId(r) \/ InsertAgent(r) \/ Fail(r)
              PROVE  pc'[r] # "committed" /\ reply'[r] \notin {"200", "201"}
          BY <1>1, <3>2, <4>1, <5>1
             DEF Deliver, Arrive, ReadRows, CheckSlug, FindTarget, DrawShortId, InsertAgent,
                 Fail, Answer, TypeOK
        <5>2. ~Respond(r) /\ ~CommitArchive(r)
          BY <3>2 DEF Respond, CommitArchive, RequestInv, Sendable
        <5> QED BY <2>2, <5>1, <5>2 DEF Handles, Fails, Handle
      <4>3. pc'[r] = "committed"
        BY <1>1, <2>2, <4>1, <4>2 DEF CommitRegister, CommitUpdate, Answer, TypeOK
      <4>4. pc[r] = "found" => CopyInv(c, r)
        BY <1>4, <1>7 DEF RegistryInv, IInv, SessionInv
      <4> QED BY <1>1, <1>3, <1>7, <4>2, <4>3, <4>4, OwnCommit
    <3> QED BY <3>1, <3>2
  <2>3. call' = call
    BY <1>1 DEF Serves, clients
  <2> QED BY <1>7, <2>1, <2>2, <2>3
<1> QED BY <1>6, <1>7
-------------------------------------------------------------------------------
(* A command without rivals *)

LEMMA CurrentStays ==
    ASSUME PublishTypeOK, RegistryInv, RequestInv, NEW r \in Requests,
           Deliver(r) \/ Handles(r) \/ Fails(r), Current(r)
    PROVE  Current(r)'
<1>1. TypeOK /\ Serves(r) /\ sent' = sent
  BY ServerServes DEF PublishTypeOK, Serves, clients
<1>2. pc[r] # "idle" => req[r] = sent[r]
  BY DEF RequestInv
<1>3. UNCHANGED store => Holders(sent[r].owner, sent[r].slug)' = Holders(sent[r].owner, sent[r].slug)
  BY <1>1 DEF Holders, store
<1>4. ASSUME NEW x \in Requests, seen'[r] = CopyOf(x), UNCHANGED store,
             pc'[r] \in {"auth", "found"}
      PROVE  Current(r)'
  BY <1>4 DEF Current, CopyOf, store
<1>5. ASSUME Deliver(r) PROVE Current(r)'
  <2>1. /\ pc[r] = "idle" /\ pc' = [pc EXCEPT ![r] = "auth"] /\ UNCHANGED store
        /\ \/ UNCHANGED seen
           \/ \E x \in Requests : seen' = [seen EXCEPT ![r] = CopyOf(x)]
    BY <1>5 DEF Deliver, Arrive, Holders
  <2>2. seen[r] = Nil /\ pc'[r] = "auth"
    BY <1>1, <2>1 DEF RegistryInv, IInv, SessionInv, TypeOK
  <2>3. CASE UNCHANGED seen
    BY <2>2, <2>3 DEF Current
  <2>4. ASSUME NEW x \in Requests, seen' = [seen EXCEPT ![r] = CopyOf(x)] PROVE Current(r)'
    <3>1. seen'[r] = CopyOf(x)
      BY <1>1, <2>4 DEF TypeOK
    <3> QED BY <1>4, <2>1, <2>2, <3>1
  <2> QED BY <2>1, <2>3, <2>4
<1>6. ASSUME FindTarget(r) PROVE Current(r)'
  <2>1. /\ pc[r] = "auth" /\ UNCHANGED store
        /\ pc'[r] \in {"found", "done"}
        /\ \/ UNCHANGED seen
           \/ pc'[r] = "found" /\ \E x \in Requests : seen' = [seen EXCEPT ![r] = CopyOf(x)]
    BY <1>1, <1>6 DEF FindTarget, Holders, Answer, TypeOK
  <2>2. CASE UNCHANGED seen
    BY <2>1, <2>2 DEF Current, store
  <2>3. ASSUME NEW x \in Requests, seen' = [seen EXCEPT ![r] = CopyOf(x)], pc'[r] = "found"
        PROVE  Current(r)'
    <3>1. seen'[r] = CopyOf(x)
      BY <1>1, <2>3 DEF TypeOK
    <3> QED BY <1>4, <2>1, <2>3, <3>1
  <2> QED BY <2>1, <2>2, <2>3
<1>7. ASSUME NEW k \in Kinds, ReadRows(r, k) PROVE Current(r)'
  BY <1>1, <1>7 DEF ReadRows, Current, store
<1>8. ASSUME CheckSlug(r) PROVE Current(r)'
  <2>1. /\ pc[r] = "auth" /\ UNCHANGED store
        /\ \/ pc'[r] = "draw" /\ Holders(req[r].owner, req[r].slug) = {}
           \/ pc'[r] = "done"
    BY <1>1, <1>8 DEF CheckSlug, Answer, TypeOK
  <2> QED BY <1>2, <1>3, <2>1 DEF Current
<1>9. ASSUME DrawShortId(r) \/ InsertAgent(r) PROVE Current(r)'
  <2>1. /\ pc[r] \in {"draw", "insert"} /\ UNCHANGED store
        /\ pc'[r] \in {"draw", "insert", "inserted", "done"}
    BY <1>1, <1>9 DEF DrawShortId, InsertAgent, Answer, TypeOK
  <2> QED BY <1>3, <2>1 DEF Current
<1>10. ASSUME CommitRegister(r) \/ CommitUpdate(r) \/ CommitArchive(r) \/ Respond(r) \/ Fail(r)
       PROVE  Current(r)'
  <2>1. pc'[r] \in {"committed", "done"}
    BY <1>1, <1>10 DEF CommitRegister, CommitUpdate, CommitArchive, Respond, Fail, Answer, TypeOK
  <2> QED BY <2>1 DEF Current
<1> QED BY <1>5, <1>6, <1>7, <1>8, <1>9, <1>10 DEF Handles, Fails, Handle

\* A constraint that refuses it is the one on short ids, or the one on versions.
LEMMA RefusedBy ==
    ASSUME PublishTypeOK, RegistryInv, RequestInv, NEW r \in Requests,
           Deliver(r) \/ Handles(r) \/ Fails(r), Current(r), reply'[r] = "integrity"
    PROVE  Refused(r)'
<1>1. TypeOK /\ Serves(r) /\ sent' = sent
  BY ServerServes DEF PublishTypeOK, Serves, clients
<1>2. reply[r] = Nil /\ Nil # "integrity" /\ (pc[r] # "idle" => req[r] = sent[r])
      /\ Sendable(sent[r])
  BY <1>1, NoReplyAssumption DEF Serves, RegistryInv, TraceInv, Replies, RequestInv
<1>3. ASSUME Deliver(r) \/ (\E k \in Kinds : ReadRows(r, k)) \/ DrawShortId(r)
             \/ CommitRegister(r) \/ CommitArchive(r)
      PROVE  reply'[r] = Nil
  BY <1>2, <1>3 DEF Deliver, Arrive, ReadRows, DrawShortId, CommitRegister, CommitArchive
<1>4. ASSUME CheckSlug(r) \/ FindTarget(r) \/ Fail(r)
      PROVE  reply'[r] \in {"403", "404", "409", "failed", Nil}
  BY <1>1, <1>2, <1>4 DEF CheckSlug, FindTarget, Fail, Answer, TypeOK
<1>5. ASSUME Respond(r) PROVE reply'[r] \in {"200", "201"}
  <2>1. pc[r] # "idle" /\ reply'[r] = Success[req[r].op]
    BY <1>1, <1>5 DEF Respond, Answer, TypeOK
  <2> QED BY <1>2, <2>1 DEF Success, Sendable
<1>6. ASSUME InsertAgent(r) PROVE Refused(r)'
  <2>1. pc[r] = "insert" /\ Taken(r) /\ UNCHANGED <<shortId, store>>
    BY <1>1, <1>2, <1>6 DEF InsertAgent, Answer, TypeOK
  <2>2. PICK a \in Requests : agents[a] # Nil /\ SameKey(agents[a], NewRow(r))
    BY <2>1 DEF Taken
  <2>3. ~(agents[a].owner = sent[r].owner /\ agents[a].slug = sent[r].slug)
    BY <2>1, <2>2 DEF Current, Holders
  <2>4. agents[a].shortId = shortId[r]
    BY <1>2, <2>1, <2>2, <2>3 DEF SameKey, NewRow
  <2> QED BY <2>1, <2>2, <2>4 DEF Refused, store
<1>7. ASSUME CommitUpdate(r) PROVE Refused(r)'
  <2>1. pc[r] = "found" /\ req[r] = sent[r]
    BY <1>2, <1>7 DEF CommitUpdate
  <2>2. VersionChanged(r) /\ VersionTaken(r) /\ UNCHANGED store
    BY <1>1, <1>2, <1>7, <2>1, UpdateMoves
  <2> DEFINE a == seen[r].agent
  <2>3. /\ a \in Requests /\ agents[a] # Nil
        /\ agents[a].owner = sent[r].owner /\ agents[a].slug = sent[r].slug
    BY <2>1 DEF RegistryInv, IInv, TypeOK, SessionInv, Copy
  <2>4. agents[a].version = seen[r].version
    BY <2>1 DEF Current, RegistryInv, IInv, SessionInv
  <2>5. agents[a].version # sent[r].version
    BY <2>1, <2>2, <2>4 DEF VersionChanged
  <2>6. \E s \in snapshots : s.agent = a /\ s.version = sent[r].version
    BY <2>1, <2>2 DEF VersionTaken
  <2>7. a \in Holders(sent[r].owner, sent[r].slug)
    BY <2>3 DEF Holders
  <2>8. \E x \in Holders(sent[r].owner, sent[r].slug) :
          /\ agents[x].version # sent[r].version
          /\ \E s \in snapshots : s.agent = x /\ s.version = sent[r].version
    BY <2>5, <2>6, <2>7
  <2> QED BY <1>1, <2>2, <2>8 DEF Refused, Holders, store
<1> QED BY <1>2, <1>3, <1>4, <1>5, <1>6, <1>7 DEF Handles, Fails, Handle

LEMMA ServerKeepsQuiet ==
    ASSUME PublishTypeOK, RegistryInv, RequestInv, ClientInv, QuietInv, NEW r \in Requests,
           Deliver(r) \/ Handles(r) \/ Fails(r)
    PROVE  QuietInv'
<1>1. Serves(r)
  BY ServerServes
<1>2. UNCHANGED <<stage, command, call, outcome, sent, rivals>>
  BY <1>1 DEF Serves, clients
<1>3. ASSUME NEW c \in Clients, Began(c), rivals[c] = {}
      PROVE  Current(call[c])' /\ (reply'[call[c]] = "integrity" => Refused(call[c])')
  <2>1. r = call[c]
    BY <1>1, <1>3, ServerIsWriter DEF Writers
  <2>2. Current(r)
    BY <1>3, <2>1 DEF QuietInv
  <2>3. Current(r)' /\ (reply'[r] = "integrity" => Refused(r)')
    BY <2>2, CurrentStays, RefusedBy
  <2> QED BY <1>2, <2>1, <2>3 DEF Current, Refused, Holders
<1> QED BY <1>2, <1>3 DEF QuietInv, Current, Refused, Began, Holders
-------------------------------------------------------------------------------
(* The steps of the commands *)

\* c has sent r, and whoever else is about has a rival more.
HasSent(c, r) ==
    /\ r \in Requests /\ sent[r] = Nil /\ sent'[r] # Nil
    /\ \A q \in Requests \ {r} : sent'[q] = sent[q]
    /\ call'[c] = r
    /\ \A d \in Clients \ {c} : /\ call'[d] = call[d] /\ stage'[d] = stage[d]
                                /\ command'[d] = command[d] /\ outcome'[d] = outcome[d]
                                /\ rivals'[d] = rivals[d] \cup {r}
    /\ UNCHANGED vars

LEMMA Untouched ==
    ASSUME RegistryInv, RequestInv, NEW c, NEW r, HasSent(c, r)
    PROVE  /\ pc[r] = "idle" /\ reply[r] = Nil /\ seen[r] = Nil
           /\ Nil \notin Replies
           /\ Unanswered' = Unanswered \cup {r}
<1>1. pc[r] = "idle" /\ reply[r] = Nil /\ seen[r] = Nil
  BY DEF HasSent, RequestInv, RegistryInv, TraceInv, IInv, SessionInv
<1>2. pc' = pc
  BY DEF HasSent, vars, session
<1> QED BY <1>1, <1>2, NoReplyAssumption DEF HasSent, Unanswered

LEMMA OthersAfterSend ==
    ASSUME PublishTypeOK, RegistryInv, RequestInv, ClientInv, VisibleInv,
           NEW c \in Clients, NEW r, HasSent(c, r), NEW d \in Clients, d # c
    PROVE  /\ ~Began(d)' => stage'[d] = "shell" /\ outcome'[d] = Nil
           /\ Began(d)' =>
                /\ call'[d] = call[d] /\ Began(d) /\ rivals'[d] # {} /\ call[d] \in Requests
                /\ sent'[call[d]] = sent[call[d]] /\ sent[call[d]] # Nil
                /\ Waits(d)'
                /\ \A q \in rivals'[d] : sent'[q] # Nil
                /\ Unanswered' \subseteq {call[d]} \cup rivals'[d]
                /\ seen[call[d]] # Nil /\ pc[call[d]] \in {"auth", "found"} => CopyInv(d, call[d])'
                /\ pc[call[d]] = "committed" \/ reply[call[d]] \in {"200", "201"} =>
                      \E a \in Target(d)' : Shows(d, a)'
<1>1. /\ call'[d] = call[d] /\ stage'[d] = stage[d] /\ command'[d] = command[d]
      /\ outcome'[d] = outcome[d] /\ rivals'[d] = rivals[d] \cup {r}
      /\ UNCHANGED vars /\ Began(d)' = Began(d)
  BY DEF HasSent, Began
<1>2. /\ agents' = agents /\ rows' = rows /\ seen' = seen /\ seenRows' = seenRows
      /\ unread' = unread
      /\ \A owner, slug : Holders(owner, slug)' = Holders(owner, slug)
  BY <1>1 DEF vars, session, store, Holders
<1>3. ~Began(d) => stage[d] = "shell" /\ outcome[d] = Nil
  BY DEF ClientInv
<1>4. ASSUME Began(d)
      PROVE  /\ call[d] \in Requests /\ sent[call[d]] # Nil /\ call[d] # r
             /\ sent'[call[d]] = sent[call[d]]
             /\ \A q \in rivals[d] : q \in Requests /\ sent[q] # Nil
             /\ Unanswered \subseteq {call[d]} \cup rivals[d]
             /\ Waits(d)
  BY <1>1, <1>4 DEF ClientInv, HasSent, PublishTypeOK
<1>5. ASSUME Began(d) PROVE \A q \in rivals'[d] : sent'[q] # Nil
  BY <1>1, <1>4, <1>5 DEF HasSent
<1>6. ASSUME Began(d) PROVE Waits(d)'
  BY <1>1, <1>2, <1>4, <1>6 DEF Waits, PostBody, PatchBody
<1>7. ASSUME Began(d) PROVE Unanswered' \subseteq {call[d]} \cup rivals'[d]
  BY <1>1, <1>4, <1>7, Untouched
<1>8. ASSUME Began(d)
      PROVE  /\ Writers(d) \subseteq Writers(d)' /\ \A w \in Writers(d) : sent'[w] = sent[w]
             /\ {sent[w].version : w \in Writers(d)} \subseteq {sent[w].version : w \in Writers(d)}'
             /\ {sent[w].status : w \in Writers(d)} \subseteq {sent[w].status : w \in Writers(d)}'
  <2>1. Writers(d) \subseteq Writers(d)'
    BY <1>1 DEF Writers
  <2>2. \A w \in Writers(d) : w # r
    BY <1>4, <1>8 DEF Writers, HasSent
  <2>3. \A w \in Writers(d) : sent'[w] = sent[w]
    BY <2>2, <1>4, <1>8 DEF HasSent, Writers
  <2> QED BY <2>1, <2>3
<1>9. ASSUME Began(d), seen[call[d]] # Nil, pc[call[d]] \in {"auth", "found"}
      PROVE  CopyInv(d, call[d])'
  <2>1. CopyInv(d, call[d])
    BY <1>9 DEF VisibleInv
  <2> QED BY <1>1, <1>2, <1>8, <1>9, <2>1 DEF CopyInv
<1>10. ASSUME Began(d), pc[call[d]] = "committed" \/ reply[call[d]] \in {"200", "201"}
       PROVE  \E a \in Target(d)' : Shows(d, a)'
  <2>1. PICK a \in Target(d) : Shows(d, a)
    BY <1>10 DEF VisibleInv
  <2>2. a \in Target(d)'
    BY <1>1, <1>2 DEF Target
  <2>3. Shows(d, a)'
    BY <1>2, <1>8, <1>10, <2>1 DEF Shows
  <2> QED BY <2>2, <2>3
<1> QED BY <1>1, <1>3, <1>4, <1>5, <1>6, <1>7, <1>9, <1>10
\* c itself waits for r, of which nothing can be said yet.
LEMMA SendKeeps ==
    ASSUME PublishTypeOK, RegistryInv, RequestInv, ClientInv, ConflictInv, VisibleInv, QuietInv,
           NEW c \in Clients, NEW r, HasSent(c, r), Sendable(sent'[r]),
           stage'[c] # "shell", Began(c)', Waits(c)',
           outcome'[c] = Nil, rivals'[c] \subseteq Requests,
           \A q \in rivals'[c] : sent[q] # Nil, Unanswered \subseteq rivals'[c]
    PROVE  RequestInv' /\ ClientInv' /\ ConflictInv' /\ VisibleInv' /\ QuietInv'
<1>1. /\ call'[c] = r /\ r \in Requests /\ sent[r] = Nil
      /\ UNCHANGED vars /\ \A q \in Requests \ {r} : sent'[q] = sent[q]
  BY DEF HasSent
<1>2. /\ pc[r] = "idle" /\ reply[r] = Nil /\ seen[r] = Nil
      /\ Nil \notin Replies /\ Unanswered' = Unanswered \cup {r}
  BY Untouched
<1>3. pc' = pc /\ reply' = reply /\ seen' = seen
  BY <1>1 DEF vars, session
<1>4. RequestInv'
  BY <1>1, SendKeepsRequests
<1>5. Nil \notin Outcomes
  BY ClientsAssumption
<1>6. ASSUME NEW d \in Clients, d # c
      PROVE  /\ ~Began(d)' => stage'[d] = "shell" /\ outcome'[d] = Nil
             /\ Began(d)' =>
                  /\ call'[d] = call[d] /\ Began(d) /\ rivals'[d] # {} /\ call[d] \in Requests
                  /\ sent'[call[d]] = sent[call[d]] /\ sent[call[d]] # Nil
                  /\ Waits(d)'
                  /\ \A q \in rivals'[d] : sent'[q] # Nil
                  /\ Unanswered' \subseteq {call[d]} \cup rivals'[d]
                  /\ seen[call[d]] # Nil /\ pc[call[d]] \in {"auth", "found"}
                        => CopyInv(d, call[d])'
                  /\ pc[call[d]] = "committed" \/ reply[call[d]] \in {"200", "201"} =>
                        \E a \in Target(d)' : Shows(d, a)'
             /\ outcome'[d] = outcome[d] /\ command'[d] = command[d]
  <2>1. outcome'[d] = outcome[d] /\ command'[d] = command[d]
    BY <1>6 DEF HasSent
  <2> QED BY <1>6, <2>1, OthersAfterSend
<1>7. ClientInv'
  <2>1. ASSUME NEW d \in Clients
        PROVE  /\ ~Began(d)' => stage'[d] = "shell" /\ outcome'[d] = Nil
               /\ stage'[d] # "shell" => outcome'[d] = Nil
               /\ Began(d)' =>
                    /\ call'[d] \in Requests /\ sent'[call'[d]] # Nil
                    /\ Waits(d)'
                    /\ outcome'[d] = "created" => reply'[call'[d]] = "201"
                    /\ outcome'[d] = "updated" => reply'[call'[d]] = "200"
                    /\ outcome'[d] = "error" =>
                          reply'[call'[d]] \in {"403", "404", "integrity", "failed"}
                    /\ \A q \in rivals'[d] : sent'[q] # Nil
                    /\ Unanswered' \subseteq {call'[d]} \cup rivals'[d]
    <3>1. CASE d = c
      <4>1. \A q \in rivals'[c] : sent'[q] # Nil
        BY <1>1
      <4>2. sent'[r] # Nil
        BY DEF HasSent
      <4> QED BY <1>1, <1>2, <1>5, <3>1, <4>1, <4>2 DEF Outcomes
    <3>2. CASE d # c
      <4>0. stage'[d] # "shell" => outcome'[d] = Nil
        BY <1>6, <3>2 DEF ClientInv, HasSent
      <4>1. Began(d) =>
               /\ outcome[d] = "created" => reply[call[d]] = "201"
               /\ outcome[d] = "updated" => reply[call[d]] = "200"
               /\ outcome[d] = "error" =>
                     reply[call[d]] \in {"403", "404", "integrity", "failed"}
        BY DEF ClientInv
      <4> QED BY <1>3, <1>6, <3>2, <4>0, <4>1
    <3> QED BY <3>1, <3>2
  <2> QED BY <2>1 DEF ClientInv
<1>8. ConflictInv'
  <2>1. ASSUME NEW d \in Clients, Began(d)', sent'[call'[d]].op = "update",
               command'[d].manifest.publisher = KeyOf[d]
        PROVE  reply'[call'[d]] \notin {"403", "404"}
    <3>1. CASE d = c
      BY <1>1, <1>2, <1>3, <3>1 DEF Replies
    <3>2. CASE d # c
      BY <1>3, <1>6, <2>1, <3>2 DEF ConflictInv
    <3> QED BY <3>1, <3>2
  <2> QED BY <2>1 DEF ConflictInv
<1>9. VisibleInv'
  <2>1. ASSUME NEW d \in Clients, Began(d)'
        PROVE  LET w == call'[d]
               IN  /\ seen'[w] # Nil /\ pc'[w] \in {"auth", "found"} => CopyInv(d, call[d])' /\ w = call[d]
                   /\ pc'[w] = "committed" \/ reply'[w] \in {"200", "201"} =>
                         \E a \in Target(d)' : Shows(d, a)'
    <3>1. CASE d = c
      BY <1>1, <1>2, <1>3, <3>1 DEF Replies
    <3>2. CASE d # c
      BY <1>3, <1>6, <2>1, <3>2
    <3> QED BY <3>1, <3>2
  <2> QED BY <2>1 DEF VisibleInv
<1>10. QuietInv'
  <2>1. ASSUME NEW d \in Clients, Began(d)', rivals'[d] = {}
        PROVE  Current(call[d])' /\ (reply'[call'[d]] = "integrity" => Refused(call[d])')
    <3>1. d = c
      BY <1>6, <2>1
    <3>2. pc'[call'[d]] = "idle" /\ reply'[call'[d]] = Nil /\ seen'[call'[d]] = Nil
      BY <1>1, <1>2, <1>3, <3>1
    <3> QED BY <1>2, <3>2 DEF Current, Replies
  <2> QED BY <2>1 DEF QuietInv
<1> QED BY <1>4, <1>7, <1>8, <1>9, <1>10

LEMMA RunKeeps ==
    ASSUME PublishTypeOK, RegistryInv, RequestInv, ClientInv, ConflictInv, VisibleInv, QuietInv,
           NEW c \in Clients, Run(c)
    PROVE  RequestInv' /\ ClientInv' /\ ConflictInv' /\ VisibleInv' /\ QuietInv'
<1>1. PICK r : r = CHOOSE new \in Unsent : TRUE
  OBVIOUS
<1>2. PICK name \in {"register", "publish"}, m \in Manifests :
         /\ command' = [command EXCEPT ![c] = [name |-> name, manifest |-> m]]
         /\ Send(c, "POST", PostBody(c, m), r)
         /\ rivals' = [d \in Clients |-> IF d = c THEN Unanswered
                                         ELSE rivals[d] \cup {r}]
  BY <1>1 DEF Run
<1>3. Enough /\ outcome' = [outcome EXCEPT ![c] = Nil] /\ UNCHANGED vars
  BY DEF Run
<1>4. r \in Requests /\ sent[r] = Nil
  BY <1>1, <1>3, EnoughForPost, NewRequest
<1>5. PostBody(c, m) \in Inputs /\ Sendable(PostBody(c, m))
  BY BodiesSendable, ClientsAssumption
<1>6. /\ sent'[r] = PostBody(c, m) /\ PostBody(c, m) # Nil
      /\ \A q \in Requests \ {r} : sent'[q] = sent[q]
      /\ call'[c] = r /\ \A d \in Clients \ {c} : call'[d] = call[d]
      /\ stage'[c] = "POST" /\ \A d \in Clients \ {c} : stage'[d] = stage[d]
  BY <1>2, <1>4, <1>5, Sends
<1>7. [name |-> name, manifest |-> m] \in Command /\ Nil \notin Command
  BY ClientsAssumption DEF Command
<1>8. /\ command'[c] = [name |-> name, manifest |-> m] /\ outcome'[c] = Nil
      /\ \A d \in Clients \ {c} : command'[d] = command[d] /\ outcome'[d] = outcome[d]
      /\ rivals'[c] = Unanswered /\ \A d \in Clients \ {c} : rivals'[d] = rivals[d] \cup {r}
  BY <1>2, <1>3 DEF PublishTypeOK
<1>9. HasSent(c, r)
  BY <1>3, <1>4, <1>6, <1>8 DEF HasSent
<1>10. Began(c)'
  BY <1>7, <1>8 DEF Began
<1>11. Waits(c)'
  <2>1. sent'[call'[c]] = PostBody(c, command'[c].manifest)
    BY <1>6, <1>8
  <2> QED BY <1>6, <2>1 DEF Waits, PostBody
<1>12. rivals'[c] \subseteq Requests /\ \A q \in rivals'[c] : sent[q] # Nil
  BY <1>8 DEF Unanswered
<1> QED BY <1>5, <1>6, <1>8, <1>9, <1>10, <1>11, <1>12, SendKeeps

LEMMA UpdateKeeps ==
    ASSUME PublishTypeOK, EnoughInv, RegistryInv, RequestInv, ClientInv, ConflictInv, VisibleInv,
           QuietInv, NEW c \in Clients, Update(c)
    PROVE  RequestInv' /\ ClientInv' /\ ConflictInv' /\ VisibleInv' /\ QuietInv'
<1>1. PICK r : r = CHOOSE new \in Unsent : TRUE
  OBVIOUS
<1>2. PICK m : m = command[c].manifest
  OBVIOUS
<1>3. /\ stage[c] = "POST" /\ reply[call[c]] = "409" /\ Send(c, "PATCH", PatchBody(c, m), r)
      /\ rivals' = [d \in Clients |-> IF d = c THEN rivals[d] ELSE rivals[d] \cup {r}]
      /\ UNCHANGED <<command, outcome, faults, vars>>
  BY <1>1, <1>2 DEF Update
<1>4. r \in Requests /\ sent[r] = Nil
  BY <1>1, <1>3, EnoughForPatch, NewRequest
<1>5. /\ Began(c) /\ call[c] \in Requests /\ sent[call[c]] = PostBody(c, m)
      /\ \A q \in rivals[c] : sent[q] # Nil
      /\ Unanswered \subseteq {call[c]} \cup rivals[c]
  BY <1>2, <1>3 DEF ClientInv, Waits
<1>6. m \in Manifests
  BY <1>2, <1>5 DEF PublishTypeOK, Began, Command
<1>7. PatchBody(c, m) \in Inputs /\ Sendable(PatchBody(c, m))
  BY <1>6, BodiesSendable, ClientsAssumption
<1>8. /\ sent'[r] = PatchBody(c, m) /\ PatchBody(c, m) # Nil
      /\ \A q \in Requests \ {r} : sent'[q] = sent[q]
      /\ call'[c] = r /\ \A d \in Clients \ {c} : call'[d] = call[d]
      /\ stage'[c] = "PATCH" /\ \A d \in Clients \ {c} : stage'[d] = stage[d]
  BY <1>3, <1>4, <1>7, Sends
<1>9. /\ rivals'[c] = rivals[c] /\ rivals[c] \subseteq Requests
      /\ \A d \in Clients \ {c} : rivals'[d] = rivals[d] \cup {r}
  BY <1>3 DEF PublishTypeOK
<1>10. HasSent(c, r)
  BY <1>3, <1>4, <1>8, <1>9 DEF HasSent
<1>11. call[c] \notin Unanswered
  BY <1>3, <1>5, NoReplyAssumption DEF Unanswered, RegistryInv, TraceInv, Replies
<1>12. Holders(KeyOf[c], m.slug) # {}
  BY <1>3, <1>5 DEF RequestInv, PostBody
<1>13. Waits(c)'
  <2>1. sent'[call'[c]] = PatchBody(c, command'[c].manifest) /\ command'[c].manifest = m
    BY <1>2, <1>3, <1>8
  <2>2. Holders(KeyOf[c], m.slug)' # {}
    BY <1>3, <1>12 DEF Holders, vars, store
  <2> QED BY <1>8, <2>1, <2>2 DEF Waits, PatchBody
<1>14. Began(c)' /\ outcome'[c] = Nil
  <2>1. outcome[c] = Nil
    BY <1>3 DEF ClientInv
  <2> QED BY <1>3, <1>5, <2>1 DEF Began
<1> QED BY <1>5, <1>7, <1>8, <1>9, <1>10, <1>11, <1>13, <1>14, SendKeeps
\* Where nobody's requests or agents move, the invariants about them stay.
LEMMA NothingMoved ==
    ASSUME ConflictInv, VisibleInv, QuietInv,
           UNCHANGED <<pc, seen, seenRows, unread, shortId, reply, agents, rows, snapshots,
                       command, call, sent, rivals>>
    PROVE  ConflictInv' /\ VisibleInv' /\ QuietInv'
<1>1. ConflictInv'
  BY DEF ConflictInv, Began
<1>2. ASSUME NEW c \in Clients, Began(c), NEW r, r = call[c]
      PROVE  /\ seen[r] # Nil /\ pc[r] \in {"auth", "found"} => CopyInv(c, r)'
             /\ pc[r] = "committed" \/ reply[r] \in {"200", "201"} =>
                   (\E a \in Target(c) : Shows(c, a))'
  <2>1. CopyInv(c, r) => CopyInv(c, r)'
    BY DEF CopyInv, Writers
  <2>2. Target(c)' = Target(c)
    BY DEF Target, Holders
  <2>3. \A a : Shows(c, a) => Shows(c, a)'
    BY DEF Shows, Writers
  <2> QED BY <1>2, <2>1, <2>2, <2>3 DEF VisibleInv
<1>3. VisibleInv'
  BY <1>2 DEF VisibleInv, Began, CopyInv
<1>4. ASSUME NEW c \in Clients, Began(c), rivals[c] = {}, NEW r, r = call[c]
      PROVE  Current(r)' /\ (reply[r] = "integrity" => Refused(r)')
  <2>1. \A owner, slug : Holders(owner, slug)' = Holders(owner, slug)
    BY DEF Holders
  <2>2. Current(r) => Current(r)'
    BY <2>1 DEF Current
  <2>3. Refused(r) => Refused(r)'
    BY <2>1 DEF Refused
  <2> QED BY <1>4, <2>2, <2>3 DEF QuietInv
<1>5. QuietInv'
  BY <1>4 DEF QuietInv, Began, Current, Refused
<1> QED BY <1>1, <1>3, <1>5

\* A command that ends says why, and changes nothing else.
LEMMA EndKeeps ==
    ASSUME PublishTypeOK, RegistryInv, RequestInv, ClientInv, ConflictInv, VisibleInv, QuietInv,
           NEW c \in Clients, Report(c) \/ GiveUp(c)
    PROVE  RequestInv' /\ ClientInv' /\ ConflictInv' /\ VisibleInv' /\ QuietInv'
<1>1. /\ UNCHANGED <<command, call, sent, rivals, vars>> /\ stage[c] # "shell"
      /\ \E how \in Outcomes : End(c, how)
  BY DEF Report, GiveUp, Outcomes
<1>2. /\ stage'[c] = "shell" /\ outcome'[c] \in Outcomes
      /\ \A d \in Clients \ {c} : stage'[d] = stage[d] /\ outcome'[d] = outcome[d]
  BY <1>1 DEF End, PublishTypeOK
<1>3. UNCHANGED <<pc, req, seen, seenRows, unread, shortId, reply, agents, rows, snapshots>>
  BY <1>1 DEF vars, session, store
<1>4. RequestInv'
  BY <1>1, <1>3 DEF RequestInv, Holders
<1>5. ConflictInv' /\ VisibleInv' /\ QuietInv'
  BY <1>1, <1>3, NothingMoved
<1>6. /\ Began(c) /\ Waits(c) /\ call[c] \in Requests /\ sent[call[c]] # Nil
      /\ (stage[c] = "POST" => sent[call[c]].op = "register")
      /\ (stage[c] = "PATCH" => sent[call[c]].op = "update")
  BY <1>1 DEF ClientInv, Waits, PostBody, PatchBody, PublishTypeOK
<1>7. reply[call[c]] # Nil => reply[call[c]] \in CodesFor(sent[call[c]])
  BY <1>6 DEF RequestInv
<1>8. /\ outcome'[c] = "created" => reply[call[c]] = "201"
      /\ outcome'[c] = "updated" => reply[call[c]] = "200"
      /\ outcome'[c] = "error" => reply[call[c]] \in {"403", "404", "integrity", "failed"}
  <2>1. CASE GiveUp(c)
    BY <2>1 DEF GiveUp, End, PublishTypeOK
  <2>2. CASE Report(c)
    <3>1. /\ reply[call[c]] # Nil
          /\ \/ stage[c] = "POST" /\ reply[call[c]] = "201" /\ outcome'[c] = "created"
             \/ outcome'[c] = "exists"
             \/ stage[c] = "PATCH" /\ reply[call[c]] = "200" /\ outcome'[c] = "updated"
             \/ /\ stage[c] = "POST" /\ reply[call[c]] \notin {"201", "409"}
                /\ outcome'[c] = "error"
             \/ stage[c] = "PATCH" /\ reply[call[c]] # "200" /\ outcome'[c] = "error"
      BY <2>2 DEF Report, End, PublishTypeOK
    <3> QED BY <1>6, <1>7, <3>1 DEF CodesFor
  <2> QED BY <2>1, <2>2
<1>9. Unanswered' = Unanswered
  BY <1>1, <1>3 DEF Unanswered
<1>10. ASSUME NEW d \in Clients, Began(d)
       PROVE  Waits(d)'
  <2>1. Waits(d) /\ (stage'[d] # "shell" => stage'[d] = stage[d])
    BY <1>2, <1>10 DEF ClientInv
  <2>2. Holders(KeyOf[d], command[d].manifest.slug)' = Holders(KeyOf[d], command[d].manifest.slug)
    BY <1>1, <1>3 DEF Holders
  <2> QED BY <1>1, <2>1, <2>2 DEF Waits, PostBody, PatchBody
<1>11. ASSUME NEW d \in Clients
       PROVE  /\ ~Began(d) => stage'[d] = "shell" /\ outcome'[d] = Nil
              /\ stage'[d] # "shell" => outcome'[d] = Nil
              /\ Began(d) =>
                   /\ call[d] \in Requests /\ sent[call[d]] # Nil
                   /\ Waits(d)'
                   /\ outcome'[d] = "created" => reply[call[d]] = "201"
                   /\ outcome'[d] = "updated" => reply[call[d]] = "200"
                   /\ outcome'[d] = "error" =>
                         reply[call[d]] \in {"403", "404", "integrity", "failed"}
                   /\ \A q \in rivals[d] : sent[q] # Nil
                   /\ Unanswered \subseteq {call[d]} \cup rivals[d]
  <2>1. CASE d = c
    BY <1>2, <1>6, <1>8, <1>10, <2>1 DEF ClientInv
  <2>2. CASE d # c
    BY <1>2, <1>10, <2>2 DEF ClientInv
  <2> QED BY <2>1, <2>2
<1>12. ClientInv'
  BY <1>1, <1>3, <1>9, <1>11 DEF ClientInv, Began
<1> QED BY <1>4, <1>5, <1>12

LEMMA RestKeeps ==
    ASSUME RequestInv, ClientInv, ConflictInv, VisibleInv, QuietInv, UNCHANGED all
    PROVE  RequestInv' /\ ClientInv' /\ ConflictInv' /\ VisibleInv' /\ QuietInv'
<1>1. UNCHANGED <<pc, req, seen, seenRows, unread, shortId, reply, agents, rows, snapshots,
                  stage, command, call, outcome, sent, rivals>>
  BY DEF all, clients, vars, session, store
<1>2. RequestInv'
  BY <1>1 DEF RequestInv, Holders
<1>3. ClientInv'
  BY <1>1 DEF ClientInv, Began, Waits, PostBody, PatchBody, Holders, Unanswered
<1>4. ConflictInv' /\ VisibleInv' /\ QuietInv'
  BY <1>1, NothingMoved
<1> QED BY <1>2, <1>3, <1>4

LEMMA InitCommands ==
    PublishInit => RequestInv /\ ClientInv /\ ConflictInv /\ VisibleInv /\ QuietInv
<1> SUFFICES ASSUME PublishInit
             PROVE  RequestInv /\ ClientInv /\ ConflictInv /\ VisibleInv /\ QuietInv
  OBVIOUS
<1>1. \A r \in Requests : pc[r] = "idle" /\ reply[r] = Nil /\ sent[r] = Nil
  BY DEF PublishInit, Init
<1>2. \A c \in Clients : ~Began(c) /\ stage[c] = "shell" /\ outcome[c] = Nil
  BY DEF PublishInit, Began
<1>3. RequestInv
  BY <1>1, NoReplyAssumption DEF RequestInv, Replies
<1> QED BY <1>2, <1>3 DEF ClientInv, ConflictInv, VisibleInv, QuietInv

LEMMA NextCommands ==
    /\ PublishTypeOK /\ EnoughInv /\ RegistryInv /\ RequestInv
    /\ ClientInv /\ ConflictInv /\ VisibleInv /\ QuietInv /\ [PublishNext]_all
    => RequestInv' /\ ClientInv' /\ ConflictInv' /\ VisibleInv' /\ QuietInv'
<1> SUFFICES ASSUME PublishTypeOK, EnoughInv, RegistryInv, RequestInv,
                    ClientInv, ConflictInv, VisibleInv, QuietInv, [PublishNext]_all
             PROVE  RequestInv' /\ ClientInv' /\ ConflictInv' /\ VisibleInv' /\ QuietInv'
  OBVIOUS
<1>1. ASSUME NEW c \in Clients, Run(c) \/ Update(c) \/ Report(c) \/ GiveUp(c)
      PROVE  RequestInv' /\ ClientInv' /\ ConflictInv' /\ VisibleInv' /\ QuietInv'
  BY <1>1, RunKeeps, UpdateKeeps, EndKeeps
<1>2. ASSUME NEW r \in Requests, Deliver(r) \/ Handles(r) \/ Fails(r)
      PROVE  RequestInv' /\ ClientInv' /\ ConflictInv' /\ VisibleInv' /\ QuietInv'
  BY <1>2, ServerServes, ServerKeepsRequests, ServerKeepsClients, ServerKeepsConflicts,
     ServerKeepsVisible, ServerKeepsQuiet
<1>3. CASE Rest \/ UNCHANGED all
  BY <1>3, RestKeeps DEF Rest
<1> QED BY <1>1, <1>2, <1>3 DEF PublishNext

LEMMA AlwaysPublish == PublishSpec => []PublishInv
<1> DEFINE Inv == PublishTypeOK /\ EnoughInv /\ RequestInv /\ ClientInv /\ ConflictInv
                  /\ VisibleInv /\ QuietInv
<1>1. PublishInit => Inv
  BY InitPublish, InitCommands
<1>2. (TypeOK /\ RegistryInv) /\ (TypeOK /\ RegistryInv)' /\ Inv /\ [PublishNext]_all => Inv'
  BY NextTypes, NextCommands
<1>3. RegistryInv /\ Inv => PublishInv
  BY DEF PublishInv
<1> HIDE DEF Inv
<1> QED BY <1>1, <1>2, <1>3, AlwaysRegistry, PTL DEF PublishSpec
-------------------------------------------------------------------------------
\* The clients and the server keep their types, and no command that conflicts
\* runs out of requests, for any number of terminals.
THEOREM CommandsAreTyped == PublishSpec => []PublishTypeOK
<1>1. PublishInv => PublishTypeOK
  BY DEF PublishInv
<1> QED BY <1>1, AlwaysPublish, PTL

\* A conflict is followed by an update of the agent that caused it: nobody can
\* remove it or rename it in between.
THEOREM ConflictsAreUpdatable == PublishSpec => []ConflictIsUpdatable
<1>1. PublishInv => ConflictIsUpdatable
  <2> SUFFICES ASSUME PublishInv, NEW c \in Clients, stage[c] = "PATCH",
                      command[c].manifest.publisher = KeyOf[c]
               PROVE  reply[call[c]] \notin {"403", "404"}
    BY DEF ConflictIsUpdatable
  <2>1. Began(c) /\ Waits(c)
    BY DEF PublishInv, ClientInv
  <2>2. sent[call[c]].op = "update"
    BY <2>1 DEF Waits, PatchBody
  <2> QED BY <2>1, <2>2 DEF PublishInv, ConflictInv
<1> QED BY <1>1, AlwaysPublish, PTL

\* What a command has reported as done shows, or a rival's work in its place,
\* however many rivals and time-outs there were.
THEOREM SuccessShows == PublishSpec => []SuccessIsVisible
<1>1. PublishInv => SuccessIsVisible
  <2> SUFFICES ASSUME PublishInv, NEW c \in Clients, stage[c] = "shell",
                      outcome[c] \in {"created", "updated"}
               PROVE  \E a \in Target(c) : Shows(c, a)
    BY DEF SuccessIsVisible, Shows, Writers
  <2>1. Began(c)
    BY ClientsAssumption DEF PublishInv, ClientInv, Outcomes
  <2>2. reply[call[c]] \in {"200", "201"}
    BY <2>1 DEF PublishInv, ClientInv
  <2> QED BY <2>1, <2>2 DEF PublishInv, VisibleInv
<1> QED BY <1>1, AlwaysPublish, PTL

\* A manifest published without rivals is refused for one of three reasons.
THEOREM QuietSucceeds == PublishSpec => []QuietPublishSucceeds
<1>1. PublishInv => QuietPublishSucceeds
  <2> SUFFICES ASSUME PublishInv, NEW c \in Clients,
                      stage[c] = "shell", outcome[c] = "error", rivals[c] = {},
                      command[c].manifest.publisher = KeyOf[c], reply[call[c]] # "failed"
               PROVE  \/ \E a \in Requests : agents[a] # Nil /\ agents[a].shortId = shortId[call[c]]
                      \/ \E a \in Target(c) :
                            /\ agents[a].version # command[c].manifest.version
                            /\ \E s \in snapshots : s.agent = a
                                                    /\ s.version = command[c].manifest.version
    BY DEF QuietPublishSucceeds
  <2>1. Began(c)
    BY ClientsAssumption DEF PublishInv, ClientInv, Outcomes
  <2>2. reply[call[c]] \in {"403", "404", "integrity"} /\ Waits(c) /\ call[c] \in Requests
        /\ sent[call[c]] # Nil
    BY <2>1 DEF PublishInv, ClientInv
  <2>3. /\ sent[call[c]].owner = KeyOf[c] /\ sent[call[c]].slug = command[c].manifest.slug
        /\ sent[call[c]].version = command[c].manifest.version
        /\ sent[call[c]].op \in {"register", "update"}
    BY <2>2 DEF Waits, PostBody, PatchBody
  <2>4. reply[call[c]] = "integrity"
    <3>1. CASE sent[call[c]].op = "update"
      BY <2>1, <2>2, <3>1 DEF PublishInv, ConflictInv
    <3>2. CASE sent[call[c]].op = "register"
      BY <2>2, <3>2, NoReplyAssumption DEF PublishInv, RequestInv, CodesFor, Replies
    <3> QED BY <2>3, <3>1, <3>2
  <2>5. Refused(call[c])
    BY <2>1, <2>4 DEF PublishInv, QuietInv
  <2> QED BY <2>3, <2>5 DEF Refused, Target
<1> QED BY <1>1, AlwaysPublish, PTL
===============================================================================
