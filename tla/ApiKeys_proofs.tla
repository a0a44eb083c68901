---------------------------- MODULE ApiKeys_proofs ----------------------------
(***************************************************************************)
(* Proofs about ApiKeys, for any requests, publishers, keys and prefixes.  *)
(***************************************************************************)
EXTENDS ApiKeys, TLAPS

\* A key that is minted has both columns, one that is not has neither.
KeyInv == \A k \in Keys : owner[k] = Nil <=> status[k] = Nil

\* What a request in a given control state has already established: the key
\* it came with belongs to its caller, and so does the key it is to change.
CallerInv(r) ==
    /\ req[r] \in Inputs \cup {Nil}
    /\ pc[r] # "idle" => req[r] # Nil
    /\ pc[r] = "auth" => req[r].op \notin {"join", "public"}
    /\ pc[r] \in {"idle", "auth"} => caller[r] = Nil
    /\ caller[r] # Nil => /\ req[r] # Nil /\ req[r].token \in Keys
                          /\ owner[req[r].token] = caller[r]
    /\ pc[r] \in {"authed", "found"} /\ req[r].op \notin {"join", "public"}
          => caller[r] # Nil
    /\ pc[r] = "found" => /\ req[r].op \in {"set", "delete"}
                          /\ owner[req[r].target] = caller[r]

\* The log is written for the token of a request that has arrived.
LogInv ==
    /\ UsageIsAttributed
    /\ \A entry \in log : pc[entry.by] # "idle"
    /\ \A r \in Requests : pc[r] = "logging" => charged[r] = req[r].token
                                                /\ charged[r] # Nil

IInv == TypeOK /\ KeyInv /\ (\A r \in Requests : CallerInv(r)) /\ LogInv
-------------------------------------------------------------------------------
LEMMA BodyFields ==
    ASSUME NEW i \in Inputs
    PROVE  /\ i \in Bodies /\ i # Nil
           /\ i.op \in Ops /\ i.token \in Keys \cup {Nil}
           /\ i.publisher \in Publishers /\ i.target \in Keys
           /\ i.status \in Settable
           /\ i.token = Nil <=> i.op = "join"
<1>1. i \in Bodies /\ i # Nil
  BY InputsAssumption
<1>. QED BY <1>1, InputsAssumption DEF Bodies

LEMMA InitIInv == Init => IInv
<1>. SUFFICES ASSUME Init PROVE IInv
  OBVIOUS
<1>1. PICK d \in Databases : owner = d.owner /\ status = d.status
  BY DEF Init
<1>2. /\ owner \in [Keys -> Publishers \cup {Nil}]
      /\ status \in [Keys -> Statuses \cup {Nil}]
      /\ KeyInv
  BY <1>1, DatabasesAssumption DEF KeyInv
<1>3. TypeOK
  BY <1>2 DEF Init, TypeOK
<1>4. \A r \in Requests : CallerInv(r)
  BY DEF Init, CallerInv
<1>5. LogInv
  BY DEF Init, LogInv, UsageIsAttributed
<1>. QED BY <1>2, <1>3, <1>4, <1>5 DEF IInv

\* A request whose own variables and table stay satisfies what it satisfied.
LEMMA OthersKeepCallerInv ==
    ASSUME NEW r \in Requests, CallerInv(r),
           pc'[r] = pc[r], req'[r] = req[r], caller'[r] = caller[r],
           req[r] # Nil => req[r].target \in Keys,
           \A k \in Keys : owner[k] # Nil => owner'[k] = owner[k],
           Nil \notin Keys,
           pc[r] = "found" => caller[r] # Nil
    PROVE  CallerInv(r)'
BY DEF CallerInv

\* What CallerInv says of a request's body.
LEMMA RequestFields ==
    ASSUME IInv, NEW r \in Requests, req[r] # Nil
    PROVE  /\ req[r] \in Inputs /\ req[r] \in Bodies
           /\ req[r].op \in Ops /\ req[r].token \in Keys \cup {Nil}
           /\ req[r].publisher \in Publishers /\ req[r].target \in Keys
           /\ req[r].status \in Settable
           /\ req[r].token = Nil <=> req[r].op = "join"
<1>1. req[r] \in Inputs
  BY DEF IInv, CallerInv
<1>. QED BY <1>1, BodyFields

LEMMA FoundHasCaller ==
    ASSUME IInv, NEW r \in Requests, pc[r] = "found"
    PROVE  /\ caller[r] # Nil /\ caller[r] \in Publishers
           /\ req[r] # Nil /\ req[r].token \in Keys /\ req[r].target \in Keys
           /\ owner[req[r].token] = caller[r] /\ owner[req[r].target] = caller[r]
<1>1. CallerInv(r)
  BY DEF IInv
<1>2. req[r] # Nil /\ req[r].op \in {"set", "delete"} /\ caller[r] # Nil
  BY <1>1 DEF CallerInv
<1>3. caller[r] \in Publishers
  BY <1>2 DEF IInv, TypeOK
<1>. QED BY <1>1, <1>2, <1>3, RequestFields DEF CallerInv

\* A step of r that leaves the other requests, the log and the owners of the
\* minted keys alone preserves what is known of the others.
LEMMA StepCallerInv ==
    ASSUME IInv, NEW r \in Requests, CallerInv(r)',
           \A q \in Requests \ {r} : /\ pc'[q] = pc[q] /\ req'[q] = req[q]
                                     /\ caller'[q] = caller[q],
           \A k \in Keys : owner[k] # Nil => owner'[k] = owner[k]
    PROVE  \A q \in Requests : CallerInv(q)'
<1>. SUFFICES ASSUME NEW q \in Requests \ {r} PROVE CallerInv(q)'
  OBVIOUS
<1>1. CallerInv(q)
  BY DEF IInv
<1>2. req[q] # Nil => req[q].target \in Keys
  BY RequestFields
<1>3. pc[q] = "found" => caller[q] # Nil
  BY FoundHasCaller
<1>. QED BY <1>1, <1>2, <1>3, OthersKeepCallerInv, NilAssumption
-------------------------------------------------------------------------------
LEMMA ArriveStep ==
    ASSUME IInv, NEW r \in Requests, Arrive(r)
    PROVE  IInv'
<1>. USE DEF Arrive, keyTable, usage
<1>1. PICK i \in Inputs :
        /\ req' = [req EXCEPT ![r] = i]
        /\ pc' = [pc EXCEPT ![r] = IF i.op \in {"join", "public"}
                                   THEN "authed" ELSE "auth"]
  OBVIOUS
<1>2. i \in Bodies /\ i # Nil
  BY BodyFields
<1>3. TypeOK'
  BY <1>1, <1>2 DEF IInv, TypeOK
<1>4. KeyInv'
  BY DEF IInv, KeyInv
<1>5. CallerInv(r)'
  <2>1. req'[r] = i /\ caller'[r] = Nil
    BY <1>1 DEF IInv, TypeOK, CallerInv
  <2>2. pc'[r] \in {"authed", "auth"} /\ (pc'[r] = "authed" <=> i.op \in {"join", "public"})
    BY <1>1 DEF IInv, TypeOK
  <2>. QED BY <2>1, <2>2, <1>2 DEF CallerInv
<1>6. \A q \in Requests : CallerInv(q)'
  <2>1. \A q \in Requests \ {r} : pc'[q] = pc[q] /\ req'[q] = req[q]
    BY <1>1 DEF IInv, TypeOK
  <2>. QED BY <1>5, <2>1, StepCallerInv
<1>7. LogInv'
  BY <1>1 DEF IInv, TypeOK, LogInv, UsageIsAttributed
<1>. QED BY <1>3, <1>4, <1>6, <1>7 DEF IInv

\* The handler's step of one request: its body stays, and so does the log.
LEMMA HandlerLogInv ==
    ASSUME IInv, NEW r \in Requests, pc[r] # "idle",
           UNCHANGED <<req, charged, usage>>,
           NEW to \in {"authed", "found", "answered", "done", "unlogged"},
           pc' = [pc EXCEPT ![r] = to]
    PROVE  LogInv'
BY DEF IInv, TypeOK, LogInv, UsageIsAttributed, usage

LEMMA OwnerOfAccepted ==
    ASSUME IInv, NEW token \in Keys, NEW k \in Keys, Accepted(token, k)
    PROVE  /\ k = token /\ status[k] = "active"
           /\ owner[k] # Nil /\ owner[k] \in Publishers
<1>1. k = token
  BY DEF Accepted, Verify
<1>2. status[k] = "active"
  BY DEF Accepted, ActiveWith
<1>3. owner[k] # Nil
  BY <1>2, NilAssumption DEF IInv, KeyInv, Statuses, Settable
<1>. QED BY <1>1, <1>2, <1>3 DEF IInv, TypeOK

\* A step of the handler that does not change the key table.
LEMMA KeepsTable ==
    ASSUME IInv, NEW r \in Requests, pc[r] # "idle",
           UNCHANGED <<req, charged, keyTable, usage>>,
           NEW to \in {"authed", "found", "answered", "done", "unlogged"},
           pc' = [pc EXCEPT ![r] = to],
           caller' \in [Requests -> Publishers \cup {Nil}],
           seen' \in [Requests -> Statuses \cup {Nil}],
           reply' \in [Requests -> Codes \cup {Nil}],
           \A q \in Requests \ {r} : caller'[q] = caller[q],
           CallerInv(r)'
    PROVE  IInv'
<1>. USE DEF keyTable
<1>1. TypeOK'
  BY DEF IInv, TypeOK, usage
<1>2. KeyInv'
  BY DEF IInv, KeyInv
<1>3. \A q \in Requests : CallerInv(q)'
  <2>1. \A q \in Requests \ {r} : pc'[q] = pc[q] /\ req'[q] = req[q]
    BY DEF IInv, TypeOK
  <2>. QED BY <2>1, StepCallerInv
<1>4. LogInv'
  BY HandlerLogInv
<1>. QED BY <1>1, <1>2, <1>3, <1>4 DEF IInv

\* The end of a handler, in an answer or an exception.
LEMMA EndStep ==
    ASSUME IInv, NEW r \in Requests, pc[r] # "idle",
           UNCHANGED <<req, caller, seen, charged, keyTable, usage>>,
           NEW to \in {"answered", "done", "unlogged"},
           pc' = [pc EXCEPT ![r] = to],
           reply' \in [Requests -> Codes \cup {Nil}]
    PROVE  IInv'
<1>1. CallerInv(r) /\ pc'[r] = to
  BY DEF IInv, TypeOK
<1>2. CallerInv(r)'
  BY <1>1 DEF CallerInv, keyTable
<1>3. /\ caller' \in [Requests -> Publishers \cup {Nil}]
      /\ seen' \in [Requests -> Statuses \cup {Nil}]
  BY DEF IInv, TypeOK
<1>. QED BY <1>2, <1>3, KeepsTable

LEMMA AnswerType ==
    ASSUME IInv, NEW r \in Requests, NEW code \in Codes,
           reply' = [reply EXCEPT ![r] = code]
    PROVE  reply' \in [Requests -> Codes \cup {Nil}]
BY DEF IInv, TypeOK

LEMMA AuthenticateStep ==
    ASSUME IInv, NEW r \in Requests, Authenticate(r)
    PROVE  IInv'
<1>. USE DEF Authenticate
<1>1. CallerInv(r) /\ req[r] # Nil /\ req[r].op \notin {"join", "public"}
  BY DEF IInv, CallerInv
<1>2. req[r].token \in Keys
  BY <1>1, RequestFields
<1>3. CASE RaiseError(r) /\ UNCHANGED caller
  BY <1>3, EndStep, AnswerType DEF RaiseError, Codes
<1>4. CASE Answer(r, "401") /\ UNCHANGED caller
  BY <1>4, EndStep, AnswerType DEF Answer, Codes
<1>5. ASSUME NEW k \in Keys, Accepted(req[r].token, k),
             pc' = [pc EXCEPT ![r] = "authed"],
             caller' = [caller EXCEPT ![r] = owner[k]],
             UNCHANGED reply
      PROVE  IInv'
  <2>1. k = req[r].token /\ owner[k] # Nil /\ owner[k] \in Publishers
    BY <1>2, <1>5, OwnerOfAccepted
  <2>2. /\ caller' \in [Requests -> Publishers \cup {Nil}] /\ caller'[r] = owner[k]
        /\ seen' \in [Requests -> Statuses \cup {Nil}]
        /\ reply' \in [Requests -> Codes \cup {Nil}]
        /\ pc'[r] = "authed"
    BY <1>5, <2>1 DEF IInv, TypeOK
  <2>3. CallerInv(r)'
    BY <1>1, <1>2, <2>1, <2>2 DEF CallerInv, keyTable
  <2>4. \A q \in Requests \ {r} : caller'[q] = caller[q]
    BY <1>5 DEF IInv, TypeOK
  <2>. QED BY <1>5, <2>2, <2>3, <2>4, KeepsTable
<1>. QED BY <1>3, <1>4, <1>5

LEMMA GetKeyStep ==
    ASSUME IInv, NEW r \in Requests, GetKey(r)
    PROVE  IInv'
<1>. USE DEF GetKey
<1>1. CallerInv(r) /\ req[r] # Nil /\ req[r].target \in Keys
  BY RequestFields DEF IInv, CallerInv
<1>2. CASE ~Visible(r, req[r].target)
  BY <1>2, EndStep, AnswerType DEF Answer, Codes
<1>3. CASE Visible(r, req[r].target)
  <2>1. /\ pc' = [pc EXCEPT ![r] = "found"] /\ pc'[r] = "found"
        /\ UNCHANGED reply
    BY <1>3 DEF IInv, TypeOK
  <2>2. /\ caller' \in [Requests -> Publishers \cup {Nil}]
        /\ reply' \in [Requests -> Codes \cup {Nil}]
    BY <2>1 DEF IInv, TypeOK
  <2>3. seen' \in [Requests -> Statuses \cup {Nil}]
    BY <1>1, <1>3 DEF IInv, TypeOK, Statuses, Settable
  <2>4. CallerInv(r)'
    BY <1>1, <1>3, <2>1 DEF CallerInv, Visible, keyTable
  <2>. QED BY <2>1, <2>2, <2>3, <2>4, KeepsTable
<1>. QED BY <1>2, <1>3

LEMMA ServeStep ==
    ASSUME IInv, NEW r \in Requests, Serve(r)
    PROVE  IInv'
BY EndStep, AnswerType DEF Serve, Answer, Codes

LEMMA RaiseStep ==
    ASSUME IInv, NEW r \in Requests, Raise(r)
    PROVE  IInv'
BY EndStep, AnswerType DEF Raise, RaiseError, Codes

LEMMA LogFailStep ==
    ASSUME IInv, NEW r \in Requests, LogFail(r)
    PROVE  IInv'
<1>1. reply' \in [Requests -> Codes \cup {Nil}]
  BY DEF LogFail, IInv, TypeOK
<1>. QED BY <1>1, EndStep DEF LogFail
-------------------------------------------------------------------------------
\* A step that answers a request and writes the key table.
LEMMA TableStep ==
    ASSUME IInv, NEW r \in Requests, pc[r] # "idle",
           UNCHANGED <<req, caller, seen, charged, usage>>,
           NEW code \in Codes, Answer(r, code),
           owner' \in [Keys -> Publishers \cup {Nil}],
           status' \in [Keys -> Statuses \cup {Nil}],
           KeyInv',
           \A k \in Keys : owner[k] # Nil => owner'[k] = owner[k]
    PROVE  IInv'
<1>. USE DEF Answer
<1>1. TypeOK'
  BY AnswerType DEF IInv, TypeOK, usage
<1>2. CallerInv(r)'
  <2>1. CallerInv(r) /\ pc'[r] = "answered"
    BY DEF IInv, TypeOK
  <2>2. caller[r] # Nil => owner'[req[r].token] = owner[req[r].token]
    BY <2>1 DEF CallerInv
  <2>. QED BY <2>1, <2>2 DEF CallerInv
<1>3. \A q \in Requests : CallerInv(q)'
  <2>1. \A q \in Requests \ {r} : /\ pc'[q] = pc[q] /\ req'[q] = req[q]
                                  /\ caller'[q] = caller[q]
    BY DEF IInv, TypeOK
  <2>. QED BY <1>2, <2>1, StepCallerInv
<1>4. LogInv'
  BY HandlerLogInv
<1>. QED BY <1>1, <1>3, <1>4 DEF IInv

LEMMA MintStep ==
    ASSUME IInv, NEW p \in Publishers, NEW k \in Keys, Mint(p, k)
    PROVE  /\ owner' \in [Keys -> Publishers \cup {Nil}]
           /\ status' \in [Keys -> Statuses \cup {Nil}]
           /\ KeyInv'
           /\ \A j \in Keys : owner[j] # Nil => owner'[j] = owner[j] /\ status'[j] = status[j]
           /\ \A j \in Keys : j # k => owner'[j] = owner[j] /\ status'[j] = status[j]
           /\ owner'[k] = p
<1>. USE DEF Mint
<1>1. owner \in [Keys -> Publishers \cup {Nil}] /\ status \in [Keys -> Statuses \cup {Nil}]
  BY DEF IInv, TypeOK
<1>2. "active" \in Statuses
  BY DEF Statuses, Settable
<1>3. KeyInv'
  BY <1>1, <1>2, NilAssumption DEF IInv, KeyInv
<1>. QED BY <1>1, <1>2, <1>3

LEMMA JoinStep ==
    ASSUME IInv, NEW r \in Requests, Join(r)
    PROVE  IInv'
<1>. USE DEF Join
<1>1. req[r] # Nil /\ req[r].publisher \in Publishers
  BY RequestFields DEF IInv, CallerInv
<1>2. CASE Joined(req[r].publisher)
  BY <1>2, EndStep, AnswerType DEF RaiseError, Codes
<1>3. CASE ~Joined(req[r].publisher)
  <2>1. PICK k \in Keys : Mint(req[r].publisher, k)
    BY <1>3
  <2>. QED BY <1>1, <1>3, <2>1, MintStep, TableStep DEF Codes
<1>. QED BY <1>2, <1>3

LEMMA CreateKeyStep ==
    ASSUME IInv, NEW r \in Requests, CreateKey(r)
    PROVE  IInv'
<1>. USE DEF CreateKey
<1>1. caller[r] \in Publishers
  BY DEF IInv, TypeOK, CallerInv
<1>2. PICK k \in Keys : Mint(caller[r], k)
  OBVIOUS
<1>. QED BY <1>1, <1>2, MintStep, TableStep DEF Codes

LEMMA CommitStatusStep ==
    ASSUME IInv, NEW r \in Requests, pc[r] = "found",
           NEW new \in Statuses, NEW code \in Codes, CommitStatus(r, new, code)
    PROVE  IInv'
<1>. USE DEF CommitStatus
<1>1. req[r].target \in Keys /\ caller[r] # Nil /\ owner[req[r].target] = caller[r]
  BY FoundHasCaller
<1>2. status' \in [Keys -> Statuses \cup {Nil}]
  BY DEF IInv, TypeOK
<1>3. owner' \in [Keys -> Publishers \cup {Nil}]
  BY DEF IInv, TypeOK
<1>4. KeyInv'
  BY <1>1, NilAssumption DEF IInv, TypeOK, KeyInv
<1>. QED BY <1>2, <1>3, <1>4, TableStep

LEMMA SetStatusStep ==
    ASSUME IInv, NEW r \in Requests, SetStatus(r)
    PROVE  IInv'
<1>1. req[r].status \in Statuses
  BY FoundHasCaller, RequestFields DEF SetStatus, Statuses
<1>. QED BY <1>1, CommitStatusStep DEF SetStatus, Codes

LEMMA DeleteKeyStep ==
    ASSUME IInv, NEW r \in Requests, DeleteKey(r)
    PROVE  IInv'
BY CommitStatusStep DEF DeleteKey, Codes, Statuses
-------------------------------------------------------------------------------
LEMMA LogLookupStep ==
    ASSUME IInv, NEW r \in Requests, LogLookup(r)
    PROVE  IInv'
<1>. USE DEF LogLookup
<1>1. CASE pc' = [pc EXCEPT ![r] = "done"] /\ UNCHANGED charged
  <2>1. reply' \in [Requests -> Codes \cup {Nil}]
    BY DEF IInv, TypeOK
  <2>. QED BY <1>1, <2>1, EndStep
<1>2. ASSUME NEW k \in Keys, req[r].token # Nil, Accepted(req[r].token, k),
             pc' = [pc EXCEPT ![r] = "logging"],
             charged' = [charged EXCEPT ![r] = k]
      PROVE  IInv'
  <2>1. k = req[r].token /\ k # Nil
    BY <1>2, NilAssumption DEF Accepted, Verify
  <2>2. TypeOK' /\ KeyInv'
    BY <1>2 DEF IInv, TypeOK, KeyInv, keyTable, usage
  <2>3. CallerInv(r) /\ pc'[r] = "logging"
    BY <1>2 DEF IInv, TypeOK
  <2>4. CallerInv(r)'
    BY <2>3 DEF CallerInv, keyTable
  <2>5. \A q \in Requests : CallerInv(q)'
    <3>1. \A q \in Requests \ {r} : /\ pc'[q] = pc[q] /\ req'[q] = req[q]
                                    /\ caller'[q] = caller[q]
      BY <1>2 DEF IInv, TypeOK
    <3>. QED BY <2>4, <3>1, StepCallerInv DEF keyTable
  <2>6. LogInv'
    BY <1>2, <2>1 DEF IInv, TypeOK, LogInv, UsageIsAttributed, usage
  <2>. QED BY <2>2, <2>5, <2>6 DEF IInv
<1>. QED BY <1>1, <1>2

LEMMA LogWriteStep ==
    ASSUME IInv, NEW r \in Requests, LogWrite(r)
    PROVE  IInv'
<1>. USE DEF LogWrite, keyTable
<1>1. charged[r] = req[r].token /\ charged[r] \in Keys
  BY DEF IInv, TypeOK, LogInv
<1>2. TypeOK' /\ KeyInv'
  BY <1>1 DEF IInv, TypeOK, KeyInv
<1>3. CallerInv(r)'
  <2>1. CallerInv(r) /\ pc'[r] = "done"
    BY DEF IInv, TypeOK
  <2>. QED BY <2>1 DEF CallerInv
<1>4. \A q \in Requests : CallerInv(q)'
  <2>1. \A q \in Requests \ {r} : /\ pc'[q] = pc[q] /\ req'[q] = req[q]
                                  /\ caller'[q] = caller[q]
    BY DEF IInv, TypeOK
  <2>. QED BY <1>3, <2>1, StepCallerInv
<1>5. LogInv'
  <2>1. UsageIsAttributed'
    BY <1>1 DEF IInv, LogInv, UsageIsAttributed
  <2>2. \A entry \in log' : pc'[entry.by] # "idle"
    BY DEF IInv, TypeOK, LogInv
  <2>3. \A q \in Requests : pc'[q] = "logging" => charged'[q] = req'[q].token
                                                 /\ charged'[q] # Nil
    BY DEF IInv, TypeOK, LogInv
  <2>. QED BY <2>1, <2>2, <2>3 DEF LogInv
<1>. QED BY <1>2, <1>4, <1>5 DEF IInv

LEMMA StutterIInv ==
    ASSUME IInv, UNCHANGED vars
    PROVE  IInv'
<1>. USE DEF vars, session, keyTable, usage
<1>1. TypeOK' /\ KeyInv'
  BY DEF IInv, TypeOK, KeyInv
<1>2. \A r \in Requests : CallerInv(r)'
  BY DEF IInv, CallerInv
<1>3. LogInv'
  BY DEF IInv, LogInv, UsageIsAttributed
<1>. QED BY <1>1, <1>2, <1>3 DEF IInv

LEMMA NextIInv == IInv /\ [Next]_vars => IInv'
<1>. SUFFICES ASSUME IInv, [Next]_vars PROVE IInv'
  OBVIOUS
<1>1. CASE UNCHANGED vars
  BY <1>1, StutterIInv
<1>2. CASE Quiescent
  BY <1>2, StutterIInv DEF Quiescent
<1>3. ASSUME NEW r \in Requests, Arrive(r) \/ Handle(r) \/ Raise(r) \/ LogFail(r)
      PROVE  IInv'
  BY <1>3, ArriveStep, AuthenticateStep, JoinStep, CreateKeyStep, GetKeyStep,
     SetStatusStep, DeleteKeyStep, ServeStep, RaiseStep, LogLookupStep,
     LogWriteStep, LogFailStep DEF Handle
<1>. QED BY <1>1, <1>2, <1>3 DEF Next

LEMMA Inductive == Spec => []IInv
BY InitIInv, NextIInv, PTL DEF Spec

\* Every variable keeps its type: the log is only ever written for a key that
\* the second lookup found.
THEOREM TypeCorrect == Spec => []TypeOK
<1>1. IInv => TypeOK
  BY DEF IInv
<1>. QED BY <1>1, Inductive, PTL

\* Usage is charged to the key presented, however many keys share its prefix
\* and whatever happens to them before the log is written.
THEOREM UsageAttributed == Spec => []UsageIsAttributed
<1>1. IInv => UsageIsAttributed
  BY DEF IInv, LogInv
<1>. QED BY <1>1, Inductive, PTL
-------------------------------------------------------------------------------
\* How a step treats the key table: it leaves it alone, mints a key for a
\* publisher that registers or that the request speaks for, or changes the
\* status of a key of the publisher the request speaks for.
Mints(r, k) ==
    /\ pc[r] = "authed" /\ pc'[r] # "authed"
    /\ owner[k] = Nil /\ owner'[k] # Nil
    /\ \/ ~Joined(owner'[k])
       \/ /\ caller[r] # Nil /\ owner'[k] = caller[r]
          /\ req[r].token \in Keys /\ owner[req[r].token] = caller[r]

ChangesStatus(r, k) ==
    /\ pc[r] = "found" /\ pc'[r] # "found"
    /\ req[r].token \in Keys /\ owner[req[r].token] = caller[r]
    /\ owner[k] = caller[r] /\ caller[r] # Nil /\ owner'[k] = owner[k]

TouchesOnly(k) ==
    \A j \in Keys \ {k} : owner'[j] = owner[j] /\ status'[j] = status[j]

TableChange ==
    \/ UNCHANGED keyTable
    \/ \E r \in Requests, k \in Keys :
          TouchesOnly(k) /\ (Mints(r, k) \/ ChangesStatus(r, k))

LEMMA CommitStatusChange ==
    ASSUME IInv, NEW r \in Requests, pc[r] = "found",
           NEW new, NEW code, CommitStatus(r, new, code)
    PROVE  TableChange
<1>. USE DEF CommitStatus, Answer
<1>1. /\ caller[r] # Nil /\ req[r].target \in Keys /\ req[r].token \in Keys
      /\ owner[req[r].token] = caller[r] /\ owner[req[r].target] = caller[r]
  BY FoundHasCaller
<1>2. pc'[r] # "found"
  BY DEF IInv, TypeOK
<1>3. TouchesOnly(req[r].target)
  BY DEF IInv, TypeOK, TouchesOnly
<1>. QED BY <1>1, <1>2, <1>3 DEF TableChange, ChangesStatus

LEMMA NextTableChange == IInv /\ [Next]_vars => TableChange
<1>. SUFFICES ASSUME IInv, [Next]_vars PROVE TableChange
  OBVIOUS
<1>1. CASE UNCHANGED vars \/ Quiescent
  BY <1>1 DEF Quiescent, vars, TableChange
<1>2. ASSUME NEW r \in Requests,
             \/ Arrive(r) \/ Authenticate(r) \/ GetKey(r) \/ Serve(r) \/ Raise(r)
             \/ LogLookup(r) \/ LogWrite(r) \/ LogFail(r)
      PROVE  TableChange
  BY <1>2 DEF Arrive, Authenticate, GetKey, Serve, Raise, LogLookup, LogWrite,
              LogFail, TableChange
<1>3. ASSUME NEW r \in Requests, Join(r) PROVE TableChange
  <2>1. CASE UNCHANGED keyTable
    BY <2>1 DEF TableChange
  <2>2. ASSUME NEW k \in Keys, Mint(req[r].publisher, k), ~Joined(req[r].publisher)
        PROVE  TableChange
    <3>1. req[r].publisher \in Publishers
      BY <1>3, RequestFields DEF Join, IInv, CallerInv
    <3>2. TouchesOnly(k) /\ owner'[k] = req[r].publisher /\ owner'[k] # Nil
      BY <2>2, <3>1, MintStep, NilAssumption DEF TouchesOnly
    <3>3. pc'[r] # "authed"
      BY <1>3, <2>2 DEF Join, RaiseError, Answer, IInv, TypeOK
    <3>. QED BY <1>3, <2>2, <3>2, <3>3 DEF TableChange, Mints, Mint, Join
  <2>. QED BY <1>3, <2>1, <2>2 DEF Join
<1>4. ASSUME NEW r \in Requests, CreateKey(r) PROVE TableChange
  <2>1. caller[r] \in Publishers /\ caller[r] # Nil
    BY <1>4, NilAssumption DEF CreateKey, IInv, TypeOK, CallerInv
  <2>2. PICK k \in Keys : Mint(caller[r], k)
    BY <1>4 DEF CreateKey
  <2>3. TouchesOnly(k) /\ owner'[k] = caller[r]
    BY <2>1, <2>2, MintStep DEF TouchesOnly
  <2>4. req[r].token \in Keys /\ owner[req[r].token] = caller[r]
    BY <1>4, <2>1 DEF CreateKey, IInv, CallerInv
  <2>5. pc'[r] # "authed"
    BY <1>4 DEF CreateKey, Answer, IInv, TypeOK
  <2>. QED BY <1>4, <2>1, <2>2, <2>3, <2>4, <2>5 DEF TableChange, Mints, Mint, CreateKey
<1>5. ASSUME NEW r \in Requests, SetStatus(r) \/ DeleteKey(r) PROVE TableChange
  BY <1>5, CommitStatusChange DEF SetStatus, DeleteKey
<1>. QED BY <1>1, <1>2, <1>3, <1>4, <1>5 DEF Next, Handle

\* Keys are scoped to the publisher a request is authenticated for: no
\* interleaving changes a key on behalf of anyone else.
THEOREM OwnersChangeKeys == Spec => OnlyOwnerChangesKey
<1>1. IInv /\ [Next]_vars =>
         [\A k \in Keys :
            /\ owner[k] \in {Nil, owner'[k]}
            /\ owner'[k] # owner[k] \/ status'[k] # status[k] =>
                 \/ ~Joined(owner'[k])
                 \/ \E r \in Requests : /\ pc[r] # pc'[r] /\ req[r].token \in Keys
                                        /\ owner[req[r].token] = owner'[k]]_vars
  <2>. SUFFICES ASSUME IInv, [Next]_vars, NEW k \in Keys
                PROVE  /\ owner[k] \in {Nil, owner'[k]}
                       /\ owner'[k] # owner[k] \/ status'[k] # status[k] =>
                            \/ ~Joined(owner'[k])
                            \/ \E r \in Requests :
                                  /\ pc[r] # pc'[r] /\ req[r].token \in Keys
                                  /\ owner[req[r].token] = owner'[k]
    OBVIOUS
  <2>1. TableChange
    BY NextTableChange
  <2>2. CASE UNCHANGED keyTable
    BY <2>2 DEF keyTable
  <2>3. ASSUME NEW r \in Requests, NEW j \in Keys, TouchesOnly(j), Mints(r, j)
        PROVE  /\ owner[k] \in {Nil, owner'[k]}
               /\ owner'[k] # owner[k] \/ status'[k] # status[k] =>
                    \/ ~Joined(owner'[k])
                    \/ /\ pc[r] # pc'[r] /\ req[r].token \in Keys
                       /\ owner[req[r].token] = owner'[k]
    BY <2>3 DEF TouchesOnly, Mints
  <2>4. ASSUME NEW r \in Requests, NEW j \in Keys, TouchesOnly(j), ChangesStatus(r, j)
        PROVE  /\ owner'[k] = owner[k]
               /\ status'[k] # status[k] =>
                    /\ pc[r] # pc'[r] /\ req[r].token \in Keys
                    /\ owner[req[r].token] = owner[k]
    BY <2>4 DEF TouchesOnly, ChangesStatus
  <2>. QED BY <2>1, <2>2, <2>3, <2>4 DEF TableChange
<1>. QED BY <1>1, Inductive, PTL DEF Spec, OnlyOwnerChangesKey
-------------------------------------------------------------------------------
\* A request speaks for somebody after a step only if it did before, if it is
\* an unauthenticated one, or if it has just shown an active key.
SpeaksFor(r) ==
    pc'[r] \in {"authed", "found"} =>
       \/ pc[r] \in {"authed", "found"} /\ caller'[r] = caller[r]
       \/ caller'[r] = Nil
       \/ \E k \in Keys : status[k] = "active" /\ owner[k] = caller'[r]

LEMMA NextSpeaksFor ==
    IInv /\ [Next]_vars => \A r \in Requests : SpeaksFor(r)
<1>. SUFFICES ASSUME IInv, [Next]_vars, NEW q \in Requests PROVE SpeaksFor(q)
  OBVIOUS
<1>. USE DEF SpeaksFor
<1>1. CASE UNCHANGED vars \/ Quiescent
  BY <1>1 DEF Quiescent, vars, session
<1>2. ASSUME NEW r \in Requests, Arrive(r) PROVE SpeaksFor(q)
  <2>1. caller' = caller /\ caller[r] = Nil
    BY <1>2 DEF Arrive, IInv, CallerInv
  <2>2. q # r => pc'[q] = pc[q]
    BY <1>2 DEF Arrive, IInv, TypeOK
  <2>. QED BY <2>1, <2>2
<1>3. ASSUME NEW r \in Requests, Authenticate(r) PROVE SpeaksFor(q)
  <2>1. CASE q # r
    BY <1>3, <2>1 DEF Authenticate, Answer, RaiseError, IInv, TypeOK
  <2>2. CASE q = r /\ pc'[r] = "authed"
    <3>1. req[r].token \in Keys
      BY <1>3, RequestFields DEF Authenticate, IInv, CallerInv
    <3>2. PICK k \in Keys : /\ Accepted(req[r].token, k)
                           /\ caller' = [caller EXCEPT ![r] = owner[k]]
      BY <1>3, <2>2 DEF Authenticate, Answer, RaiseError, IInv, TypeOK
    <3>3. status[k] = "active" /\ caller'[r] = owner[k]
      BY <3>1, <3>2, OwnerOfAccepted DEF IInv, TypeOK
    <3>. QED BY <2>2, <3>3
  <2>3. CASE q = r /\ pc'[r] # "authed"
    BY <1>3, <2>3 DEF Authenticate, Answer, RaiseError, IInv, TypeOK
  <2>. QED BY <2>1, <2>2, <2>3
<1>4. ASSUME NEW r \in Requests, GetKey(r) PROVE SpeaksFor(q)
  <2>1. caller' = caller /\ pc[r] = "authed"
    BY <1>4 DEF GetKey
  <2>2. q # r => pc'[q] = pc[q]
    BY <1>4 DEF GetKey, Answer, IInv, TypeOK
  <2>. QED BY <2>1, <2>2
<1>5. ASSUME NEW r \in Requests,
             NEW to \in {"answered", "done", "logging", "unlogged"},
             caller' = caller, pc' = [pc EXCEPT ![r] = to]
      PROVE  SpeaksFor(q)
  BY <1>5 DEF IInv, TypeOK
<1>6. ASSUME NEW r \in Requests,
             \/ Join(r) \/ CreateKey(r) \/ SetStatus(r) \/ DeleteKey(r) \/ Serve(r)
             \/ Raise(r)
      PROVE  SpeaksFor(q)
  BY <1>5, <1>6 DEF Join, CreateKey, SetStatus, DeleteKey, CommitStatus, Serve, Raise,
                    Answer, RaiseError
<1>7. ASSUME NEW r \in Requests, LogLookup(r) \/ LogWrite(r) \/ LogFail(r)
      PROVE  SpeaksFor(q)
  BY <1>5, <1>7 DEF LogLookup, LogWrite, LogFail
<1>. QED BY <1>1, <1>2, <1>3, <1>4, <1>6, <1>7 DEF Next, Handle

\* The table cannot turn against a publisher that is locked out: minting for it
\* or changing a key of it takes a request that speaks for it.
LEMMA LockedTable ==
    ASSUME IInv, TableChange, NEW p \in Publishers, LockedOut(p)
    PROVE  /\ Joined(p)'
           /\ \A k \in Keys : owner'[k] = p => status'[k] # "active"
<1>. USE DEF LockedOut, Joined, InFlight
<1>1. CASE UNCHANGED keyTable
  BY <1>1 DEF keyTable
<1>2. ASSUME NEW r \in Requests, NEW j \in Keys, TouchesOnly(j), Mints(r, j)
      PROVE  /\ Joined(p)'
             /\ \A k \in Keys : owner'[k] = p => status'[k] # "active"
  <2>1. owner'[j] # p
    BY <1>2 DEF Mints
  <2>2. owner[j] # p
    BY <1>2, NilAssumption DEF Mints
  <2>. QED BY <1>2, <2>1, <2>2 DEF TouchesOnly
<1>3. ASSUME NEW r \in Requests, NEW j \in Keys, TouchesOnly(j), ChangesStatus(r, j)
      PROVE  /\ Joined(p)'
             /\ \A k \in Keys : owner'[k] = p => status'[k] # "active"
  <2>1. owner[j] # p /\ owner'[j] = owner[j]
    BY <1>3 DEF ChangesStatus
  <2>. QED BY <1>3, <2>1 DEF TouchesOnly
<1>. QED BY <1>1, <1>2, <1>3 DEF TableChange

\* A publisher that has lost its last active key stays locked out: whatever
\* calls are made, nothing the service offers brings a key of it back.
THEOREM LockedOutForGood == Spec => LockoutIsPermanent
<1>1. IInv /\ [Next]_vars => [\A p \in Publishers : LockedOut(p) => LockedOut(p)']_vars
  <2>. SUFFICES ASSUME IInv, [Next]_vars, NEW p \in Publishers, LockedOut(p)
                PROVE  LockedOut(p)'
    OBVIOUS
  <2>1. /\ Joined(p)'
        /\ \A k \in Keys : owner'[k] = p => status'[k] # "active"
    BY NextTableChange, LockedTable
  <2>2. ~InFlight(p)'
    <3>. SUFFICES ASSUME NEW r \in Requests, pc'[r] \in {"authed", "found"}, caller'[r] = p
                  PROVE  FALSE
      BY DEF InFlight
    <3>1. SpeaksFor(r)
      BY NextSpeaksFor
    <3>. QED BY <3>1, NilAssumption DEF SpeaksFor, LockedOut, InFlight
  <2>. QED BY <2>1, <2>2 DEF LockedOut
<1>. QED BY <1>1, Inductive, PTL DEF Spec, LockoutIsPermanent
-------------------------------------------------------------------------------
\* Records: an authenticated request ends charged, or with a reason why not.
Final == {"200", "204", "500"}

TurnedOff(k) ==
    \E q \in Requests : /\ reply[q] \in Final
                        /\ req[q].target = k
                        /\ \/ req[q].op = "delete"
                           \/ req[q].op = "set" /\ req[q].status = "disabled"

Rivalled(k) == \E j \in Keys : /\ j # k /\ status[j] # Nil
                               /\ PrefixOf[j] = PrefixOf[k]

Accounted(r) == Charged(r) \/ TurnedOff(req[r].token) \/ Rivalled(req[r].token)

\* The key of an authenticated request is active until a request has turned
\* it off, so that only an ambiguous prefix makes the second lookup fail.
RecordInv ==
    \A r \in Requests :
       /\ pc[r] \in {"idle", "auth", "authed", "found"} => reply[r] = Nil
       /\ caller[r] # Nil => \/ status[req[r].token] = "active"
                             \/ TurnedOff(req[r].token)
       /\ pc[r] = "done" /\ caller[r] # Nil /\ reply[r] # "500" => Accounted(r)

\* What a step leaves of the reasons: all of them.
ReasonsStay ==
    /\ \A q \in Requests : reply[q] \in Final => reply'[q] \in Final /\ req'[q] = req[q]
    /\ \A k \in Keys : status[k] # Nil => status'[k] # Nil
    /\ log \subseteq log'

LEMMA ReasonsStayTrue ==
    ASSUME ReasonsStay
    PROVE  /\ \A k \in Keys : TurnedOff(k) => TurnedOff(k)'
           /\ \A k \in Keys : Rivalled(k) => Rivalled(k)'
           /\ \A r \in Requests : req'[r] = req[r] /\ Charged(r) => Charged(r)'
<1>1. \A k \in Keys : TurnedOff(k) => TurnedOff(k)'
  BY DEF ReasonsStay, TurnedOff
<1>2. \A k \in Keys : Rivalled(k) => Rivalled(k)'
  BY DEF ReasonsStay, Rivalled
<1>3. \A r \in Requests : req'[r] = req[r] /\ Charged(r) => Charged(r)'
  BY DEF ReasonsStay, Charged
<1>. QED BY <1>1, <1>2, <1>3

\* A step of r keeps the records if it keeps those of r, and turns a key off
\* only with a reply.
LEMMA RecordOfOthers ==
    ASSUME IInv, RecordInv, ReasonsStay, NEW r \in Requests,
           \A q \in Requests \ {r} : /\ pc'[q] = pc[q] /\ req'[q] = req[q]
                                     /\ caller'[q] = caller[q] /\ reply'[q] = reply[q],
           \A k \in Keys : status[k] = "active" => status'[k] = "active" \/ TurnedOff(k)',
           pc'[r] \in {"idle", "auth", "authed", "found"} => reply'[r] = Nil,
           caller'[r] # Nil => /\ req'[r].token \in Keys
                               /\ \/ status[req'[r].token] = "active"
                                  \/ TurnedOff(req'[r].token),
           pc'[r] = "done" /\ caller'[r] # Nil /\ reply'[r] # "500" => Accounted(r)'
    PROVE  RecordInv'
<1>1. ASSUME NEW q \in Requests, q # r
      PROVE  /\ pc'[q] \in {"idle", "auth", "authed", "found"} => reply'[q] = Nil
             /\ caller'[q] # Nil => \/ status'[req'[q].token] = "active"
                                    \/ TurnedOff(req[q].token)'
             /\ pc'[q] = "done" /\ caller'[q] # Nil /\ reply'[q] # "500" => Accounted(q)'
  <2>1. caller[q] # Nil => req[q].token \in Keys
    BY DEF IInv, CallerInv
  <2>2. Accounted(q) /\ caller[q] # Nil => Accounted(q)'
    BY <1>1, <2>1, ReasonsStayTrue DEF Accounted
  <2>. QED BY <1>1, <2>1, <2>2, ReasonsStayTrue DEF RecordInv
<1>2. caller'[r] # Nil => \/ status'[req'[r].token] = "active"
                          \/ TurnedOff(req[r].token)'
  BY ReasonsStayTrue
<1>. QED BY <1>1, <1>2 DEF RecordInv

\* A step of r that leaves the key table alone and answers r, or lets it be.
LEMMA QuietRecord ==
    ASSUME IInv, RecordInv, UNCHANGED <<keyTable, req>>, NEW r \in Requests,
           log \subseteq log',
           \A q \in Requests \ {r} : /\ pc'[q] = pc[q] /\ caller'[q] = caller[q]
                                     /\ reply'[q] = reply[q],
           \/ reply'[r] = reply[r] \/ reply'[r] = "500"
           \/ pc[r] \in {"auth", "authed", "found"},
           pc'[r] \in {"idle", "auth", "authed", "found"} => reply'[r] = Nil,
           caller'[r] # Nil => \/ caller'[r] = caller[r]
                               \/ /\ req[r].token \in Keys
                                  /\ status[req[r].token] = "active",
           pc'[r] = "done" /\ caller'[r] # Nil /\ reply'[r] # "500" => Accounted(r)'
    PROVE  RecordInv'
<1>. USE DEF keyTable
<1>1. ReasonsStay
  <2>1. Nil \notin Final
    BY NoReplyAssumption DEF Codes, Final
  <2>2. pc[r] \in {"auth", "authed", "found"} => reply[r] = Nil
    BY DEF RecordInv
  <2>. QED BY <2>1, <2>2 DEF ReasonsStay, Final
<1>2. caller'[r] # Nil => /\ req'[r].token \in Keys
                          /\ \/ status[req'[r].token] = "active"
                             \/ TurnedOff(req'[r].token)
  BY DEF RecordInv, IInv, CallerInv
<1>. QED BY <1>1, <1>2, RecordOfOthers

\* A request that has been answered by its handler, which minted a key.
LEMMA MintRecord ==
    ASSUME IInv, RecordInv, NEW r \in Requests, pc[r] = "authed",
           NEW p \in Publishers, NEW k \in Keys, Mint(p, k),
           NEW code \in Codes, Answer(r, code), UNCHANGED <<req, caller, usage>>
    PROVE  RecordInv'
<1>1. /\ reply[r] = Nil /\ Nil \notin Final
      /\ \A q \in Requests \ {r} : pc'[q] = pc[q] /\ reply'[q] = reply[q]
      /\ pc'[r] = "answered"
  BY NoReplyAssumption DEF Answer, RecordInv, IInv, TypeOK, Codes, Final
<1>2. \A j \in Keys : status[j] # Nil => status'[j] = status[j]
  BY MintStep DEF IInv, KeyInv
<1>3. ReasonsStay
  BY <1>1, <1>2 DEF ReasonsStay, usage
<1>4. caller[r] # Nil => /\ req[r].token \in Keys
                         /\ \/ status[req[r].token] = "active"
                            \/ TurnedOff(req[r].token)
  BY DEF RecordInv, IInv, CallerInv
<1>5. \A j \in Keys : status[j] = "active" => status'[j] = "active"
  BY <1>2, NilAssumption DEF Statuses, Settable
<1>. QED BY <1>1, <1>3, <1>4, <1>5, RecordOfOthers

LEMMA CommitStatusRecord ==
    ASSUME IInv, RecordInv, NEW r \in Requests, pc[r] = "found",
           NEW new \in Statuses, NEW code \in {"200", "204"},
           CommitStatus(r, new, code),
           \/ new = "active"
           \/ req[r].op = "delete"
           \/ req[r].op = "set" /\ req[r].status = "disabled"
    PROVE  RecordInv'
<1>. USE DEF CommitStatus, Answer
<1>1. /\ reply[r] = Nil /\ Nil \notin Final
      /\ \A q \in Requests \ {r} : pc'[q] = pc[q] /\ reply'[q] = reply[q]
      /\ pc'[r] = "answered" /\ reply'[r] = code
  BY NoReplyAssumption DEF RecordInv, IInv, TypeOK, Codes, Final
<1>2. \A j \in Keys : status[j] # Nil => status'[j] # Nil
  BY NilAssumption DEF IInv, TypeOK
<1>3. ReasonsStay
  BY <1>1, <1>2 DEF ReasonsStay, usage
<1>4. caller[r] # Nil => /\ req[r].token \in Keys
                         /\ \/ status[req[r].token] = "active"
                            \/ TurnedOff(req[r].token)
  BY DEF RecordInv, IInv, CallerInv
<1>5. ASSUME NEW j \in Keys, status[j] = "active"
      PROVE  status'[j] = "active" \/ TurnedOff(j)'
  <2>1. CASE new = "active" \/ j # req[r].target
    BY <1>5, <2>1 DEF IInv, TypeOK
  <2>2. CASE new # "active" /\ j = req[r].target
    BY <1>1, <2>2 DEF TurnedOff, Final
  <2>. QED BY <2>1, <2>2
<1>. QED BY <1>1, <1>3, <1>4, <1>5, RecordOfOthers

LEMMA NextRecordInv == IInv /\ RecordInv /\ [Next]_vars => RecordInv'
<1>. SUFFICES ASSUME IInv, RecordInv, [Next]_vars PROVE RecordInv'
  OBVIOUS
<1>1. CASE UNCHANGED vars
  BY <1>1 DEF vars, session, keyTable, usage, RecordInv, Accounted, Charged, TurnedOff,
              Rivalled
<1>2. CASE Quiescent
  BY <1>1, <1>2 DEF Quiescent
<1>3. ASSUME NEW r \in Requests, Arrive(r) PROVE RecordInv'
  <2>1. /\ pc[r] = "idle" /\ pc'[r] \in {"auth", "authed"}
        /\ reply[r] = Nil /\ caller[r] = Nil
        /\ \A q \in Requests \ {r} : pc'[q] = pc[q] /\ req'[q] = req[q]
        /\ UNCHANGED <<caller, reply, owner, status, log>>
    BY <1>3 DEF Arrive, keyTable, usage, RecordInv, IInv, TypeOK, CallerInv
  <2>2. Nil \notin Final
    BY NoReplyAssumption DEF Codes, Final
  <2>3. ReasonsStay
    BY <2>1, <2>2 DEF ReasonsStay
  <2>. QED BY <2>1, <2>3, RecordOfOthers
<1>4. ASSUME NEW r \in Requests, Authenticate(r) PROVE RecordInv'
  <2>1. /\ pc[r] = "auth" /\ reply[r] = Nil /\ caller[r] = Nil
        /\ UNCHANGED <<keyTable, req, log>>
    BY <1>4 DEF Authenticate, RecordInv, IInv, CallerInv, usage
  <2>2. CASE UNCHANGED caller /\ (RaiseError(r) \/ Answer(r, "401"))
    BY <2>1, <2>2, QuietRecord DEF Answer, RaiseError, IInv, TypeOK
  <2>3. ASSUME NEW k \in Keys, Accepted(req[r].token, k),
               pc' = [pc EXCEPT ![r] = "authed"],
               caller' = [caller EXCEPT ![r] = owner[k]], UNCHANGED reply
        PROVE  RecordInv'
    <3>1. req[r].token \in Keys
      BY <2>1, RequestFields DEF IInv, CallerInv
    <3>2. status[req[r].token] = "active"
      BY <2>3, <3>1 DEF Accepted, Verify, ActiveWith
    <3>. QED BY <2>1, <2>3, <3>1, <3>2, QuietRecord DEF IInv, TypeOK
  <2>. QED BY <1>4, <2>2, <2>3 DEF Authenticate
<1>5. ASSUME NEW r \in Requests, Join(r) PROVE RecordInv'
  <2>1. pc[r] = "authed" /\ UNCHANGED <<req, caller, usage>>
    BY <1>5 DEF Join
  <2>2. CASE RaiseError(r) /\ UNCHANGED keyTable
    BY <2>1, <2>2, QuietRecord DEF RaiseError, usage, IInv, TypeOK
  <2>3. CASE Answer(r, "201") /\ \E k \in Keys : Mint(req[r].publisher, k)
    <3>1. req[r].publisher \in Publishers
      BY <2>1, RequestFields DEF IInv, CallerInv
    <3>. QED BY <2>1, <2>3, <3>1, MintRecord DEF Codes
  <2>. QED BY <1>5, <2>2, <2>3 DEF Join
<1>6. ASSUME NEW r \in Requests, CreateKey(r) PROVE RecordInv'
  <2>1. caller[r] \in Publishers
    BY <1>6, NilAssumption DEF CreateKey, IInv, TypeOK, CallerInv
  <2>. QED BY <1>6, <2>1, MintRecord DEF CreateKey, Codes
<1>7. ASSUME NEW r \in Requests, GetKey(r) \/ Serve(r) PROVE RecordInv'
  <2>1. /\ pc[r] = "authed" /\ UNCHANGED <<keyTable, req, caller, log>>
        /\ \/ pc' = [pc EXCEPT ![r] = "found"] /\ UNCHANGED reply
           \/ \E code \in Codes : Answer(r, code)
    BY <1>7 DEF GetKey, Serve, usage, Codes
  <2>2. reply[r] = Nil
    BY <2>1 DEF RecordInv
  <2>. QED BY <2>1, <2>2, QuietRecord DEF Answer, IInv, TypeOK
<1>8. ASSUME NEW r \in Requests, SetStatus(r) \/ DeleteKey(r) PROVE RecordInv'
  <2>1. CASE SetStatus(r)
    <3>1. req[r].status \in Settable
      BY <2>1, RequestFields DEF SetStatus, IInv, CallerInv
    <3>. QED BY <2>1, <3>1, CommitStatusRecord DEF SetStatus, Settable, Statuses
  <2>2. CASE DeleteKey(r)
    BY <2>2, CommitStatusRecord DEF DeleteKey, Statuses
  <2>. QED BY <1>8, <2>1, <2>2
<1>9. ASSUME NEW r \in Requests, Raise(r) PROVE RecordInv'
  BY <1>9, QuietRecord DEF Raise, RaiseError, usage, IInv, TypeOK
<1>10. ASSUME NEW r \in Requests, LogLookup(r) PROVE RecordInv'
  <2>1. /\ pc[r] = "answered" /\ UNCHANGED <<keyTable, req, caller, reply, log>>
        /\ \E to \in {"logging", "done"} : pc' = [pc EXCEPT ![r] = to]
    BY <1>10 DEF LogLookup, usage
  <2>2. ASSUME caller[r] # Nil, pc'[r] = "done" PROVE Accounted(r)'
    <3>1. req[r].token \in Keys /\ req[r].token # Nil
      BY <2>2, NilAssumption DEF IInv, CallerInv
    <3>2. ~Accepted(req[r].token, req[r].token)
      BY <1>10, <2>2, <3>1 DEF LogLookup, IInv, TypeOK
    <3>3. CASE status[req[r].token] = "active"
      <4>1. PICK k \in Keys : /\ k # req[r].token /\ status[k] = "active"
                              /\ PrefixOf[k] = PrefixOf[req[r].token]
        BY <3>1, <3>2, <3>3 DEF Accepted, Verify, ActiveWith
      <4>2. status[k] # Nil
        BY <4>1, NilAssumption DEF Statuses, Settable
      <4>3. Rivalled(req[r].token)
        BY <4>1, <4>2 DEF Rivalled
      <4>. QED BY <2>1, <4>3 DEF Accounted, Rivalled, keyTable
    <3>4. CASE TurnedOff(req[r].token)
      BY <2>1, <3>4 DEF Accounted, TurnedOff
    <3>. QED BY <2>2, <3>3, <3>4 DEF RecordInv
  <2>. QED BY <2>1, <2>2, QuietRecord DEF IInv, TypeOK
<1>11. ASSUME NEW r \in Requests, LogWrite(r) PROVE RecordInv'
  <2>1. /\ pc[r] = "logging" /\ UNCHANGED <<keyTable, req, caller, reply>>
        /\ pc' = [pc EXCEPT ![r] = "done"] /\ log \subseteq log'
        /\ [key |-> charged[r], by |-> r] \in log'
    BY <1>11 DEF LogWrite
  <2>2. Charged(r)'
    BY <2>1 DEF Charged, IInv, LogInv
  <2>. QED BY <2>1, <2>2, QuietRecord DEF Accounted, IInv, TypeOK
<1>12. ASSUME NEW r \in Requests, LogFail(r) PROVE RecordInv'
  BY <1>12, QuietRecord DEF LogFail, usage, IInv, TypeOK
<1>. QED BY <1>1, <1>2, <1>3, <1>4, <1>5, <1>6, <1>7, <1>8, <1>9, <1>10, <1>11, <1>12
     DEF Next, Handle

\* Nobody's usage is lost but for the reasons UsageIsRecorded names.
THEOREM UsageRecorded == Spec => []UsageIsRecorded
<1>1. Init => RecordInv
  BY DEF Init, RecordInv
<1>2. RecordInv => UsageIsRecorded
  BY DEF RecordInv, Accounted, TurnedOff, Rivalled, Final, UsageIsRecorded
<1>. QED BY <1>1, <1>2, Inductive, NextRecordInv, PTL DEF Spec
===============================================================================
