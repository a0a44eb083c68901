-------------------------------- MODULE Publish --------------------------------
(***************************************************************************)
(* The commands `oar register` and `oar publish` (cli/commands) as clients *)
(* of AgentRegistry.  A command reads and validates a manifest, POSTs it   *)
(* under the publisher of the configured key and, if the name is taken,    *)
(* PATCHes the agent named by the manifest.  The HTTP client gives up      *)
(* after 30 s (cli/client.py) while the server goes on with the request;   *)
(* the user then runs the command again.                                   *)
(***************************************************************************)
EXTENDS AgentRegistry

CONSTANTS
    Clients,      \* terminals
    KeyOf,        \* client -> the publisher of its configured key
    Manifests,    \* the files they publish
    MaxFaults     \* failed handlers and time-outs together

\* AgentManifest: the name is given by the slug that is made of it.
Manifest == [publisher : Publishers, slug : Slugs, version : Versions,
             status : Statuses]

\* The body of the POST: the key decides the publisher.
PostBody(c, m) ==
    [op |-> "register", caller |-> KeyOf[c], owner |-> KeyOf[c],
     slug |-> m.slug, version |-> m.version, status |-> m.status,
     lists |-> Kinds]

\* Mutant: the lists are left out of the update.
PatchOfColumns(c, m) ==
    [op |-> "update", caller |-> KeyOf[c], owner |-> m.publisher,
     slug |-> m.slug, version |-> m.version, status |-> m.status, lists |-> {}]

\* The path and the body of the PATCH: the manifest decides the publisher, and
\* every field is sent, the empty lists included.
PatchBody(c, m) ==
    [op |-> "update", caller |-> KeyOf[c], owner |-> m.publisher,
     slug |-> m.slug, version |-> m.version, status |-> m.status,
     lists |-> Kinds]

Command == [name : {"register", "publish"}, manifest : Manifests]

Outcomes == {"created", "updated", "exists", "error", "timeout"}

ASSUME ClientsAssumption ==
    /\ IsFiniteSet(Clients) /\ IsFiniteSet(Requests)
    /\ KeyOf \in [Clients -> Publishers]
    /\ Manifests \subseteq Manifest
    /\ MaxFaults \in Nat
    /\ Nil \notin Command /\ Nil \notin Outcomes
    /\ \A c \in Clients, m \in Manifests : {PostBody(c, m), PatchBody(c, m)} \subseteq Inputs

VARIABLES
    stage,     \* client -> "shell", or the method it waits for
    command,   \* client -> its last command and its manifest, or Nil
    call,      \* client -> the last request it sent, or Nil
    outcome,   \* client -> how its last command ended, or Nil
    sent,      \* request -> the body sent to the server, or Nil
    rivals,    \* client -> the requests of others, or given up by itself, not
               \* yet answered when its last command began, or sent since
    faults     \* spent of MaxFaults

clients == <<stage, command, call, outcome, sent, rivals>>
all     == <<vars, clients, faults>>

PublishTypeOK ==
    /\ TypeOK
    /\ stage \in [Clients -> {"shell", "POST", "PATCH"}]
    /\ command \in [Clients -> Command \cup {Nil}]
    /\ call \in [Clients -> Requests \cup {Nil}]
    /\ outcome \in [Clients -> Outcomes \cup {Nil}]
    /\ sent \in [Requests -> Inputs \cup {Nil}]
    /\ rivals \in [Clients -> SUBSET Requests]
    /\ faults \in 0..MaxFaults

PublishInit ==
    /\ Init
    /\ stage = [c \in Clients |-> "shell"]
    /\ command = [c \in Clients |-> Nil]
    /\ call = [c \in Clients |-> Nil]
    /\ outcome = [c \in Clients |-> Nil]
    /\ sent = [r \in Requests |-> Nil]
    /\ rivals = [c \in Clients |-> {}]
    /\ faults = 0
-------------------------------------------------------------------------------
Unsent == {r \in Requests : sent[r] = Nil}

Unanswered == {r \in Requests : sent[r] # Nil /\ pc[r] # "done"}

\* c sends a request and waits for its answer.
Send(c, method, body, r) ==
    /\ sent' = [sent EXCEPT ![r] = body]
    /\ call' = [call EXCEPT ![c] = r]
    /\ stage' = [stage EXCEPT ![c] = method]

End(c, how) == /\ stage' = [stage EXCEPT ![c] = "shell"]
               /\ outcome' = [outcome EXCEPT ![c] = how]

\* Bound: the requests left are enough for the commands running and one more.
Enough == Cardinality(Unsent) >= 2 + Cardinality({d \in Clients : stage[d] = "POST"})

\* The user runs a command on a manifest that is valid.
Run(c) ==
    /\ stage[c] = "shell" /\ Enough
    /\ \E name \in {"register", "publish"}, m \in Manifests :
         LET r == CHOOSE new \in Unsent : TRUE
         IN  /\ command' = [command EXCEPT ![c] = [name |-> name, manifest |-> m]]
             /\ Send(c, "POST", PostBody(c, m), r)
             /\ rivals' = [d \in Clients |-> IF d = c THEN Unanswered
                                             ELSE rivals[d] \cup {r}]
    /\ outcome' = [outcome EXCEPT ![c] = Nil]
    /\ UNCHANGED <<faults, vars>>

\* Mutant: whatever is not a success is taken for a conflict.
UpdateAfterAnyError(c) ==
    /\ stage[c] = "POST" /\ reply[call[c]] \notin {"201", Nil}
    /\ command[c].name = "publish"
    /\ LET r == CHOOSE new \in Unsent : TRUE
       IN  /\ Send(c, "PATCH", PatchBody(c, command[c].manifest), r)
           /\ rivals' = [d \in Clients |-> IF d = c THEN rivals[d]
                                           ELSE rivals[d] \cup {r}]
    /\ UNCHANGED <<command, outcome, faults, vars>>

\* 409, and the command is `publish`: the agent is there already, update it.
Update(c) ==
    /\ stage[c] = "POST" /\ reply[call[c]] = "409"
    /\ command[c].name = "publish"
    /\ LET r == CHOOSE new \in Unsent : TRUE
       IN  /\ Send(c, "PATCH", PatchBody(c, command[c].manifest), r)
           /\ rivals' = [d \in Clients |-> IF d = c THEN rivals[d]
                                           ELSE rivals[d] \cup {r}]
    /\ UNCHANGED <<command, outcome, faults, vars>>

\* Every other answer ends the command.
Report(c) ==
    LET answer == reply[call[c]]
    IN  /\ stage[c] # "shell" /\ answer # Nil
        /\ \/ stage[c] = "POST" /\ answer = "201" /\ End(c, "created")
           \/ /\ stage[c] = "POST" /\ answer = "409"
              /\ command[c].name = "register" /\ End(c, "exists")
           \/ stage[c] = "PATCH" /\ answer = "200" /\ End(c, "updated")
           \/ stage[c] = "POST" /\ answer \notin {"201", "409"} /\ End(c, "error")
           \/ stage[c] = "PATCH" /\ answer # "200" /\ End(c, "error")
        /\ UNCHANGED <<command, call, sent, rivals, faults, vars>>

Fault == faults < MaxFaults /\ faults' = faults + 1

\* httpx raises a timeout; the request is not withdrawn.
GiveUp(c) ==
    /\ stage[c] # "shell" /\ reply[call[c]] = Nil
    /\ End(c, "timeout") /\ Fault
    /\ UNCHANGED <<command, call, sent, rivals, vars>>

\* The request reaches the server, its client waiting for it or not.
Deliver(r) == /\ sent[r] # Nil
              /\ Arrive(r) /\ req'[r] = sent[r]
              /\ UNCHANGED <<clients, faults>>

Handles(r) == Handle(r) /\ UNCHANGED <<clients, faults>>

Fails(r) == Fail(r) /\ Fault /\ UNCHANGED clients

Rest == /\ \A c \in Clients : stage[c] = "shell"
        /\ \A r \in Requests : sent[r] # Nil => pc[r] = "done"
        /\ UNCHANGED all

PublishNext ==
    \/ \E c \in Clients : Run(c) \/ Update(c) \/ Report(c) \/ GiveUp(c)
    \/ \E r \in Requests : Deliver(r) \/ Handles(r) \/ Fails(r)
    \/ Rest

PublishSpec == PublishInit /\ [][PublishNext]_all
-------------------------------------------------------------------------------
Target(c) == Holders(KeyOf[c], command[c].manifest.slug)

\* A command that reports success leaves the manifest in the registry: the
\* version, the status and the lists of the agent are the ones it sent, unless
\* another request ran beside it or was sent since - one of a user who had
\* given up on it included (oar publish: "Created", "Updated").
SuccessIsVisible ==
    \A c \in Clients : stage[c] = "shell" /\ outcome[c] \in {"created", "updated"} =>
       LET writers == {call[c]} \cup rivals[c]
       IN  \E a \in Target(c) :
              /\ agents[a].version \in {sent[r].version : r \in writers}
              /\ agents[a].status \in {sent[r].status : r \in writers}
              /\ \A k \in Kinds : rows[a][k] # {} /\ rows[a][k] \subseteq writers

\* The agent that made the POST conflict is still there for the PATCH, and is
\* the publisher's own, unless the manifest names another publisher than the
\* key does (publish: 409, then PATCH).
ConflictIsUpdatable ==
    \A c \in Clients : stage[c] = "PATCH" /\ reply[call[c]] \in {"403", "404"} =>
       command[c].manifest.publisher # KeyOf[c]

\* Publishing is idempotent ("creates if new, updates if already exists"),
\* after a time-out or a failure too, for a manifest of the key's publisher
\* with no rival about: it is refused only if the server fails, no short id is
\* left, or the version has been superseded.
QuietPublishSucceeds ==
    \A c \in Clients :
       /\ stage[c] = "shell" /\ outcome[c] = "error" /\ rivals[c] = {}
       /\ command[c].name = "publish"
       /\ command[c].manifest.publisher = KeyOf[c]
       => \/ reply[call[c]] = "failed"
          \/ \E a \in Requests : agents[a] # Nil /\ agents[a].shortId = shortId[call[c]]
          \/ \E a \in Target(c) :
                /\ agents[a].version # command[c].manifest.version
                /\ \E s \in snapshots : s.agent = a
                                        /\ s.version = command[c].manifest.version
===============================================================================
