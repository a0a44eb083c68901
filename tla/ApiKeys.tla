-------------------------------- MODULE ApiKeys --------------------------------
(***************************************************************************)
(* The life of API keys: authentication by prefix (dependencies.py), the   *)
(* /v1/keys routes (api/api_keys.py, services/api_key_service.py), the     *)
(* registration of a publisher with its default key, and the middleware    *)
(* that logs usage around every request (middleware/usage.py).  Requests   *)
(* interleave at every `await`; each one uses a session of its own, which  *)
(* keeps the key it authenticated with as it first read it, and the log is *)
(* written by a second session after the handler has answered.             *)
(***************************************************************************)
EXTENDS Naturals, FiniteSets

CONSTANTS
    Requests,      \* HTTP requests, each sent once
    Publishers,
    Keys,          \* the keys that may be minted
    Prefixes,
    PrefixOf,      \* the 8 characters a key is looked up by
    Inputs,        \* what the requests carry
    Databases,     \* the api_keys tables the server may start on
    Nil

ASSUME PrefixAssumption == PrefixOf \in [Keys -> Prefixes]

\* "call": a route that needs a key and changes none.  "public": a route that
\* needs none, called with a token.  "join": POST /v1/publishers.
Ops == {"join", "create", "set", "delete", "call", "public"}

\* The statuses a PATCH may ask for, and those a row may have.
Settable == {"active", "disabled"}
Statuses == Settable \cup {"deleted"}

ASSUME NilAssumption ==
    Nil \notin Publishers /\ Nil \notin Keys /\ Nil \notin Statuses

Bodies == [op : Ops, token : Keys \cup {Nil}, publisher : Publishers,
           target : Keys, status : Settable]

ASSUME InputsAssumption ==
    /\ Inputs \subseteq Bodies /\ Nil \notin Bodies
    /\ \A i \in Inputs : i.token = Nil <=> i.op = "join"

ASSUME DatabasesAssumption ==
    \A d \in Databases :
       /\ d.owner \in [Keys -> Publishers \cup {Nil}]
       /\ d.status \in [Keys -> Statuses \cup {Nil}]
       /\ \A k \in Keys : d.owner[k] = Nil <=> d.status[k] = Nil

VARIABLES
    pc, req,
    caller,      \* the publisher get_current_publisher returned, or Nil
    seen,        \* the status of the target as the session first read it
    reply,
    charged,     \* the key _log_usage found, or Nil
    owner,       \* api_keys.publisher_id, Nil before the key is minted
    status,      \* api_keys.status
    log,         \* api_key_usage_logs: the key charged and the request
    stamped      \* the keys whose last_used_at is set

session == <<pc, req, caller, seen, reply, charged>>
keyTable == <<owner, status>>
usage == <<log, stamped>>
vars == <<session, keyTable, usage>>

Codes == {"200", "201", "204", "401", "404", "500"}

ASSUME NoReplyAssumption == Nil \notin Codes

TypeOK ==
    /\ pc \in [Requests -> {"idle", "auth", "authed", "found", "answered",
                            "logging", "done", "unlogged"}]
    /\ req \in [Requests -> Bodies \cup {Nil}]
    /\ caller \in [Requests -> Publishers \cup {Nil}]
    /\ seen \in [Requests -> Statuses \cup {Nil}]
    /\ reply \in [Requests -> Codes \cup {Nil}]
    /\ charged \in [Requests -> Keys \cup {Nil}]
    /\ owner \in [Keys -> Publishers \cup {Nil}]
    /\ status \in [Keys -> Statuses \cup {Nil}]
    /\ log \in SUBSET [key : Keys, by : Requests]
    /\ stamped \in SUBSET Keys

Init ==
    /\ pc = [r \in Requests |-> "idle"]
    /\ req = [r \in Requests |-> Nil]
    /\ caller = [r \in Requests |-> Nil]
    /\ seen = [r \in Requests |-> Nil]
    /\ reply = [r \in Requests |-> Nil]
    /\ charged = [r \in Requests |-> Nil]
    /\ \E d \in Databases : owner = d.owner /\ status = d.status
    /\ log = {}
    /\ stamped = {}
-------------------------------------------------------------------------------
\* Mutant: a disabled key is found too.
NotDeletedWith(p) == {k \in Keys : PrefixOf[k] = p /\ status[k] \in Settable}

\* SELECT ... WHERE key_prefix = p AND status = 'active'.
ActiveWith(p) == {k \in Keys : PrefixOf[k] = p /\ status[k] = "active"}

\* Mutant: the hash is not compared.
VerifyPrefixOnly(token, k) == PrefixOf[token] = PrefixOf[k]

\* verify_api_key: the hash is that of one key.
Verify(token, k) == token = k

\* The lookup returns the one row k, and its hash is the token's.
Accepted(token, k) == ActiveWith(PrefixOf[token]) = {k} /\ Verify(token, k)

\* scalar_one_or_none over several rows raises.
Ambiguous(token) == Cardinality(ActiveWith(PrefixOf[token])) > 1

\* The handler's response reaches the middleware.
Answer(r, code) == /\ pc' = [pc EXCEPT ![r] = "answered"]
                   /\ reply' = [reply EXCEPT ![r] = code]

\* An exception nobody handles goes through the middleware: 500, no log.
RaiseError(r) == /\ pc' = [pc EXCEPT ![r] = "done"]
                 /\ reply' = [reply EXCEPT ![r] = "500"]

Joined(p) == \E k \in Keys : owner[k] = p

Arrive(r) ==
    /\ pc[r] = "idle"
    /\ \E body \in Inputs :
         /\ req' = [req EXCEPT ![r] = body]
         /\ pc' = [pc EXCEPT ![r] = IF body.op \in {"join", "public"}
                                    THEN "authed" ELSE "auth"]
    /\ UNCHANGED <<caller, seen, reply, charged, keyTable, usage>>

\* get_current_api_key, then get_current_publisher.
Authenticate(r) ==
    LET token == req[r].token
    IN  /\ pc[r] = "auth"
        /\ \/ /\ Ambiguous(token)
              /\ RaiseError(r) /\ UNCHANGED caller
           \/ /\ ~Ambiguous(token) /\ \A k \in Keys : ~Accepted(token, k)
              /\ Answer(r, "401") /\ UNCHANGED caller
           \/ \E k \in Keys :
                /\ Accepted(token, k)
                /\ pc' = [pc EXCEPT ![r] = "authed"]
                /\ caller' = [caller EXCEPT ![r] = owner[k]]
                /\ UNCHANGED reply
        /\ UNCHANGED <<req, seen, charged, keyTable, usage>>

\* A row is inserted with a fresh key, active at once.
Mint(p, k) == /\ owner[k] = Nil
              /\ owner' = [owner EXCEPT ![k] = p]
              /\ status' = [status EXCEPT ![k] = "active"]

\* Mutant: the slug is not unique; the second registration gets a key too.
JoinAgain(r) ==
    /\ pc[r] = "authed" /\ req[r].op = "join"
    /\ Answer(r, "201") /\ \E k \in Keys : Mint(req[r].publisher, k)
    /\ UNCHANGED <<req, caller, seen, charged, usage>>

\* create_publisher: the publisher and its default key in one transaction.
\* publishers.slug is unique and nothing looks before the insert.
Join(r) ==
    /\ pc[r] = "authed" /\ req[r].op = "join"
    /\ IF Joined(req[r].publisher)
       THEN RaiseError(r) /\ UNCHANGED keyTable
       ELSE Answer(r, "201") /\ \E k \in Keys : Mint(req[r].publisher, k)
    /\ UNCHANGED <<req, caller, seen, charged, usage>>

CreateKey(r) ==
    /\ pc[r] = "authed" /\ req[r].op = "create"
    /\ \E k \in Keys : Mint(caller[r], k)
    /\ Answer(r, "201")
    /\ UNCHANGED <<req, caller, seen, charged, usage>>

\* Mutant: the key is looked up by its id alone.
VisibleToAll(r, k) == status[k] \notin {Nil, "deleted"}

\* The WHERE clause of get_key.
Visible(r, k) == owner[k] = caller[r] /\ status[k] \notin {Nil, "deleted"}

\* get_key.  The row of the caller's own key is already in the session, with
\* the status it was authenticated with.
GetKey(r) ==
    LET k == req[r].target
    IN  /\ pc[r] = "authed" /\ req[r].op \in {"set", "delete"}
        /\ IF Visible(r, k)
           THEN /\ pc' = [pc EXCEPT ![r] = "found"]
                /\ seen' = [seen EXCEPT ![r] =
                              IF k = req[r].token THEN "active" ELSE status[k]]
                /\ UNCHANGED reply
           ELSE Answer(r, "404") /\ UNCHANGED seen
        /\ UNCHANGED <<req, caller, charged, keyTable, usage>>

\* set_key_status and delete_key: an attribute equal to the copy is not written.
CommitStatus(r, new, code) ==
    /\ status' = IF seen[r] = new THEN status
                 ELSE [status EXCEPT ![req[r].target] = new]
    /\ Answer(r, code)
    /\ UNCHANGED <<req, caller, seen, charged, owner, usage>>

SetStatus(r) == /\ pc[r] = "found" /\ req[r].op = "set"
                /\ CommitStatus(r, req[r].status, "200")

DeleteKey(r) == /\ pc[r] = "found" /\ req[r].op = "delete"
                /\ CommitStatus(r, "deleted", "204")

\* Every other handler, as far as keys go.
Serve(r) ==
    /\ pc[r] = "authed" /\ req[r].op \in {"call", "public"}
    /\ Answer(r, "200")
    /\ UNCHANGED <<req, caller, seen, charged, keyTable, usage>>

\* The handler raises before it commits, or after (db.refresh fails); a
\* commit that happened is not undone.
Raise(r) ==
    /\ pc[r] \in {"auth", "authed", "found", "answered"}
    /\ RaiseError(r)
    /\ UNCHANGED <<req, caller, seen, charged, keyTable, usage>>
-------------------------------------------------------------------------------
\* Mutant: requests answered with an error are not logged.
LogLookupOfSuccesses(r) ==
    /\ pc[r] = "answered"
    /\ \/ \E k \in Keys :
            /\ req[r].token # Nil /\ Accepted(req[r].token, k)
            /\ reply[r] \notin {"401", "404"}
            /\ pc' = [pc EXCEPT ![r] = "logging"]
            /\ charged' = [charged EXCEPT ![r] = k]
       \/ /\ req[r].token # Nil =>
               \/ reply[r] \in {"401", "404"}
               \/ \A k \in Keys : ~Accepted(req[r].token, k)
          /\ pc' = [pc EXCEPT ![r] = "done"] /\ UNCHANGED charged
    /\ UNCHANGED <<req, caller, seen, reply, keyTable, usage>>

\* Mutant: no early return when the key is not found.
LogLookupUnchecked(r) ==
    /\ pc[r] = "answered"
    /\ charged' = [charged EXCEPT ![r] =
          IF req[r].token # Nil /\ Accepted(req[r].token, req[r].token)
          THEN req[r].token ELSE Nil]
    /\ pc' = [pc EXCEPT ![r] = IF req[r].token = Nil THEN "done" ELSE "logging"]
    /\ UNCHANGED <<req, caller, seen, reply, keyTable, usage>>

\* _log_usage looks the token up again, in the table as it is now.
LogLookup(r) ==
    LET token == req[r].token
    IN  /\ pc[r] = "answered"
        /\ \/ \E k \in Keys :
                /\ token # Nil /\ Accepted(token, k)
                /\ pc' = [pc EXCEPT ![r] = "logging"]
                /\ charged' = [charged EXCEPT ![r] = k]
           \/ /\ token # Nil => \A k \in Keys : ~Accepted(token, k)
              /\ pc' = [pc EXCEPT ![r] = "done"] /\ UNCHANGED charged
        /\ UNCHANGED <<req, caller, seen, reply, keyTable, usage>>

\* The log row and last_used_at, in one transaction; then the response leaves.
LogWrite(r) ==
    /\ pc[r] = "logging"
    /\ log' = log \cup {[key |-> charged[r], by |-> r]}
    /\ stamped' = stamped \cup {charged[r]}
    /\ pc' = [pc EXCEPT ![r] = "done"]
    /\ UNCHANGED <<req, caller, seen, reply, charged, keyTable>>

\* The logging transaction fails and dispatch swallows the exception.
LogFail(r) ==
    /\ pc[r] \in {"answered", "logging"}
    /\ pc' = [pc EXCEPT ![r] = "unlogged"]
    /\ UNCHANGED <<req, caller, seen, reply, charged, keyTable, usage>>
-------------------------------------------------------------------------------
Handle(r) == \/ Authenticate(r) \/ Join(r) \/ CreateKey(r) \/ GetKey(r)
             \/ SetStatus(r) \/ DeleteKey(r) \/ Serve(r)
             \/ LogLookup(r) \/ LogWrite(r)

Quiescent == (\A r \in Requests : pc[r] \in {"done", "unlogged"}) /\ UNCHANGED vars

Next == \/ \E r \in Requests : Arrive(r) \/ Handle(r) \/ Raise(r) \/ LogFail(r)
        \/ Quiescent

Spec == Init /\ [][Next]_vars
-------------------------------------------------------------------------------
\* A key changes owner never, and its status only by a request with a key of
\* its owner; and nobody else mints a key for a publisher that is registered -
\* a second registration of it, which only the unique slug refuses, included.
\* All of it even when two keys share the prefix they are looked up by (keys
\* are scoped to the authenticated publisher).
OnlyOwnerChangesKey ==
    [][\A k \in Keys :
          /\ owner[k] \in {Nil, owner'[k]}
          /\ owner'[k] # owner[k] \/ status'[k] # status[k] =>
               \/ ~Joined(owner'[k])
               \/ \E r \in Requests : /\ pc[r] # pc'[r] /\ req[r].token \in Keys
                                      /\ owner[req[r].token] = owner'[k]]_vars

\* Usage is charged to the key the client presented and to no other, and a
\* key that was charged is stamped as used.
UsageIsAttributed ==
    \A entry \in log : /\ entry.key = req[entry.by].token
                       /\ entry.key \in stamped

\* A publisher with no active key and no authenticated request in flight is
\* locked out for good: no sequence of calls brings a key of it back
\* (every route of /v1/keys needs an active one).
InFlight(p) == \E r \in Requests : pc[r] \in {"authed", "found"} /\ caller[r] = p

LockedOut(p) == /\ Joined(p) /\ ~InFlight(p)
                /\ \A k \in Keys : owner[k] = p => status[k] # "active"

LockoutIsPermanent == [][\A p \in Publishers : LockedOut(p) => LockedOut(p)']_vars

\* A request that was authenticated and answered is charged to its key, unless
\* its logging failed, a request (itself perhaps) disabled or deleted the key
\* before the second lookup, or a key with the same prefix made that lookup
\* ambiguous (the middleware authenticates again after the handler).
Charged(r) == \E entry \in log : entry.by = r /\ entry.key = req[r].token

UsageIsRecorded ==
    \A r \in Requests :
       pc[r] = "done" /\ caller[r] # Nil /\ reply[r] # "500" =>
          \/ Charged(r)
          \/ \E q \in Requests : /\ reply[q] \in {"200", "204", "500"}
                                /\ req[q].target = req[r].token
                                /\ \/ req[q].op = "delete"
                                   \/ req[q].op = "set" /\ req[q].status = "disabled"
          \/ \E k \in Keys : /\ k # req[r].token /\ status[k] # Nil
                             /\ PrefixOf[k] = PrefixOf[req[r].token]

\* What the code says of itself and an interleaving breaks: deleting a key
\* cannot be undone (delete_api_key), so that it is never active or disabled
\* again.
DeletionIsFinal ==
    [][\A k \in Keys : status[k] = "deleted" => status'[k] = "deleted"]_vars
===============================================================================
