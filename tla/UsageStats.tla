------------------------------ MODULE UsageStats ------------------------------
(***************************************************************************)
(* Reading the usage of one API key while it is being used: the summary    *)
(* and the log pages of api_key_service.py, over the log that the          *)
(* middleware of usage.py appends to.  The requests that read the usage    *)
(* are logged like any other, so that a client that pages through the log  *)
(* of the key it calls with makes the log longer with every page.          *)
(* Authentication and the table of keys are ApiKeys.                       *)
(***************************************************************************)
EXTENDS Naturals, Sequences, FiniteSets, FiniteSetsExt

CONSTANTS
    Requests,
    Roles,         \* what the clients may be doing
    Endpoints,     \* pairs of a path and a method
    PerPage,       \* the page size the walking client asks for
    TopLimit,      \* endpoints listed in a summary (5 in the code)
    MaxTime,       \* bound on the clock
    InitialLogs,   \* the logs the server may start on
    Nil

\* "call": one request that the key is used for.  "summary": one for the
\* usage summary.  "walk": a request for each page of the log.
ASSUME RolesAssumption == Roles \subseteq [Requests -> {"call", "summary", "walk"}]

ASSUME BoundsAssumption ==
    /\ PerPage \in Nat \ {0} /\ TopLimit \in Nat \ {0}
    /\ MaxTime \in Nat /\ Nil \notin Nat
    /\ IsFiniteSet(Requests) /\ IsFiniteSet(Endpoints)

Rows == [at : 0..MaxTime, endpoint : Endpoints]

ASSUME LogsAssumption == \A l \in InitialLogs : l \in Seq(Rows)

VARIABLES
    role,
    clock,       \* datetime.now(timezone.utc)
    log,         \* api_key_usage_logs of the key, in the order of commits
    lastUsed,    \* api_keys.last_used_at
    pc,
    stamp,       \* the time a request's logging took from the clock
    seenUsed,    \* last_used_at as the session first read it
    total,       \* what the first statement counted
    top,         \* what the second one returned: endpoint to calls
    page,        \* the page the walking client asks for next
    more,        \* it was given a full page, and will ask for that one
    got,         \* the rows it was given so far
    start        \* history: the rows stored when its walk began

tables == <<log, lastUsed>>
reading == <<seenUsed, total, top, page, more, got, start>>
vars == <<role, clock, tables, pc, stamp, reading>>

Ids == DOMAIN log

TypeOK ==
    /\ role \in Roles
    /\ clock \in 0..MaxTime
    /\ log \in Seq(Rows)
    /\ lastUsed \in 0..MaxTime \cup {Nil}
    /\ pc \in [Requests -> {"idle", "count", "read", "served", "stamped",
                            "done", "failed"}]
    /\ stamp \in [Requests -> 0..MaxTime \cup {Nil}]
    /\ seenUsed \in [Requests -> 0..MaxTime \cup {Nil}]
    /\ total \in [Requests -> 0..Len(log)]
    /\ DOMAIN top = Requests
    /\ \A r \in Requests : /\ DOMAIN top[r] \subseteq Endpoints
                           /\ Cardinality(DOMAIN top[r]) <= TopLimit
    /\ page \in [Requests -> Nat \ {0}]
    /\ more \in [Requests -> BOOLEAN]
    /\ got \in [Requests -> SUBSET Ids]
    /\ start \in [Requests -> SUBSET Ids]

Init ==
    /\ role \in Roles
    /\ log \in InitialLogs
    /\ clock = Max({log[i].at : i \in DOMAIN log} \cup {0})
    /\ lastUsed = IF log = <<>> THEN Nil ELSE log[Len(log)].at
    /\ pc = [r \in Requests |-> IF role[r] = "call" THEN "served" ELSE "idle"]
    /\ stamp = [r \in Requests |-> Nil]
    /\ seenUsed = [r \in Requests |-> Nil]
    /\ total = [r \in Requests |-> 0]
    /\ top = [r \in Requests |-> <<>>]
    /\ page = [r \in Requests |-> 1]
    /\ more = [r \in Requests |-> FALSE]
    /\ got = [r \in Requests |-> {}]
    /\ start = [r \in Requests |-> {}]
-------------------------------------------------------------------------------
Goto(r, label) == pc' = [pc EXCEPT ![r] = label]

\* get_key: the session keeps the row of the key, last_used_at included.
GetKey(r) ==
    /\ pc[r] = "idle"
    /\ Goto(r, "count")
    /\ seenUsed' = [seenUsed EXCEPT ![r] = lastUsed]
    /\ start' = [start EXCEPT ![r] = IF page[r] = 1 THEN Ids ELSE @]
    /\ UNCHANGED <<role, clock, tables, stamp, total, top, page, more, got>>

\* The first statement of both readers counts the rows of the key.
CountRows(r) ==
    /\ pc[r] = "count"
    /\ Goto(r, "read")
    /\ total' = [total EXCEPT ![r] = Len(log)]
    /\ UNCHANGED <<role, clock, tables, stamp, seenUsed, top, page, more, got, start>>

Calls(e) == Cardinality({i \in Ids : log[i].endpoint = e})

\* Mutant: order_by("calls") without desc.
LeastCalled(n) ==
    LET used == {log[i].endpoint : i \in Ids}
    IN  {E \in kSubset(Min({n, Cardinality(used)}), used) :
            \A e \in E, f \in used \ E : Calls(e) <= Calls(f)}

\* GROUP BY endpoint, method ORDER BY calls DESC LIMIT n; ties in any order.
MostCalled(n) ==
    LET used == {log[i].endpoint : i \in Ids}
    IN  {E \in kSubset(Min({n, Cardinality(used)}), used) :
            \A e \in E, f \in used \ E : Calls(e) >= Calls(f)}

\* The second statement of get_usage_summary, which then answers.
TopEndpoints(r) ==
    /\ pc[r] = "read" /\ role[r] = "summary"
    /\ \E E \in MostCalled(TopLimit) :
         top' = [top EXCEPT ![r] = [e \in E |-> Calls(e)]]
    /\ Goto(r, "served")
    /\ UNCHANGED <<role, clock, tables, stamp, seenUsed, total, page, more, got, start>>

\* The n rows that ORDER BY called_at DESC puts first; ties in any order.
Newest(n) ==
    {A \in kSubset(Min({n, Len(log)}), Ids) :
        \A i \in A, j \in Ids \ A : log[i].at >= log[j].at}

\* Mutant: pages counted from 0.
OffsetFromZero(p) == p * PerPage

\* Mutant: an offset in pages.
OffsetInPages(p) == p - 1

Offset(p) == (p - 1) * PerPage

\* The client stops at the first page that is not full.
TurnPage(r, full) ==
    /\ more' = [more EXCEPT ![r] = full]
    /\ page' = [page EXCEPT ![r] = IF full THEN @ + 1 ELSE @]

\* The second statement of get_usage_logs, which then answers.
SelectPage(r) ==
    /\ pc[r] = "read" /\ role[r] = "walk"
    /\ \E skipped \in Newest(Offset(page[r])),
          read \in Newest(Offset(page[r]) + PerPage) :
         /\ skipped \subseteq read
         /\ got' = [got EXCEPT ![r] = @ \cup (read \ skipped)]
         /\ TurnPage(r, Cardinality(read \ skipped) = PerPage)
         /\ Goto(r, "served")
    /\ UNCHANGED <<role, clock, tables, stamp, seenUsed, total, top, start>>
-------------------------------------------------------------------------------
\* The response leaves once the middleware is done; a client with a full page
\* sends its next request.
Respond(r) == Goto(r, IF more[r] THEN "idle" ELSE "done")

\* Mutant: the row is built without called_at.
StampNothing(r) ==
    /\ pc[r] = "served"
    /\ Goto(r, "stamped")
    /\ UNCHANGED <<role, clock, tables, stamp, reading>>

\* _log_usage found the key of this log and takes the time.
Stamp(r) ==
    /\ pc[r] = "served"
    /\ Goto(r, "stamped")
    /\ stamp' = [stamp EXCEPT ![r] = clock]
    /\ UNCHANGED <<role, clock, tables, reading>>

\* Mutant: last_used_at is committed on its own, before the row.
LogCallInTwo(r) ==
    /\ pc[r] = "stamped"
    /\ \/ /\ lastUsed # stamp[r]
          /\ lastUsed' = stamp[r] /\ UNCHANGED <<log, pc, stamp>>
       \/ /\ lastUsed = stamp[r]
          /\ \E e \in Endpoints :
                log' = Append(log, [at |-> stamp[r], endpoint |-> e])
          /\ stamp' = [stamp EXCEPT ![r] = Nil]
          /\ Respond(r) /\ UNCHANGED lastUsed
    /\ UNCHANGED <<role, clock, reading>>

\* The row and last_used_at, in one transaction.  Transactions commit in any
\* order, whatever times they took.
LogCall(r) ==
    /\ pc[r] = "stamped"
    /\ \E e \in Endpoints : log' = Append(log, [at |-> stamp[r], endpoint |-> e])
    /\ lastUsed' = stamp[r]
    /\ stamp' = [stamp EXCEPT ![r] = Nil]
    /\ Respond(r)
    /\ UNCHANGED <<role, clock, reading>>

\* The request came with another key, or its logging failed: no row here.
LogNothing(r) ==
    /\ pc[r] \in {"served", "stamped"}
    /\ stamp' = [stamp EXCEPT ![r] = Nil]
    /\ Respond(r)
    /\ UNCHANGED <<role, clock, tables, reading>>

\* The handler raises, or get_key finds the key deleted (404).  Neither adds
\* a row to this log, and the client gives up.
Refuse(r) ==
    /\ pc[r] \in {"idle", "count", "read"}
    /\ Goto(r, "failed")
    /\ UNCHANGED <<role, clock, tables, stamp, reading>>

Tick == /\ clock < MaxTime
        /\ clock' = clock + 1
        /\ UNCHANGED <<role, tables, pc, stamp, reading>>

Quiescent == (\A r \in Requests : pc[r] \in {"done", "failed"}) /\ UNCHANGED vars

Next == \/ \E r \in Requests :
              \/ GetKey(r) \/ CountRows(r) \/ TopEndpoints(r) \/ SelectPage(r)
              \/ Stamp(r) \/ LogCall(r) \/ LogNothing(r) \/ Refuse(r)
        \/ Tick \/ Quiescent

Spec == Init /\ [][Next]_vars
-------------------------------------------------------------------------------
Summarized(r) == role[r] = "summary" /\ pc[r] \in {"served", "stamped", "done"}

SumOf(f) == MapThenSumSet(LAMBDA x : f[x], DOMAIN f)

\* The breakdown of a summary, read after its total, accounts for its share
\* of at least that total: all of it when every endpoint is listed.  (The
\* two statements of get_usage_summary see different logs.)
BreakdownCoversTotal ==
    \A r \in Requests : Summarized(r) =>
       total[r] * Min({TopLimit, Cardinality(Endpoints)})
          <= Cardinality(Endpoints) * SumOf(top[r])

\* A summary that says the key was used has counted a request, although
\* last_used_at was read a statement earlier, by the authentication if the key
\* is the caller's own.
UsedMeansCounted ==
    \A r \in Requests : Summarized(r) /\ seenUsed[r] # Nil => total[r] > 0

\* Paging by offset through a log that grows meanwhile may repeat rows and
\* misses none that was stored when the walk began, provided no other row has
\* the same called_at (nothing else orders them) and the client goes on until
\* a page is short, whatever the `total` of a page says.
Untied(i) == \A j \in Ids \ {i} : log[j].at # log[i].at

WalkMissesNothing ==
    \A r \in Requests : role[r] = "walk" /\ pc[r] \in {"served", "stamped", "done"} /\ ~more[r] =>
       \A i \in start[r] : Untied(i) => i \in got[r]

\* A client that walks the log of the key it calls with adds a row for each
\* page it is given, and still comes to the end if no other walks it: pages of
\* two rows or more gain on the log.
WalksAlone(r) == role[r] = "walk" /\ \A q \in Requests \ {r} : role[q] # "walk"

WalkIsShort ==
    \A r \in Requests : WalksAlone(r) =>
       (page[r] - 1) * (PerPage - 1) <= Cardinality(start[r]) + Cardinality(Requests) - 1
===============================================================================
