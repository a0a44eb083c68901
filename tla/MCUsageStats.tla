----------------------------- MODULE MCUsageStats -----------------------------
(***************************************************************************)
(* Small instances of UsageStats for TLC: one client reads the usage, in   *)
(* one way or the other, and the others use the key meanwhile.             *)
(***************************************************************************)
EXTENDS UsageStats, TLC

CONSTANTS reader, c1, c2, e1, e2

Reading(how) == (reader :> how) @@ (c1 :> "call") @@ (c2 :> "call")

MCRoles == {Reading("summary"), Reading("walk")}

CallSymmetry == Permutations({c1, c2})

Entry(t, e) == [at |-> t, endpoint |-> e]

\* No row yet; one page; two, with rows out of order.
MCInitialLogs ==
    {<<>>,
     <<Entry(0, e1), Entry(1, e2)>>,
     <<Entry(0, e1), Entry(2, e2), Entry(1, e1)>>}
===============================================================================
