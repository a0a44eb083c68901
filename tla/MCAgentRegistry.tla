--------------------------- MODULE MCAgentRegistry ---------------------------
(***************************************************************************)
(* Small instances of AgentRegistry for TLC.                               *)
(***************************************************************************)
EXTENDS AgentRegistry, TLC

CONSTANTS p1, p2, s1, s2, v1, v2, v3

Register(p, s, v) ==
    [op |-> "register", caller |-> p, owner |-> p, slug |-> s, version |-> v,
     status |-> "active", lists |-> Kinds]

Update(c, p, s, v, st, ls) ==
    [op |-> "update", caller |-> c, owner |-> p, slug |-> s, version |-> v,
     status |-> st, lists |-> ls]

Archive(c, p, s) ==
    [op |-> "archive", caller |-> c, owner |-> p, slug |-> s, version |-> Nil,
     status |-> Nil, lists |-> {}]

\* Registrations that meet in a name or in a short id, one outsider, and an
\* end to the agent they meet in.
RaceInputs ==
    {Register(p1, s1, v1), Register(p1, s2, v1), Register(p2, s1, v1),
     Update(p1, p1, s1, v2, Nil, {}), Update(p2, p1, s1, v2, Nil, Kinds),
     Archive(p1, p1, s1)}

\* One agent, and writers whose copies of it go stale.
StaleInputs ==
    {Register(p1, s1, v1),
     Update(p1, p1, s1, v2, Nil, {"capabilities"}),
     Update(p1, p1, s1, v3, "active", {}),
     Update(p1, p1, s1, v1, "deprecated", Kinds),
     Archive(p1, p1, s1)}

RequestSymmetry == Permutations(Requests)
===============================================================================
