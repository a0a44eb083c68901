------------------------------ MODULE MCApiKeys ------------------------------
(***************************************************************************)
(* Small instances of ApiKeys for TLC: two publishers that use the         *)
(* registry, one that has yet to register, and a key k4 still to be minted *)
(* whose prefix is that of k1.                                             *)
(***************************************************************************)
EXTENDS ApiKeys, TLC

CONSTANTS p1, p2, p3, k1, k2, k3, k4, a, b, c

MCPrefixOf == (k1 :> a) @@ (k2 :> b) @@ (k3 :> c) @@ (k4 :> a)

\* p1 holds k1 and k2, p2 holds k3.
Database(first, second) ==
    [owner  |-> (k1 :> p1) @@ (k2 :> p1) @@ (k3 :> p2) @@ (k4 :> Nil),
     status |-> (k1 :> first) @@ (k2 :> second) @@ (k3 :> "active") @@ (k4 :> Nil)]

MCDatabases == {Database("active", "active"), Database("active", "disabled"),
                Database("disabled", "deleted")}

\* A PATCH that asks for the status it has read writes nothing; k2 is disabled,
\* so that the PATCH to write over its deletion is the one that asks for active.
DisabledDatabase == {Database("active", "disabled")}

Body(op, token, publisher, target, new) ==
    [op |-> op, token |-> token, publisher |-> publisher, target |-> target,
     status |-> new]

\* Both keys of p1 manage one another and themselves; p2 calls with its key
\* and tries those of p1.  Someone registers p3, someone p1, which is taken.
MCInputs ==
    {Body("set", k1, p1, k2, "active"), Body("set", k1, p1, k2, "disabled"),
     Body("set", k1, p1, k1, "disabled"), Body("set", k2, p1, k1, "active"),
     Body("set", k3, p2, k1, "active"), Body("delete", k2, p1, k1, "active"),
     Body("delete", k1, p1, k2, "active"), Body("call", k1, p1, k1, "active"),
     Body("public", k2, p1, k1, "active"), Body("create", k3, p2, k1, "active"),
     Body("join", Nil, p3, k1, "active"), Body("join", Nil, p1, k1, "active")}

RequestSymmetry == Permutations(Requests)
===============================================================================
