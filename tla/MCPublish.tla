------------------------------ MODULE MCPublish ------------------------------
(***************************************************************************)
(* A small instance of Publish for TLC: two users of one publisher, two    *)
(* versions of its manifest, and a copy of it that names another one.      *)
(***************************************************************************)
EXTENDS Publish, TLC

CONSTANTS p1, p2, s1, v1, v2, c1, c2

MCKeyOf == (c1 :> p1) @@ (c2 :> p1)

Card(publisher, version, status) ==
    [publisher |-> publisher, slug |-> s1, version |-> version, status |-> status]

MCManifests == {Card(p1, v1, "active"), Card(p1, v2, "deprecated"),
                Card(p2, v1, "active")}

MCInputs == UNION {{PostBody(c, m), PatchBody(c, m)} : c \in Clients, m \in MCManifests}

ClientSymmetry == Permutations(Clients)
===============================================================================
