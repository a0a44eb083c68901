------------------------------ MODULE MCTagStore ------------------------------
(***************************************************************************)
(* A small instance of TagStore for TLC: two agents and two tags, taken in *)
(* one order by most requests and in the other by one, a name spelled in   *)
(* two ways, and a request that removes all tags.                          *)
(***************************************************************************)
EXTENDS TagStore

CONSTANTS a1, a2, py, ml, PY

MCStored == [s \in Spellings |-> IF s = PY THEN py ELSE s]

Tagging(agent, list) == [agent |-> agent, tags |-> list]

MCBodies ==
    {Tagging(a1, <<py, ml>>), Tagging(a1, <<>>),
     Tagging(a2, <<PY, ml>>), Tagging(a2, <<ml, PY, py>>)}
===============================================================================
