------------------------------- MODULE MCListing -------------------------------
(***************************************************************************)
(* A small instance of Listing for TLC: agents of two publishers, pages of *)
(* one to three rows, and a card that a query for a2a finds twice.         *)
(***************************************************************************)
EXTENDS Listing

CONSTANTS a1, a2, a3, pub1, pub2

MCPublisherOf == [a \in Agents |-> IF a = a3 THEN pub2 ELSE pub1]

\* "PY" is asked for as "py"; a trailing blank is not stripped from a query.
MCLower == [t \in {"PY", "py "} |-> IF t = "PY" THEN "py" ELSE t]

Card(s, eps, ts, name, description) ==
    [status |-> s, endpoints |-> eps, tags |-> ts, name |-> name,
     description |-> description]

MCCards ==
    {Card("active", <<"a2a", "a2a">>, {"py"}, {}, {"review"}),
     Card("active", <<"rest", "a2a">>, {}, {"review"}, {"review"}),
     Card("active", <<>>, {"py", "ml"}, {"review"}, {}),
     Card("archived", <<"a2a">>, {"py"}, {}, {"review"})}

Find(s, pub, proto, tag, text, n) ==
    [status |-> s, publisher |-> pub, protocol |-> proto, tag |-> tag,
     text |-> text, perPage |-> n]

\* Nil is a parameter left out; the status is active unless it is given empty.
MCQueries ==
    {Find("active", Nil, Nil, Nil, Nil, 1),
     Find("active", Nil, "a2a", Nil, Nil, 2),
     Find(Nil, pub1, "a2a", "PY", "review", 3),
     Find("active", Nil, Nil, Nil, "review", 3),
     Find("active", pub1, Nil, "PY", Nil, 3),
     Find(Nil, Nil, Nil, "py ", Nil, 2)}
===============================================================================
