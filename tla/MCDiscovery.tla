----------------------------- MODULE MCDiscovery -----------------------------
(***************************************************************************)
(* Small instances of Discovery for TLC.                                   *)
(***************************************************************************)
EXTENDS Discovery

CodeReview == <<"code", "review">>
CodeFix == <<"code", "fix">>
DataReview == <<"data", "review">>
CodeReviewDeep == <<"code", "review", "deep">>
MCCodes == {CodeReview, CodeFix, DataReview, CodeReviewDeep}

Can(code) == [code |-> code, accepts |-> {"text"}]
CanNot(code) == [code |-> code, accepts |-> {}]
At(protocol, auth) == [protocol |-> protocol, auth |-> auth]
Card(status, capabilities, endpoints) ==
    [status |-> status, capabilities |-> capabilities, endpoints |-> endpoints]

MCCards ==
    {Card("active", {Can(CodeReview)}, {At("a2a", "bearer")}),
     Card("active", {CanNot(CodeReview), CanNot(CodeFix)},
                    {At("a2a", "bearer"), At("rest", Nil)}),
     Card("active", {Can(DataReview)}, {At("a2a", Nil), At("rest", "bearer")}),
     Card("active", {Can(CodeFix), Can(CodeReview)}, {}),
     Card("active", {CanNot(CodeReviewDeep)}, {At("a2a", Nil)}),
     Card("deprecated", {Can(CodeReview)}, {At("a2a", "bearer")}),
     Card("archived", {Can(CodeReview)}, {At("rest", "bearer")})}

Ask4(need, want, proto, auth, ioIn, limit, minScore) ==
    [need |-> need, want |-> want, proto |-> proto, auth |-> auth,
     ioIn |-> ioIn, limit |-> limit, minScore |-> minScore]

\* One query per filter and their combinations, with a limit below, at and
\* above the number of agents.
MCQueries ==
    {Ask4(<<<<"code">>>>, <<CodeFix>>, Nil, {}, Nil, 1, 0),
     Ask4(<<<<"code">>>>, <<CodeFix, CodeReview, DataReview>>, Nil, {}, Nil, 3, 81),
     Ask4(<<<<"data">>>>, <<>>, "a2a", {"bearer"}, Nil, 2, 0),
     Ask4(<<CodeReview>>, <<>>, "a2a", {}, Nil, 1, 0),
     Ask4(<<<<"code">>, CodeReview>>, <<CodeFix>>, "a2a", {"bearer"}, "text", 2, 70)}

AgentSymmetry == Permutations(Agents)
===============================================================================
