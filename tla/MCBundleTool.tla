---------------------------- MODULE MCBundleTool ----------------------------
(* Three versions, five documents, four hand-written resolution files. *)
EXTENDS BundleTool

MCVersions == 1..3
MCRoutes == 1..2
MCSelectors == {"", "x"}

Doc(v, i, s, rts) ==
    [version |-> v, ident |-> i, shape |-> s, routes |-> rts, accepted |-> TRUE]

\* Version 2 is refined from one route to two; version 3 sanitizes to the
\* identifier of version 1 in one of its documents.
MCDocs ==
    {Doc(1, "a", "s", {1, 2}),
     Doc(2, "b", "s", {1}), Doc(2, "b", "t", {1, 2}),
     Doc(3, "c", "s", {1, 2}), Doc(3, "a", "t", {1, 2}),
     [Doc(3, "c", "s", {1}) EXCEPT !.accepted = FALSE]}

D1 == Doc(1, "a", "s", {1, 2})
D2 == Doc(2, "b", "t", {1, 2})

MCCommitted ==
    {<<Absent, Absent, Absent>>, <<D1, D2, Absent>>}

Rule(v, sel, target, errs) ==
    [version |-> v, sel |-> sel, kind |-> "transform", target |-> target, errs |-> errs]

MCEdits ==
    {[rules |-> <<Rule(2, "", 0, TRUE)>>, marker |-> TRUE],
     [rules |-> <<Rule(2, "x", 3, FALSE), Rule(2, "", 0, FALSE)>>, marker |-> FALSE],
     [rules |-> <<Rule(2, "", 1, FALSE)>>, marker |-> FALSE],
     [rules |-> <<[Rule(1, "", 0, FALSE) EXCEPT !.kind = "route"]>>, marker |-> FALSE]}
=============================================================================
