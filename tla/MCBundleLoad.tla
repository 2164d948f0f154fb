---------------------------- MODULE MCBundleLoad ----------------------------
(* Directories of up to three layers with up to three overrides. *)
EXTENDS BundleLoad

MCVersions == {"v1", "v2", "v3"}
MCRoutes == {"POST /a", "GET /b"}
MCSelValues == {"", "x", "y"}
MCMessages == {"m1", "m2", "m3", "e1"}
MCDescs == {"Empty", "d1", "d2"}
MCTargets == {"", "t1"}

File(n, p, m) == [name |-> n, pkg |-> p, messages |-> m]

Entry(v, rt, m, errs) ==
    [version |-> v, route |-> rt, requestMessage |-> m, responseMessage |-> m,
     errorMessages |-> errs, strict |-> FALSE, filled |-> TRUE]

Layer(fs, cs) == [intact |-> TRUE, files |-> fs, contracts |-> cs]

Shared == File("common", "lib", [m \in {"e1"} |-> "d1"])
F1 == File("f1", "gen.v1", [m \in {"m1"} |-> "d1"])
F2 == File("f2", "gen.v2", [m \in {"m2"} |-> "d2"])
F3 == File("f3", "gen.v3", [m \in {"m3"} |-> "d1"])

L1 == Layer({Shared, F1},
        <<Entry("v1", "POST /a", "m1", [s \in {404} |-> "e1"]), Entry("v1", "GET /b", "m1", <<>>)>>)
L2 == Layer({Shared, F2}, <<Entry("v2", "POST /a", "m2", [s \in {404} |-> "e1"])>>)
L3 == Layer({F3},
        <<Entry("v3", "POST /a", "m3", <<>>), Entry("v3", "GET /b", "m3", <<>>)>>)

\* Layer lists whose overrides are varied.
GoodLayers == {<<L1, L2>>, <<L1, L2, L3>>, <<L2, L3>>}

\* Layer lists that Load refuses whatever the overrides say.
BadLayers ==
    {<<>>,
     <<[L1 EXCEPT !.intact = FALSE]>>,
     <<L1, [L2 EXCEPT !.contracts = <<>>]>>,
     <<L1, L1>>,
     <<L2, [L3 EXCEPT !.files = {File("f2", "gen.v3", [m \in {"m3"} |-> "d1"])}]>>,
     <<L2, [L3 EXCEPT !.files = {File("f3", "gen.v2", [m \in {"m3"} |-> "d1"])}]>>,
     <<[L3 EXCEPT !.files = {F1}]>>,
     <<[L2 EXCEPT !.contracts[1].filled = FALSE]>>,
     <<[L2 EXCEPT !.contracts[1].errorMessages = [s \in {204} |-> "e1"]]>>,
     <<[L2 EXCEPT !.contracts[1].errorMessages = [s \in {302} |-> "e1"]]>>}

Sel(p, t) == [profile |-> p, tenant |-> t, cohort |-> ""]

Transform(v, sel, target) ==
    [version |-> v, sel |-> sel, kind |-> "transform", target |-> target,
     requestOps |-> TRUE, responseOps |-> FALSE, errorResponseOps |-> {},
     fits |-> MCRoutes, complete |-> TRUE]

Route(v, sel) == [Transform(v, sel, "t1") EXCEPT !.kind = "route"]

Overrides ==
    {Transform("v1", NoSelectors, "v2"),
     Transform("v1", NoSelectors, "v3"),
     Transform("v2", NoSelectors, "v3"),
     Transform("v3", NoSelectors, "v1"),
     Transform("v2", NoSelectors, "v2"),
     Route("v1", NoSelectors),
     Route("v3", NoSelectors),
     Transform("v1", Sel("x", ""), "v3"),
     Transform("v1", Sel("", "x"), ""),
     Route("v1", Sel("y", "")),
     Route("v1", Sel("x", "y")),
     Transform("v2", Sel("x", ""), "v1"),
     [Transform("v2", Sel("y", ""), "") EXCEPT !.errorResponseOps = {404}],
     [Transform("v3", Sel("y", ""), "") EXCEPT !.errorResponseOps = {404}],
     [Transform("v1", Sel("y", "y"), "") EXCEPT !.fits = {"POST /a"}],
     [Route("v2", Sel("x", "x")) EXCEPT !.complete = FALSE]}

OverrideLists == UNION {[1..n -> Overrides] : n \in 0..3}

Dir(ls, ovs) == [layers |-> ls, overrides |-> ovs]

MCDirs == {Dir(ls, ovs) : ls \in GoodLayers, ovs \in OverrideLists}
          \cup {Dir(ls, <<>>) : ls \in BadLayers}
=============================================================================
