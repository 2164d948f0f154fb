--------------------------- MODULE BundleTheorems ---------------------------
(***************************************************************************)
(* What the selector rules and the lookup of bundle.go guarantee, for      *)
(* every set of versions, routes and selector values.                      *)
(***************************************************************************)
EXTENDS Bundle, TLAPS

\* bundle.go:265-269, 454-458: Load's pairwise test on two rules is exact.  It
\* holds if and only if some request would match both, so Load refuses neither
\* too little (an ambiguous request) nor too much (rules no request confuses).
THEOREM OverlapIsExact ==
    ASSUME NEW a \in Selectors, NEW b \in Selectors
    PROVE  selectorOverlap(a, b) <=>
              \E request \in Selectors :
                  selectorMatches(a, request) /\ selectorMatches(b, request)
<1>1. ASSUME selectorOverlap(a, b)
      PROVE  \E request \in Selectors :
                 selectorMatches(a, request) /\ selectorMatches(b, request)
  <2> DEFINE axis(x, y) == IF x = "" THEN y ELSE x
             request == [profile |-> axis(a.profile, b.profile),
                         tenant  |-> axis(a.tenant, b.tenant),
                         cohort  |-> axis(a.cohort, b.cohort)]
  <2>1. request \in Selectors
    BY DEF Selectors
  <2>2. selectorMatches(a, request) /\ selectorMatches(b, request)
    BY <1>1 DEF selectorOverlap, selectorMatches
  <2> QED BY <2>1, <2>2
<1>2. ASSUME NEW request \in Selectors,
             selectorMatches(a, request), selectorMatches(b, request)
      PROVE  selectorOverlap(a, b)
  BY <1>2 DEF selectorOverlap, selectorMatches
<1> QED BY <1>1, <1>2

\* bundle.go:242-263 with the overlap refusal of 395-412: the rule a request
\* matches decides its contract wherever the rule stands in resolution.yaml.
THEOREM LookupIgnoresRuleOrder ==
    ASSUME NEW b, WellFormed(b), NEW rt \in Routes, NEW v \in Versions,
           NEW sel \in Selectors, Canonical(v, rt) \in b.ids,
           NEW i \in DOMAIN b.variants[Canonical(v, rt)],
           selectorMatches(b.variants[Canonical(v, rt)][i].sel, sel)
    PROVE  Lookup(b, rt, v, sel) = b.variants[Canonical(v, rt)][i]
<1> DEFINE c == Canonical(v, rt)
           hits == {k \in DOMAIN b.variants[c] : selectorMatches(b.variants[c][k].sel, sel)}
<1>1. selectorEmpty(c.sel)
  BY DEF selectorEmpty, Canonical
<1>2. \A k \in hits : k = i
  BY <1>1 DEF WellFormed, UnambiguousVariants
<1>3. i \in Nat
  BY <1>1 DEF WellFormed, SoundVariants
<1>4. hits = {i} /\ \A k \in hits : i <= k
  BY <1>2, <1>3
<1> QED BY <1>4 DEF Lookup

\* bundle.go:242-263: on a bundle Load returned, Lookup answers with a contract
\* of the version and the route it was asked for, or with none.
THEOREM LookupIsBound ==
    ASSUME NEW b, WellFormed(b), NEW rt \in Routes, NEW v \in Versions,
           NEW sel \in Selectors
    PROVE  \/ Lookup(b, rt, v, sel) = NoContract
           \/ /\ Lookup(b, rt, v, sel) \in b.ids
              /\ Lookup(b, rt, v, sel).version = v
              /\ Lookup(b, rt, v, sel).route = rt
<1> DEFINE c == Canonical(v, rt)
           hits == {i \in DOMAIN b.variants[c] : selectorMatches(b.variants[c][i].sel, sel)}
<1>1. CASE c \notin b.ids
  BY <1>1 DEF Lookup
<1>2. CASE c \in b.ids /\ hits = {}
  BY <1>2 DEF Lookup, Canonical
<1>3. CASE c \in b.ids /\ hits # {}
  <2>1. selectorEmpty(c.sel) /\ c.version = v /\ c.route = rt
    BY DEF selectorEmpty, Canonical
  <2>2. /\ b.variants[c] \in Seq(b.ids)
        /\ \A i \in DOMAIN b.variants[c] :
              b.variants[c][i].version = v /\ b.variants[c][i].route = rt
    BY <1>3, <2>1 DEF WellFormed, SoundVariants
  <2>3. PICK i \in hits : TRUE
    BY <1>3
  <2>4. Lookup(b, rt, v, sel) = b.variants[c][i]
    BY <1>3, <2>3, LookupIgnoresRuleOrder
  <2> QED BY <2>2, <2>3, <2>4
<1> QED BY <1>1, <1>2, <1>3
=============================================================================
