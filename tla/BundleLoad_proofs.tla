-------------------------- MODULE BundleLoad_proofs --------------------------
(***************************************************************************)
(* Proofs about module BundleLoad: whatever directories Load is given, the *)
(* bundle it returns can be served from.                                   *)
(***************************************************************************)
EXTENDS BundleLoad, TLAPS, FiniteSetTheorems, WellFoundedInduction

-----------------------------------------------------------------------------
(* The inductive invariant *)

AllRules == UNION {{d.overrides[i] : i \in DOMAIN d.overrides} : d \in Dirs}

\* The selector rules kept for a version are rules of it, and pairwise exclude
\* each other.
Exclusive(v, rs) ==
    /\ \A i \in DOMAIN rs : rs[i].version = v /\ ~ selectorEmpty(rs[i].sel)
    /\ \A i, j \in DOMAIN rs : selectorOverlap(rs[i].sel, rs[j].sel) => i = j

RulesKept ==
    /\ fallback \in [Versions -> AllRules \cup {NoRule}]
    /\ rules \in [Versions -> Seq(AllRules)]
    /\ \A v \in Versions : Exclusive(v, rules[v])

\* The definitions of BundleLoad on a directory, on contracts and rules given as
\* values.
ValidIn(d, yc) ==
    /\ yc.filled
    /\ \A s \in DOMAIN yc.errorMessages : s \notin 200..299 /\ ~ IsCapabilityCeiling(s)
    /\ {yc.requestMessage, yc.responseMessage}
          \cup {yc.errorMessages[s] : s \in DOMAIN yc.errorMessages}
          \subseteq DOMAIN MergedMessages(d)

RuleIn(fb, rs, id) ==
    IF selectorEmpty(id.sel) THEN fb[id.version]
    ELSE rs[id.version][CHOOSE i \in DOMAIN rs[id.version] : rs[id.version][i].sel = id.sel]

IdsOf(cs, rs) ==
    {id \in ContractIds :
        /\ Canonical(id.version, id.route) \in DOMAIN cs
        /\ selectorEmpty(id.sel) \/ \E i \in DOMAIN rs[id.version] : rs[id.version][i].sel = id.sel}

ContractsOf(cs, rs, fb) ==
    [id \in IdsOf(cs, rs) |->
        applyResolution(cs[Canonical(id.version, id.route)], RuleIn(fb, rs, id))]

\* Every contract kept is one a layer ships, under its own name.
Ships(d, p, id, c) ==
    LET yc == d.layers[p[1]].contracts[p[2]]
    IN  ValidIn(d, yc) /\ id = Canonical(yc.version, yc.route) /\ c = FreshContract(yc)

RawKept == \A id \in DOMAIN raw : \E p \in AllContracts(dir) : Ships(dir, p, id, raw[id])

Installed == contract = ContractsOf(raw, rules, fallback)

\* In the contracts cs, a targets b.
Leads(cs, a, b) ==
    cs[a].transformTarget # "" /\ b = Canonical(cs[a].transformTarget, a.route)

\* Contracts of one route that lead from id one to the next.
IsPath(cs, p, id) ==
    /\ p \in Seq(DOMAIN cs) /\ Len(p) > 0 /\ p[1] = id
    /\ \A i \in 1..Len(p) : p[i].route = id.route
    /\ \A i \in 1..Len(p) - 1 : Leads(cs, p[i], p[i + 1])

OneVersionEach(p) == \A i, j \in DOMAIN p : p[i].version = p[j].version => i = j

\* The links of a walk and the contract it has come to are a path.
OnTheWay(cs, w) ==
    /\ w \in [from : DOMAIN cs, cur : DOMAIN cs, links : Seq(DOMAIN cs)]
    /\ IsPath(cs, Append(w.links, w.cur), w.from)
    /\ OneVersionEach(w.links)

SoundChain(cs, ch, id) ==
    /\ IsPath(cs, ch, id) /\ OneVersionEach(ch)
    /\ cs[ch[Len(ch)]].transformTarget = ""

ChainsKept ==
    /\ walk = NoWalk \/ OnTheWay(contract, walk)
    /\ DOMAIN chain \subseteq DOMAIN contract
    /\ \A id \in DOMAIN chain : SoundChain(contract, chain[id], id)

Reading == pc \in {"layerDirs", "resolution", "contracts", "failed"}

Resolving ==
    /\ pc \in {"chains", "loaded", "failed"}
    /\ pc = "loaded" => DOMAIN chain = DOMAIN contract
    /\ pc = "failed" => Dangling \/ HasCycle

IInv ==
    /\ dir \in Dirs
    /\ next \in Nat \ {0}
    /\ RulesKept
    /\ RawKept
    /\ \/ Reading /\ contract = <<>> /\ chain = <<>> /\ walk = NoWalk
       \/ Resolving /\ Installed /\ ChainsKept

-----------------------------------------------------------------------------
(***************************************************************************)
(* The loop over the entries of all layers, one after the other, comes to  *)
(* an entry for every position.                                            *)
(***************************************************************************)

LEMMA LeastNumber ==
    ASSUME NEW S \in SUBSET Nat, S # {}
    PROVE  \E n \in S : \A m \in S : n <= m
<1> DEFINE R == OpToRel(<, Nat)
<1>1. PICK n \in S : \A m \in S : ~ (<<m, n>> \in R)
  <2>1. IsWellFoundedOn(R, Nat)
    BY NatLessThanWellFounded
  <2> HIDE DEF R
  <2> QED
    BY <2>1, WFMin
<1>2. \A m \in S : ~ (m < n)
  BY <1>1 DEF OpToRel
<1> QED
  BY <1>2

\* p is entry q or comes before it.
UpTo(p, q) == p[1] < q[1] \/ (p[1] = q[1] /\ p[2] <= q[2])

Down(S, p) == {q \in S : UpTo(q, p)}

LEMMA FirstEntry ==
    ASSUME NEW S \in SUBSET (Nat \X Nat), S # {}
    PROVE  \E p \in S : \A q \in S : UpTo(p, q)
<1> DEFINE A == {q[1] : q \in S}
<1>1. PICK a \in A : \A x \in A : a <= x
  <2>1. A \in SUBSET Nat /\ A # {}
    OBVIOUS
  <2> HIDE DEF A
  <2> QED
    BY <2>1, LeastNumber
<1> DEFINE B == {q[2] : q \in {r \in S : r[1] = a}}
<1>2. PICK b \in B : \A x \in B : b <= x
  <2>1. B \in SUBSET Nat /\ B # {}
    OBVIOUS
  <2> HIDE DEF B
  <2> QED
    BY <2>1, LeastNumber
<1>3. PICK p \in S : p[1] = a /\ p[2] = b
  OBVIOUS
<1>4. ASSUME NEW q \in S PROVE UpTo(p, q)
  <2>1. q[1] \in A /\ q[1] \in Nat /\ a \in Nat
    OBVIOUS
  <2>2. q[1] = a => b <= q[2]
    BY <1>2
  <2> QED
    BY <1>1, <1>3, <2>1, <2>2 DEF UpTo
<1> QED
  BY <1>4

LEMMA EveryPosition ==
    ASSUME NEW S \in SUBSET (Nat \X Nat), IsFiniteSet(S),
           NEW n \in Nat, 1 <= n, n <= Cardinality(S)
    PROVE  \E p \in S : Cardinality(Down(S, p)) = n
<1> DEFINE Good(m) == \E p \in S : Cardinality(Down(S, p)) = m
           Bad == {m \in Nat : 1 <= m /\ m <= Cardinality(S) /\ ~ Good(m)}
<1>1. Cardinality(S) \in Nat
  BY FS_CardinalityType
<1>2. SUFFICES ASSUME Bad # {} PROVE FALSE
  OBVIOUS
<1>3. PICK m \in Bad : \A x \in Bad : m <= x
  <2>1. Bad \in SUBSET Nat
    OBVIOUS
  <2> HIDE DEF Bad
  <2> QED
    BY <1>2, <2>1, LeastNumber
<1>4. m \in Nat /\ 1 <= m /\ m <= Cardinality(S) /\ ~ Good(m)
  OBVIOUS
<1>5. CASE m = 1
  <2>1. S # {}
    BY <1>4, FS_EmptySet
  <2>2. PICK p \in S : \A q \in S : UpTo(p, q)
    BY <2>1, FirstEntry
  <2>3. Down(S, p) = {p}
    BY <2>2 DEF Down, UpTo
  <2> QED
    BY <1>4, <1>5, <2>3, FS_Singleton
<1>6. CASE m # 1
  <2>1. m - 1 \in Nat /\ 1 <= m - 1 /\ m - 1 <= Cardinality(S) /\ m - 1 \notin Bad
    BY <1>1, <1>3, <1>4, <1>6
  <2>2. PICK p \in S : Cardinality(Down(S, p)) = m - 1
    BY <2>1
  <2> DEFINE D == Down(S, p)
  <2>3. D \in SUBSET S /\ IsFiniteSet(D)
    BY FS_Subset DEF Down
  <2>4. S \ D # {}
    <3>1. Cardinality(D) # Cardinality(S)
      BY <1>1, <1>4, <2>2
    <3> HIDE DEF D
    <3> QED
      BY <2>3, <3>1
  <2>5. PICK r \in S \ D : \A q \in S \ D : UpTo(r, q)
    <3>1. S \ D \in SUBSET (Nat \X Nat)
      OBVIOUS
    <3> HIDE DEF D
    <3> QED
      BY <2>4, <3>1, FirstEntry
  <2>6. Down(S, r) = D \cup {r}
    <3>1. ~ UpTo(r, p)
      BY DEF Down
    <3>2. ASSUME NEW q \in S PROVE UpTo(q, r) <=> q \in D \/ q = r
      <4>1. /\ q \in Nat \X Nat /\ r \in Nat \X Nat /\ p \in Nat \X Nat
            /\ q \in D <=> UpTo(q, p)
        BY DEF Down
      <4>2. q \in D => UpTo(q, r)
        BY <3>1, <4>1 DEF UpTo
      <4>3. UpTo(r, r)
        BY <4>1 DEF UpTo
      <4>4. q \notin D /\ UpTo(q, r) => q = r
        <5> HIDE DEF D
        <5> QED
          BY <2>5, <4>1 DEF UpTo
      <4> QED
        BY <4>2, <4>3, <4>4
    <3> QED
      BY <2>3, <3>2 DEF Down
  <2>7. Cardinality(Down(S, r)) = m
    <3> HIDE DEF D
    <3>1. Cardinality(D) = m - 1
      BY <2>2 DEF D
    <3> QED
      BY <1>4, <2>3, <2>5, <2>6, <3>1, FS_AddElement
  <2> QED
    BY <1>4, <2>7
<1> QED
  BY <1>5, <1>6

\* The entries are finitely many pairs of numbers.
LEMMA ContractsListed ==
    ASSUME NEW d, IsDirectory(d)
    PROVE  AllContracts(d) \in SUBSET (Nat \X Nat) /\ IsFiniteSet(AllContracts(d))
<1> DEFINE n == Len(d.layers)
           L(i) == {i} \X DOMAIN d.layers[i].contracts
           T == {L(i) : i \in 1..n}
           f == [i \in 1..n |-> L(i)]
<1>1. n \in Nat /\ DOMAIN d.layers = 1..n
  BY DEF IsDirectory, IsList
<1>2. ASSUME NEW i \in 1..n
      PROVE  L(i) \in SUBSET (Nat \X Nat) /\ IsFiniteSet(L(i))
  <2>1. PICK k \in Nat : DOMAIN d.layers[i].contracts = 1..k
    BY <1>1 DEF IsDirectory, IsList
  <2>2. IsFiniteSet({i}) /\ IsFiniteSet(1..k)
    <3>1. 1 \in Int /\ k \in Int
      OBVIOUS
    <3> QED
      BY <3>1, FS_Singleton, FS_Interval
  <2>3. IsFiniteSet({i} \X (1..k))
    BY <2>2, FS_Product
  <2>4. {i} \X (1..k) \in SUBSET (Nat \X Nat)
    BY <1>1
  <2> QED
    BY <2>1, <2>3, <2>4
<1>3. f \in Surjection(1..n, T)
  BY DEF Surjection
<1>4. IsFiniteSet(T)
  <2>1. IsFiniteSet(1..n)
    BY <1>1, FS_Interval
  <2> HIDE DEF T, f, n
  <2> QED
    BY <1>3, <2>1, FS_Surjection
<1>5. \A S \in T : S \in SUBSET (Nat \X Nat) /\ IsFiniteSet(S)
  BY <1>2
<1>6. AllContracts(d) = UNION T
  BY <1>1 DEF AllContracts
<1>7. IsFiniteSet(UNION T) /\ UNION T \in SUBSET (Nat \X Nat)
  <2> HIDE DEF T
  <2> QED
    BY <1>4, <1>5, FS_UNION
<1> QED
  BY <1>6, <1>7

\* The entry of each position, as AddContract takes it.
LEMMA EntryAt ==
    ASSUME IInv, next <= Cardinality(AllContracts(dir)),
           NEW pos,
           pos = CHOOSE p \in AllContracts(dir) :
                     Cardinality({q \in AllContracts(dir) :
                         q[1] < p[1] \/ (q[1] = p[1] /\ q[2] <= p[2])}) = next
    PROVE  pos \in AllContracts(dir) /\ Cardinality(Down(AllContracts(dir), pos)) = next
<1> DEFINE S == AllContracts(dir)
<1>1. S \in SUBSET (Nat \X Nat) /\ IsFiniteSet(S)
  BY ContractsListed, DirAssumption DEF IInv
<1>2. next \in Nat /\ 1 <= next
  BY DEF IInv
<1> HIDE DEF S
<1>3. \E p \in S : Cardinality(Down(S, p)) = next
  BY <1>1, <1>2, EveryPosition DEF S
<1>4. pos = CHOOSE p \in S : Cardinality(Down(S, p)) = next
  BY DEF S, Down, UpTo
<1>5. pos \in S /\ Cardinality(Down(S, pos)) = next
  BY <1>3, <1>4
<1> QED
  BY <1>5 DEF S

\* What an entry and a rule are made of.
LEMMA EntryFacts ==
    ASSUME NEW d \in Dirs, NEW p \in AllContracts(d),
           NEW yc, yc = d.layers[p[1]].contracts[p[2]]
    PROVE  yc.version \in Versions /\ yc.route \in Routes /\ yc.strict \in BOOLEAN
<1>1. IsDirectory(d)
  BY DirAssumption
<1>2. PICK i \in DOMAIN d.layers : p \in {i} \X DOMAIN d.layers[i].contracts
  BY DEF AllContracts
<1>3. p[1] = i /\ p[2] \in DOMAIN d.layers[i].contracts
  BY <1>2
<1> QED
  BY <1>1, <1>2, <1>3 DEF IsDirectory

IsRule(r) ==
    /\ r # NoRule
    /\ r.version \in Versions /\ r.sel \in Selectors
    /\ r.requestOps \in BOOLEAN /\ r.responseOps \in BOOLEAN
    /\ r.target \in IF r.kind = "route" THEN Targets ELSE Versions \cup {""}

LEMMA RuleFacts ==
    /\ \A d \in Dirs : \A i \in DOMAIN d.overrides : d.overrides[i] \in AllRules
    /\ \A r \in AllRules : IsRule(r)
<1>1. ASSUME NEW r \in AllRules PROVE IsRule(r)
  <2>1. PICK d \in Dirs : \E i \in DOMAIN d.overrides : r = d.overrides[i]
    BY DEF AllRules
  <2>2. PICK i \in DOMAIN d.overrides : r = d.overrides[i]
    BY <2>1
  <2>3. IsDirectory(d)
    BY DirAssumption
  <2> QED
    BY <2>2, <2>3 DEF IsDirectory, IsRule
<1> QED
  BY <1>1 DEF AllRules

-----------------------------------------------------------------------------
(* One step at a time *)

LEMMA InitHolds == Init => IInv
<1> SUFFICES ASSUME Init PROVE IInv
  OBVIOUS
<1>1. dir \in Dirs /\ next \in Nat \ {0} /\ RawKept
  BY DEF Init, RawKept
<1>2. RulesKept
  <2>1. <<>> \in Seq(AllRules) /\ DOMAIN <<>> = {}
    OBVIOUS
  <2> QED
    BY <2>1 DEF Init, RulesKept, Exclusive
<1>3. Reading /\ contract = <<>> /\ chain = <<>> /\ walk = NoWalk
  BY DEF Init, Reading
<1> QED
  BY <1>1, <1>2, <1>3 DEF IInv

\* While the files are read there are no contracts yet.
LEMMA WhileReading ==
    ASSUME IInv, pc \in {"layerDirs", "resolution", "contracts"}
    PROVE  contract = <<>> /\ chain = <<>> /\ walk = NoWalk
  BY DEF IInv, Resolving

\* A step that leaves rules and contracts alone, and goes on reading.
LEMMA GoesOn ==
    ASSUME IInv, pc \in {"layerDirs", "resolution", "contracts"},
           pc' \in {"resolution", "contracts", "failed"}, next' \in Nat \ {0},
           UNCHANGED <<dir, fallback, rules, raw, contract, walk, chain>>
    PROVE  IInv'
<1>1. contract' = <<>> /\ chain' = <<>> /\ walk' = NoWalk
  BY WhileReading
<1>2. RulesKept' /\ RawKept'
  <2>1. RulesKept'
    BY DEF IInv, RulesKept
  <2>2. RawKept'
    BY DEF IInv, RawKept
  <2> QED
    BY <2>1, <2>2
<1>3. Reading'
  BY DEF Reading
<1> QED
  BY <1>1, <1>2, <1>3 DEF IInv

LEMMA RefuseStep ==
    ASSUME IInv, Refuse, pc \in {"layerDirs", "resolution", "contracts"}
    PROVE  IInv'
<1>1. pc' = "failed" /\ UNCHANGED <<dir, next, fallback, rules, raw, contract, walk, chain>>
  BY DEF Refuse
<1> QED
  BY <1>1, GoesOn DEF IInv

LEMMA LayerDirsStep ==
    ASSUME IInv, LayerDirs
    PROVE  IInv'
<1>1. CASE dir.layers = <<>>
  BY <1>1, RefuseStep DEF LayerDirs
<1>2. CASE dir.layers # <<>>
  BY <1>2, GoesOn DEF LayerDirs, Proceed
<1> QED
  BY <1>1, <1>2

LEMMA ReadLayersStep ==
    ASSUME IInv, ReadLayers
    PROVE  IInv'
<1>1. CASE Refuse
  BY <1>1, RefuseStep DEF ReadLayers
<1>2. CASE Proceed("contracts") /\ UNCHANGED <<dir, fallback, rules, raw, contract, walk, chain>>
  BY <1>2, GoesOn DEF ReadLayers, Proceed
<1> QED
  BY <1>1, <1>2 DEF ReadLayers

LEMMA LoadResolutionStep ==
    ASSUME IInv, LoadResolution
    PROVE  IInv'
<1> DEFINE ov == dir.overrides[next]
           v  == ov.version
<1>1. pc = "resolution" /\ next \in DOMAIN dir.overrides
  BY DEF LoadResolution
<1>2. CASE Refuse
  BY <1>1, <1>2, RefuseStep
<1>3. CASE ~ Refuse
  <2>1. /\ UNCHANGED <<dir, pc, raw, contract, walk, chain>> /\ next' = next + 1
        /\ IF selectorEmpty(ov.sel)
           THEN fallback' = [fallback EXCEPT ![v] = ov] /\ UNCHANGED rules
           ELSE rules' = [rules EXCEPT ![v] = Append(@, ov)] /\ UNCHANGED fallback
        /\ ~ selectorEmpty(ov.sel) =>
              \A i \in DOMAIN rules[v] : ~ selectorOverlap(ov.sel, rules[v][i].sel)
    BY <1>3 DEF LoadResolution
  <2>2. ov \in AllRules /\ v \in Versions
    BY <1>1, RuleFacts DEF IInv, IsRule
  <2>3. /\ fallback \in [Versions -> AllRules \cup {NoRule}]
        /\ rules \in [Versions -> Seq(AllRules)]
        /\ \A w \in Versions : Exclusive(w, rules[w])
    BY DEF IInv, RulesKept
  <2> HIDE DEF ov
  <2>4. RulesKept'
    <3>1. CASE selectorEmpty(ov.sel)
      <4>1. fallback' \in [Versions -> AllRules \cup {NoRule}] /\ rules' = rules
        BY <2>1, <2>2, <2>3, <3>1
      <4> QED
        BY <2>3, <4>1 DEF RulesKept
    <3>2. CASE ~ selectorEmpty(ov.sel)
      <4> DEFINE old == rules[v]
                 new == Append(old, ov)
      <4>1. old \in Seq(AllRules) /\ Exclusive(v, old)
        BY <2>2, <2>3
      <4>2. /\ new \in Seq(AllRules) /\ Len(new) = Len(old) + 1
            /\ DOMAIN new = 1..Len(old) + 1 /\ DOMAIN old = 1..Len(old) /\ Len(old) \in Nat
            /\ \A i \in 1..Len(old) : new[i] = old[i]
            /\ new[Len(old) + 1] = ov
        BY <2>2, <4>1
      <4>3. Exclusive(v, new)
        <5>1. \A i \in DOMAIN old : ~ selectorOverlap(ov.sel, old[i].sel)
          BY <2>1, <3>2
        <5>2. \A i \in DOMAIN old : ~ selectorOverlap(old[i].sel, ov.sel)
          BY <5>1 DEF selectorOverlap
        <5> HIDE DEF new, old
        <5>3. \A i \in DOMAIN new : new[i].version = v /\ ~ selectorEmpty(new[i].sel)
          BY <3>2, <4>1, <4>2 DEF Exclusive
        <5>4. ASSUME NEW i \in DOMAIN new, NEW j \in DOMAIN new,
                     selectorOverlap(new[i].sel, new[j].sel)
              PROVE  i = j
          BY <4>1, <4>2, <5>1, <5>2, <5>4 DEF Exclusive
        <5> QED
          BY <5>3, <5>4 DEF Exclusive
      <4>4. fallback' = fallback /\ rules' = [rules EXCEPT ![v] = new]
        BY <2>1, <3>2
      <4> HIDE DEF new, old
      <4>5. rules' \in [Versions -> Seq(AllRules)]
        BY <2>2, <2>3, <4>2, <4>4
      <4>6. \A w \in Versions : Exclusive(w, rules'[w])
        BY <2>2, <2>3, <4>3, <4>4
      <4> QED
        BY <2>3, <4>4, <4>5, <4>6 DEF RulesKept
    <3> QED
      BY <3>1, <3>2
  <2>5. RawKept'
    BY <2>1 DEF IInv, RawKept
  <2>6. Reading' /\ contract' = <<>> /\ chain' = <<>> /\ walk' = NoWalk
    BY <1>1, <2>1, WhileReading DEF Reading
  <2>7. dir' \in Dirs /\ next' \in Nat \ {0}
    BY <2>1 DEF IInv
  <2> QED
    BY <2>4, <2>5, <2>6, <2>7 DEF IInv
<1> QED
  BY <1>2, <1>3

LEMMA AddContractStep ==
    ASSUME IInv, AddContract
    PROVE  IInv'
<1>1. pc = "contracts" /\ next <= Cardinality(AllContracts(dir))
  BY DEF AddContract
<1>2. CASE Refuse
  BY <1>1, <1>2, RefuseStep
<1>3. CASE ~ Refuse
  <2>1. PICK pos : pos = CHOOSE p \in AllContracts(dir) :
                     Cardinality({q \in AllContracts(dir) :
                         q[1] < p[1] \/ (q[1] = p[1] /\ q[2] <= p[2])}) = next
    OBVIOUS
  <2>2. pos \in AllContracts(dir)
    BY <1>1, <2>1, EntryAt
  <2> DEFINE yc == dir.layers[pos[1]].contracts[pos[2]]
             id == Canonical(yc.version, yc.route)
  <2>3. /\ ValidContract(yc) /\ next' = next + 1
        /\ raw' = [x \in DOMAIN raw \cup {id} |-> IF x = id THEN FreshContract(yc) ELSE raw[x]]
        /\ UNCHANGED <<dir, pc, fallback, rules, contract, walk, chain>>
    BY <1>3, <2>1 DEF AddContract
  <2>4. Ships(dir, pos, id, FreshContract(yc))
    BY <2>3 DEF Ships, ValidContract, ValidIn
  <2>5. RawKept'
    <3> SUFFICES ASSUME NEW x \in DOMAIN raw'
                 PROVE  \E p \in AllContracts(dir) : Ships(dir, p, x, raw'[x])
      BY <2>3 DEF RawKept
    <3> HIDE DEF yc, id
    <3>1. x \in DOMAIN raw \cup {id} /\ raw'[x] = IF x = id THEN FreshContract(yc) ELSE raw[x]
      BY <2>3
    <3> QED
      BY <2>2, <2>4, <3>1 DEF IInv, RawKept
  <2>6. RulesKept'
    BY <2>3 DEF IInv, RulesKept
  <2>7. Reading' /\ contract' = <<>> /\ chain' = <<>> /\ walk' = NoWalk
    BY <1>1, <2>3, WhileReading DEF Reading
  <2>8. dir' \in Dirs /\ next' \in Nat \ {0}
    <3> HIDE DEF yc, id
    <3> QED
      BY <2>3 DEF IInv
  <2> QED
    BY <2>5, <2>6, <2>7, <2>8 DEF IInv
<1> QED
  BY <1>2, <1>3

LEMMA ApplyResolutionStep ==
    ASSUME IInv, ApplyResolution
    PROVE  IInv'
<1>1. CASE Refuse
  BY <1>1, RefuseStep DEF ApplyResolution
<1>2. CASE ~ Refuse
  <2>1. /\ pc' = "chains" /\ next' = 1
        /\ contract' = [id \in AllIds |-> applyResolution(Base(id), RuleOf(id))]
        /\ UNCHANGED <<dir, fallback, rules, raw, walk, chain>>
    BY <1>2 DEF ApplyResolution, Proceed
  <2>2. RulesKept'
    BY <2>1 DEF IInv, RulesKept
  <2>3. RawKept'
    BY <2>1 DEF IInv, RawKept
  <2>4. Installed'
    <3>1. contract' = ContractsOf(raw, rules, fallback)
      BY <2>1 DEF ContractsOf, IdsOf, RuleIn, AllIds, Base, RuleOf
    <3> QED
      BY <2>1, <3>1 DEF Installed
  <2>5. chain' = <<>> /\ walk' = NoWalk
    BY <2>1, WhileReading DEF ApplyResolution
  <2>6. ChainsKept'
    BY <2>5 DEF ChainsKept
  <2>7. Resolving'
    BY <2>1 DEF Resolving
  <2> QED
    BY <2>1, <2>2, <2>3, <2>4, <2>6, <2>7 DEF IInv
<1> QED
  BY <1>1, <1>2

-----------------------------------------------------------------------------
(* The contracts once the rules are installed *)

\* Every contract's own rule was kept.
LEMMA RuleChosen ==
    ASSUME RulesKept, NEW id \in IdsOf(raw, rules)
    PROVE  RuleIn(fallback, rules, id) \in AllRules \cup {NoRule}
<1> DEFINE v == id.version
<1>1. v \in Versions
  BY DEF IdsOf, ContractIds
<1>2. fallback[v] \in AllRules \cup {NoRule} /\ rules[v] \in Seq(AllRules)
  BY <1>1 DEF RulesKept
<1>3. CASE selectorEmpty(id.sel)
  BY <1>2, <1>3 DEF RuleIn
<1>4. CASE ~ selectorEmpty(id.sel)
  <2>1. \E i \in DOMAIN rules[v] : rules[v][i].sel = id.sel
    BY <1>4 DEF IdsOf
  <2>2. PICK i \in DOMAIN rules[v] : RuleIn(fallback, rules, id) = rules[v][i]
    BY <1>4, <2>1, Zenon DEF RuleIn
  <2> HIDE DEF v
  <2>3. rules[v][i] \in AllRules
    BY <1>2
  <2> QED
    BY <2>2, <2>3
<1> QED
  BY <1>3, <1>4

\* What SoundContracts and RulesDoNotCombine say of one contract.
Served(d, c) ==
    /\ IsContract(c)
    /\ c.requestMessage \in DOMAIN MergedMessages(d)
    /\ c.responseMessage \in DOMAIN MergedMessages(d)
    /\ \A s \in DOMAIN c.errorMessages :
          /\ c.errorMessages[s] \in DOMAIN MergedMessages(d)
          /\ s \notin 200..299 /\ ~ IsCapabilityCeiling(s)
    /\ c.target # "" =>
          c.transformTarget = "" /\ ~ c.requestOps /\ ~ c.responseOps

LEMMA MessageFacts ==
    ASSUME NEW d \in Dirs
    PROVE  \A m \in DOMAIN MergedMessages(d) : m \in Messages /\ MergedMessages(d)[m] \in Descs
<1> SUFFICES ASSUME NEW m \in DOMAIN MergedMessages(d)
             PROVE  m \in Messages /\ MergedMessages(d)[m] \in Descs
  OBVIOUS
<1>1. \E f \in Files(d) : m \in DOMAIN f.messages
  BY DEF MergedMessages
<1>2. PICK f \in Files(d) : m \in DOMAIN f.messages /\ MergedMessages(d)[m] = f.messages[m]
  BY <1>1, Zenon DEF MergedMessages
<1>3. PICK i \in DOMAIN d.layers : f \in d.layers[i].files
  BY DEF Files
<1>4. IsDirectory(d)
  BY DirAssumption
<1> QED
  BY <1>2, <1>3, <1>4 DEF IsDirectory

\* A rule is installed on the contract as its layer ships it.
LEMMA InstallFacts ==
    ASSUME NEW d \in Dirs, NEW p \in AllContracts(d), NEW id, NEW c,
           Ships(d, p, id, c), NEW r \in AllRules \cup {NoRule}
    PROVE  Served(d, applyResolution(c, r))
<1> DEFINE yc == d.layers[p[1]].contracts[p[2]]
<1>1. ValidIn(d, yc) /\ c = FreshContract(yc)
  BY DEF Ships
<1>2. yc.strict \in BOOLEAN
  BY EntryFacts
<1> HIDE DEF yc
<1>3. /\ c.requestMessage = yc.requestMessage /\ c.responseMessage = yc.responseMessage
      /\ c.errorMessages = yc.errorMessages /\ c.strict = yc.strict
      /\ c.requestOps = FALSE /\ c.responseOps = FALSE
      /\ c.target = "" /\ c.transformTarget = ""
  BY <1>1 DEF FreshContract
<1>4. Served(d, c)
  <2> DEFINE M == DOMAIN MergedMessages(d)
  <2>1. /\ yc.requestMessage \in M /\ yc.responseMessage \in M
        /\ \A s \in DOMAIN yc.errorMessages : yc.errorMessages[s] \in M
        /\ \A s \in DOMAIN yc.errorMessages : s \notin 200..299 /\ ~ IsCapabilityCeiling(s)
    BY <1>1 DEF ValidIn
  <2>2. M \subseteq Messages
    BY MessageFacts
  <2> HIDE DEF M
  <2>3. IsContract(c)
    BY <1>2, <1>3, <2>1, <2>2, BundleAssumption DEF IsContract
  <2> QED
    BY <1>3, <2>1, <2>3 DEF Served, M
<1>5. CASE r = NoRule
  BY <1>4, <1>5 DEF applyResolution
<1>6. CASE r # NoRule /\ r.kind = "route"
  <2>1. applyResolution(c, r) = [c EXCEPT !.target = r.target]
    BY <1>6 DEF applyResolution
  <2>2. r.target \in Targets
    BY <1>6, RuleFacts DEF IsRule
  <2> DEFINE q == applyResolution(c, r)
  <2>3. /\ q.requestMessage = c.requestMessage /\ q.responseMessage = c.responseMessage
        /\ q.errorMessages = c.errorMessages /\ q.strict = c.strict
        /\ q.target = r.target /\ q.transformTarget = c.transformTarget
        /\ q.requestOps = c.requestOps /\ q.responseOps = c.responseOps
    BY <1>1, <2>1 DEF FreshContract
  <2> HIDE DEF q
  <2>4. IsContract(q)
    BY <1>3, <1>4, <2>2, <2>3 DEF Served, IsContract
  <2>5. Served(d, q)
    BY <1>3, <1>4, <2>3, <2>4, ZenonT(60) DEF Served
  <2> QED
    BY <2>5 DEF q
<1>7. CASE r # NoRule /\ r.kind # "route"
  <2>1. applyResolution(c, r) =
            [c EXCEPT !.requestOps = r.requestOps, !.responseOps = r.responseOps,
                      !.errorResponseOps = r.errorResponseOps, !.transformTarget = r.target]
    BY <1>7 DEF applyResolution
  <2>2. r.target \in Versions \cup {""} /\ r.requestOps \in BOOLEAN /\ r.responseOps \in BOOLEAN
    BY <1>7, RuleFacts DEF IsRule
  <2> DEFINE q == applyResolution(c, r)
  <2>3. /\ q.requestMessage = c.requestMessage /\ q.responseMessage = c.responseMessage
        /\ q.errorMessages = c.errorMessages /\ q.strict = c.strict
        /\ q.target = c.target /\ q.transformTarget = r.target
        /\ q.requestOps = r.requestOps /\ q.responseOps = r.responseOps
    BY <1>1, <2>1 DEF FreshContract
  <2> HIDE DEF q
  <2>4. IsContract(q)
    BY <1>3, <1>4, <2>2, <2>3 DEF Served, IsContract
  <2>5. Served(d, q)
    BY <1>3, <1>4, <2>3, <2>4 DEF Served
  <2> QED
    BY <2>5 DEF q
<1> QED
  BY <1>5, <1>6, <1>7

\* The names of the contracts, and what they name.
LEMMA ContractFacts ==
    ASSUME IInv, Installed
    PROVE  /\ DOMAIN contract = IdsOf(raw, rules)
           /\ DOMAIN contract \subseteq ContractIds
           /\ \A id \in DOMAIN contract :
                 /\ Canonical(id.version, id.route) \in DOMAIN contract
                 /\ Served(dir, contract[id])
<1>1. DOMAIN contract = IdsOf(raw, rules) /\ IdsOf(raw, rules) \subseteq ContractIds
  BY DEF Installed, ContractsOf, IdsOf
<1>2. ASSUME NEW id \in DOMAIN contract
      PROVE  Canonical(id.version, id.route) \in DOMAIN contract /\ Served(dir, contract[id])
  <2> DEFINE c == Canonical(id.version, id.route)
  <2>1. id \in IdsOf(raw, rules) /\ id.version \in Versions /\ id.route \in Routes
        /\ c \in DOMAIN raw
    BY <1>1 DEF IdsOf, ContractIds
  <2>2. c.version = id.version /\ c.route = id.route /\ c.sel = NoSelectors
        /\ selectorEmpty(c.sel)
    BY DEF Canonical, selectorEmpty
  <2>3. c \in IdsOf(raw, rules)
    <3>1. NoSelectors \in Selectors
      BY BundleAssumption DEF NoSelectors, Selectors
    <3>2. c \in ContractIds
      BY <2>1, <3>1 DEF Canonical, ContractIds
    <3>3. Canonical(c.version, c.route) = c
      BY <2>2
    <3> QED
      BY <2>1, <2>2, <3>2, <3>3 DEF IdsOf
  <2>4. PICK p \in AllContracts(dir) : Ships(dir, p, c, raw[c])
    BY <2>1 DEF IInv, RawKept
  <2>5. RuleIn(fallback, rules, id) \in AllRules \cup {NoRule}
    BY <2>1, RuleChosen DEF IInv
  <2>6. contract[id] = applyResolution(raw[c], RuleIn(fallback, rules, id))
    BY <2>1 DEF Installed, ContractsOf
  <2>7. Served(dir, contract[id])
    <3> HIDE DEF c
    <3> QED
      BY <2>4, <2>5, <2>6, InstallFacts DEF IInv
  <2> QED
    BY <1>1, <2>3, <2>7
<1> QED
  BY <1>1, <1>2

-----------------------------------------------------------------------------
(* Walking the chains *)

\* A path goes on to what its last contract targets.
LEMMA PathGrows ==
    ASSUME NEW cs, NEW p, NEW id, IsPath(cs, p, id), NEW n \in DOMAIN cs,
           NEW last, last = p[Len(p)], Leads(cs, last, n), n.route = id.route
    PROVE  IsPath(cs, Append(p, n), id)
<1> DEFINE q == Append(p, n)
           X == DOMAIN cs
<1>1. p \in Seq(X) /\ Len(p) > 0 /\ Len(p) \in Nat
  <2>1. p \in Seq(X) /\ Len(p) > 0
    BY Zenon DEF IsPath
  <2> HIDE DEF X
  <2> QED
    BY <2>1
<1>2. /\ q \in Seq(X) /\ Len(q) = Len(p) + 1 /\ q[Len(p) + 1] = n
      /\ \A i \in 1..Len(p) : q[i] = p[i]
  <2> HIDE DEF X
  <2>1. n \in X
    BY DEF X
  <2> QED
    BY <1>1, <2>1
<1> HIDE DEF q
<1>3. q[1] = id
  BY <1>1, <1>2 DEF IsPath
<1>5. \A i \in 1..Len(q) : q[i].route = id.route
  BY <1>1, <1>2 DEF IsPath
<1>6. ASSUME NEW i \in 1..Len(q) - 1 PROVE Leads(cs, q[i], q[i + 1])
  <2>1. CASE i = Len(p)
    <3>1. q[i] = last /\ q[i + 1] = n
      BY <1>1, <1>2, <2>1
    <3> QED
      BY <3>1
  <2>2. CASE i # Len(p)
    <3>1. i \in 1..Len(p) - 1 /\ q[i] = p[i] /\ q[i + 1] = p[i + 1]
      BY <1>1, <1>2, <2>2
    <3> QED
      BY <3>1 DEF IsPath
  <2> QED
    BY <2>1, <2>2
<1>7. IsPath(cs, q, id)
  BY <1>1, <1>2, <1>3, <1>5, <1>6 DEF IsPath
<1> QED
  BY <1>7 DEF q

\* A version that has not been seen is a new one.
LEMMA VersionsGrow ==
    ASSUME NEW X, NEW p \in Seq(X), NEW c \in X, OneVersionEach(p),
           \A i \in DOMAIN p : p[i].version # c.version
    PROVE  OneVersionEach(Append(p, c))
<1> DEFINE q == Append(p, c)
<1>1. /\ Len(p) \in Nat /\ DOMAIN p = 1..Len(p) /\ DOMAIN q = 1..Len(p) + 1
      /\ q[Len(p) + 1] = c /\ \A i \in 1..Len(p) : q[i] = p[i]
  OBVIOUS
<1> HIDE DEF q
<1>2. ASSUME NEW i \in DOMAIN q, NEW j \in DOMAIN q, q[i].version = q[j].version
      PROVE  i = j
  BY <1>1, <1>2 DEF OneVersionEach
<1> QED
  BY <1>2 DEF OneVersionEach, q

LEMMA Framed ==
    ASSUME IInv, UNCHANGED <<dir, next, fallback, rules, raw, contract>>
    PROVE  /\ dir' \in Dirs /\ next' \in Nat \ {0} /\ RulesKept' /\ RawKept'
           /\ Installed => Installed'
<1>1. RulesKept'
  BY DEF IInv, RulesKept
<1>2. RawKept'
  BY DEF IInv, RawKept
<1> QED
  BY <1>1, <1>2 DEF IInv, Installed

LEMMA AtChains ==
    ASSUME IInv, pc = "chains"
    PROVE  Installed /\ ChainsKept
  BY DEF IInv, Reading

LEMMA StartChainStep ==
    ASSUME IInv, StartChain
    PROVE  IInv'
<1>1. PICK id : /\ id = CHOOSE x \in DOMAIN contract : x \notin DOMAIN chain
                /\ walk' = [from |-> id, cur |-> id, links |-> <<>>]
  BY DEF StartChain
<1>2. /\ pc = "chains" /\ DOMAIN contract # DOMAIN chain
      /\ UNCHANGED <<dir, pc, next, fallback, rules, raw, contract, chain>>
  BY DEF StartChain
<1>3. Installed /\ ChainsKept
  BY <1>2, AtChains
<1>4. id \in DOMAIN contract
  BY <1>1, <1>2, <1>3 DEF ChainsKept
<1>5. OnTheWay(contract, walk')
  <2> DEFINE X == DOMAIN contract
             e == <<>>
             p == Append(e, id)
  <2>1. e \in Seq(X) /\ Len(e) = 0
    OBVIOUS
  <2> HIDE DEF e
  <2>2. id \in X
    BY <1>4
  <2>3. p \in Seq(X) /\ Len(p) = 1 /\ p[1] = id
    <3> HIDE DEF X
    <3> QED
      BY <2>1, <2>2
  <2> HIDE DEF p
  <2>4. IsPath(contract, p, id)
    BY <2>3 DEF IsPath
  <2>5. walk' \in [from : X, cur : X, links : Seq(X)]
        /\ walk'.links = e /\ walk'.cur = id /\ walk'.from = id
    <3> HIDE DEF X
    <3> QED
      BY <1>1, <2>1, <2>2 DEF e
  <2>6. OneVersionEach(e)
    <3>1. DOMAIN e = {}
      BY DEF e
    <3> QED
      BY <3>1 DEF OneVersionEach
  <2> QED
    BY <2>4, <2>5, <2>6 DEF OnTheWay, p
<1>6. ChainsKept'
  BY <1>2, <1>3, <1>5 DEF ChainsKept
<1>7. Resolving'
  BY <1>2 DEF Resolving
<1> QED
  BY <1>2, <1>3, <1>6, <1>7, Framed DEF IInv

LEMMA ReturnStep ==
    ASSUME IInv, Return
    PROVE  IInv'
<1>1. /\ pc = "chains" /\ pc' = "loaded" /\ DOMAIN contract = DOMAIN chain
      /\ UNCHANGED <<dir, next, fallback, rules, raw, contract, walk, chain>>
  BY DEF Return
<1>2. Installed /\ ChainsKept
  BY <1>1, AtChains
<1>3. ChainsKept'
  BY <1>1, <1>2 DEF ChainsKept
<1>4. Resolving'
  BY <1>1 DEF Resolving
<1> QED
  BY <1>1, <1>2, <1>3, <1>4, Framed DEF IInv

\* A walk that comes to a version it has seen has found a cycle of versions.
LEMMA SeenIsCycle ==
    ASSUME DOMAIN contract \subseteq ContractIds, NEW w, OnTheWay(contract, w),
           w.cur.version \in Seen(w)
    PROVE  HasCycle
<1> DEFINE X == DOMAIN contract
           p == Append(w.links, w.cur)
           n == Len(w.links)
<1>1. w.links \in Seq(X) /\ w.cur \in X /\ w.from \in X /\ IsPath(contract, p, w.from)
  BY DEF OnTheWay
<1>2. /\ n \in Nat /\ DOMAIN w.links = 1..n
      /\ Len(p) = n + 1 /\ p[n + 1] = w.cur /\ \A i \in 1..n : p[i] = w.links[i]
  <2> HIDE DEF X
  <2> QED
    BY <1>1
<1>3. PICK k \in 1..n : w.cur.version = p[k].version
  BY <1>2 DEF Seen
<1> HIDE DEF p, n
<1> DEFINE S == {p[i].version : i \in k..n}
<1>4. \A i \in 1..n + 1 : p[i] \in X
  BY <1>1, <1>2 DEF IsPath
<1>5. \A id \in X : id.version \in Versions /\ id.route \in Routes
  BY DEF ContractIds
<1>6. S \in SUBSET Versions /\ S # {}
  BY <1>2, <1>4, <1>5
<1>7. ASSUME NEW v \in S
      PROVE  \E id \in X : id.version = v /\ id.route = w.from.route
                            /\ contract[id].transformTarget \in S
  <2>1. PICK i \in k..n : v = p[i].version
    OBVIOUS
  <2>2. i \in 1..n /\ i \in 1..Len(p) /\ i \in 1..Len(p) - 1
    BY <1>2
  <2>3. Leads(contract, p[i], p[i + 1]) /\ p[i].route = w.from.route
    BY <1>1, <2>2 DEF IsPath
  <2>4. p[i + 1].version = contract[p[i]].transformTarget
    <3>1. p[i + 1] = Canonical(contract[p[i]].transformTarget, p[i].route)
      BY <2>3, Zenon DEF Leads
    <3>2. \A t, rt : Canonical(t, rt).version = t
      BY DEF Canonical
    <3> QED
      BY <3>1, <3>2, Zenon
  <2>5. p[i + 1].version \in S
    <3>1. CASE i = n
      BY <1>2, <1>3, <3>1
    <3>2. CASE i # n
      <4>1. i + 1 \in k..n
        BY <1>2, <3>2
      <4> QED
        BY <4>1
    <3> QED
      BY <3>1, <3>2
  <2> HIDE DEF S
  <2>6. p[i] \in X
    BY <1>2, <1>4, <2>2
  <2> QED
    BY <2>1, <2>3, <2>4, <2>5, <2>6, Zenon
<1> HIDE DEF S
<1> QED
  BY <1>1, <1>5, <1>6, <1>7 DEF HasCycle

LEMMA FollowTargetStep ==
    ASSUME IInv, FollowTarget
    PROVE  IInv'
<1> DEFINE cur    == walk.cur
           links  == Append(walk.links, cur)
           target == contract[cur].transformTarget
           on     == Canonical(target, walk.from.route)
           X      == DOMAIN contract
<1>1. pc = "chains" /\ walk # NoWalk
  BY DEF FollowTarget
<1>2. Installed /\ ChainsKept /\ OnTheWay(contract, walk)
  BY <1>1, AtChains DEF ChainsKept
<1>3. X \subseteq ContractIds
  BY <1>2, ContractFacts
<1>4. /\ walk \in [from : X, cur : X, links : Seq(X)]
      /\ walk.from \in X /\ cur \in X /\ walk.links \in Seq(X)
      /\ IsPath(contract, links, walk.from) /\ OneVersionEach(walk.links)
  BY <1>2 DEF OnTheWay
<1>5. Len(links) \in Nat /\ links[Len(links)] = cur /\ cur.route = walk.from.route
  <2>1. Len(links) \in Nat /\ links[Len(links)] = cur
    <3> HIDE DEF X, cur
    <3> QED
      BY <1>4
  <2>2. links[Len(links)].route = walk.from.route
    <3> HIDE DEF links
    <3> QED
      BY <1>4, <2>1 DEF IsPath
  <2> QED
    BY <2>1, <2>2
<1>6. CASE cur.version \in Seen(walk)
  <2>1. Refuse
    BY <1>6 DEF FollowTarget
  <2>2. HasCycle
    BY <1>2, <1>3, <1>6, SeenIsCycle
  <2>3. HasCycle' /\ ChainsKept'
    BY <1>2, <2>1, <2>2 DEF HasCycle, ChainsKept, Refuse
  <2>4. Resolving'
    BY <2>1, <2>3 DEF Resolving, Refuse
  <2> QED
    BY <1>2, <2>1, <2>3, <2>4, Framed DEF IInv, Refuse
<1>7. CASE cur.version \notin Seen(walk) /\ target = ""
  <2>1. /\ chain' = [id \in DOMAIN chain \cup {walk.from} |->
                        IF id = walk.from THEN links ELSE chain[id]]
        /\ walk' = NoWalk
        /\ UNCHANGED <<dir, pc, next, fallback, rules, raw, contract>>
    BY <1>7 DEF FollowTarget
  <2>2. OneVersionEach(links)
    <3>1. \A i \in DOMAIN walk.links : walk.links[i].version # cur.version
      BY <1>7 DEF Seen
    <3> HIDE DEF X, cur
    <3> QED
      BY <1>4, <3>1, VersionsGrow
  <2>3. SoundChain(contract, links, walk.from)
    BY <1>4, <1>5, <1>7, <2>2, Zenon DEF SoundChain
  <2>4. ChainsKept'
    <3> HIDE DEF links, X
    <3>1. DOMAIN chain' \subseteq X
      BY <1>2, <1>4, <2>1 DEF ChainsKept, X
    <3>2. ASSUME NEW id \in DOMAIN chain' PROVE SoundChain(contract, chain'[id], id)
      <4>1. id \in DOMAIN chain \cup {walk.from}
            /\ chain'[id] = IF id = walk.from THEN links ELSE chain[id]
        BY <2>1
      <4> QED
        BY <1>2, <2>3, <4>1 DEF ChainsKept
    <3> QED
      BY <2>1, <3>1, <3>2 DEF ChainsKept, X
  <2>5. Resolving'
    BY <1>1, <2>1 DEF Resolving
  <2> QED
    BY <1>2, <2>1, <2>4, <2>5, Framed DEF IInv
<1>8. CASE cur.version \notin Seen(walk) /\ target # "" /\ on \notin X
  <2>1. Refuse
    BY <1>8 DEF FollowTarget
  <2>2. Dangling
    BY <1>4, <1>5, <1>8, Zenon DEF Dangling, NextLink
  <2>3. Dangling'
    BY <2>1, <2>2 DEF Dangling, NextLink, Refuse
  <2>4. ChainsKept'
    BY <1>2, <2>1 DEF ChainsKept, Refuse
  <2>5. Resolving'
    BY <2>1, <2>3 DEF Resolving, Refuse
  <2> QED
    BY <1>2, <2>1, <2>4, <2>5, Framed DEF IInv, Refuse
<1>9. CASE cur.version \notin Seen(walk) /\ target # "" /\ on \in X
  <2>1. /\ walk' = [walk EXCEPT !.links = links, !.cur = on]
        /\ UNCHANGED <<dir, pc, next, fallback, rules, raw, contract, chain>>
    BY <1>9 DEF FollowTarget
  <2>2. OneVersionEach(links)
    <3>1. \A i \in DOMAIN walk.links : walk.links[i].version # cur.version
      BY <1>9 DEF Seen
    <3> HIDE DEF X, cur
    <3> QED
      BY <1>4, <3>1, VersionsGrow
  <2>3. Leads(contract, cur, on) /\ on.route = walk.from.route
    <3>1. on.route = walk.from.route
      BY DEF Canonical
    <3>2. on = Canonical(contract[cur].transformTarget, cur.route)
      BY <1>5
    <3>3. Leads(contract, cur, on)
      BY <1>9, <3>2, Zenon DEF Leads
    <3> QED
      BY <3>1, <3>3
  <2>4. IsPath(contract, Append(links, on), walk.from)
    <3> HIDE DEF links, on, cur
    <3> QED
      BY <1>4, <1>5, <1>9, <2>3, PathGrows
  <2>5. links \in Seq(X)
    <3> HIDE DEF links
    <3> QED
      BY <1>4, Zenon DEF IsPath
  <2>6. walk'.links = links /\ walk'.cur = on /\ walk'.from = walk.from
        /\ walk' \in [from : X, cur : X, links : Seq(X)]
    <3> HIDE DEF links, on, X
    <3> QED
      BY <1>4, <1>9, <2>1, <2>5
  <2>7. OnTheWay(contract, walk')
    <3> HIDE DEF links, on
    <3> QED
      BY <2>2, <2>4, <2>6 DEF OnTheWay
  <2>8. ChainsKept'
    BY <1>2, <2>1, <2>7 DEF ChainsKept
  <2>9. Resolving'
    BY <1>1, <2>1 DEF Resolving
  <2> QED
    BY <1>2, <2>1, <2>8, <2>9, Framed DEF IInv
<1> QED
  BY <1>6, <1>7, <1>8, <1>9

LEMMA NextHolds == IInv /\ [Next]_vars => IInv'
<1> SUFFICES ASSUME IInv, [Next]_vars PROVE IInv'
  OBVIOUS
<1>1. CASE Next
  BY <1>1, LayerDirsStep, LoadResolutionStep, ReadLayersStep, AddContractStep,
     ApplyResolutionStep, StartChainStep, FollowTargetStep, ReturnStep DEF Next
<1>2. CASE UNCHANGED vars
  <2>1. UNCHANGED <<dir, pc, next, fallback, rules, raw, contract, walk, chain>>
    BY <1>2 DEF vars
  <2>2. Reading => Reading'
    BY <2>1 DEF Reading
  <2>3. Dangling \/ HasCycle => (Dangling \/ HasCycle)'
    <3>1. Dangling => Dangling'
      BY <2>1 DEF Dangling, NextLink
    <3>2. HasCycle => HasCycle'
      BY <2>1 DEF HasCycle
    <3> QED
      BY <3>1, <3>2
  <2>4. Resolving => Resolving'
    BY <2>1, <2>3 DEF Resolving
  <2>5. ChainsKept => ChainsKept'
    BY <2>1 DEF ChainsKept
  <2> QED
    BY <2>1, <2>2, <2>4, <2>5, Framed DEF IInv
<1> QED
  BY <1>1, <1>2

LEMMA Invariance == Spec => []IInv
  BY InitHolds, NextHolds, PTL DEF Spec

-----------------------------------------------------------------------------
(* What the invariant says *)

\* The rules kept, the contracts installed and the chain being walked are always
\* rules of their version and contracts that exist (bundle.go:464-734).
THEOREM TypeOKHolds == Spec => []TypeOK
<1>1. IInv => TypeOK
  <2> SUFFICES ASSUME IInv PROVE TypeOK
    OBVIOUS
  <2>1. /\ pc \in {"layerDirs", "resolution", "contracts", "chains", "loaded", "failed"}
        /\ next \in Nat
    BY DEF IInv, Reading, Resolving
  <2>2. \A v \in Versions : \A i \in DOMAIN rules[v] : rules[v][i].version = v
    BY DEF IInv, RulesKept, Exclusive
  <2>3. DOMAIN raw \subseteq ContractIds
    <3> SUFFICES ASSUME NEW id \in DOMAIN raw PROVE id \in ContractIds
      OBVIOUS
    <3>1. PICK p \in AllContracts(dir) : Ships(dir, p, id, raw[id])
      BY DEF IInv, RawKept
    <3> DEFINE yc == dir.layers[p[1]].contracts[p[2]]
    <3>2. yc.version \in Versions /\ yc.route \in Routes
      BY EntryFacts DEF IInv
    <3>3. id = Canonical(yc.version, yc.route)
      BY <3>1 DEF Ships
    <3>4. NoSelectors \in Selectors
      BY BundleAssumption DEF NoSelectors, Selectors
    <3> HIDE DEF yc
    <3> QED
      BY <3>2, <3>3, <3>4 DEF Canonical, ContractIds
  <2>4. /\ DOMAIN contract \subseteq ContractIds /\ DOMAIN chain \subseteq DOMAIN contract
        /\ walk = NoWalk \/ {walk.from, walk.cur} \subseteq DOMAIN contract
    <3>1. CASE contract = <<>> /\ chain = <<>> /\ walk = NoWalk
      BY <3>1
    <3>2. CASE Installed /\ ChainsKept
      <4>1. DOMAIN contract \subseteq ContractIds
        BY <3>2, ContractFacts
      <4>2. walk # NoWalk => walk.from \in DOMAIN contract /\ walk.cur \in DOMAIN contract
        BY <3>2 DEF ChainsKept, OnTheWay
      <4> QED
        BY <3>2, <4>1, <4>2 DEF ChainsKept
    <3> QED
      BY <3>1, <3>2 DEF IInv
  <2> QED
    BY <2>1, <2>2, <2>3, <2>4 DEF TypeOK
<1> QED
  BY <1>1, Invariance, PTL

\* No contract carries the target of one rule and the transform of another: each
\* rule is installed on the contract as its layer ships it (bundle.go:592-612).
THEOREM RulesDoNotCombineHolds == Spec => []RulesDoNotCombine
<1>1. IInv => RulesDoNotCombine
  <2> SUFFICES ASSUME IInv PROVE RulesDoNotCombine
    OBVIOUS
  <2>1. CASE contract = <<>>
    <3>1. DOMAIN contract = {}
      BY <2>1
    <3> QED
      BY <3>1 DEF RulesDoNotCombine
  <2>2. CASE Installed
    <3>1. \A id \in DOMAIN contract : Served(dir, contract[id])
      BY <2>2, ContractFacts
    <3> QED
      BY <3>1 DEF Served, RulesDoNotCombine
  <2> QED
    BY <2>1, <2>2 DEF IInv
<1> QED
  BY <1>1, Invariance, PTL

\* A bundle is refused for its chains only when a target dangles or the targets
\* of a route cycle (bundle.go:698-734).
THEOREM ChainRefusalJustifiedHolds == Spec => []ChainRefusalJustified
<1>1. IInv => ChainRefusalJustified
  BY DEF IInv, Resolving, ChainRefusalJustified
<1> QED
  BY <1>1, Invariance, PTL

-----------------------------------------------------------------------------
(* The bundle that Load returns *)

LEMMA ListOf ==
    ASSUME NEW X, NEW n \in Nat, NEW f, f = [i \in 1..n |-> f[i]], \A i \in 1..n : f[i] \in X
    PROVE  f \in Seq(X)
  OBVIOUS

VariantsOf(rs, c) ==
    [i \in DOMAIN rs[c.version] |-> [c EXCEPT !.sel = rs[c.version][i].sel]]

\* Two rules of a version that some request matches are one.
LEMMA VariantFacts ==
    ASSUME IInv, Installed, NEW c \in DOMAIN contract, selectorEmpty(c.sel),
           NEW vs, vs = VariantsOf(rules, c)
    PROVE  /\ vs \in Seq(DOMAIN contract)
           /\ \A i \in DOMAIN vs :
                 vs[i].version = c.version /\ vs[i].route = c.route /\ ~ selectorEmpty(vs[i].sel)
           /\ \A i, j \in DOMAIN vs :
                 (\E request \in Selectors : selectorMatches(vs[i].sel, request)
                                           /\ selectorMatches(vs[j].sel, request)) => i = j
<1> DEFINE v == c.version
           rs == rules[v]
           X  == DOMAIN contract
<1>1. c \in IdsOf(raw, rules) /\ c \in ContractIds /\ X = IdsOf(raw, rules)
  BY ContractFacts
<1>2. c.version \in Versions /\ c.route \in Routes
  BY <1>1 DEF ContractIds
<1>3. rs \in Seq(AllRules) /\ Exclusive(v, rs)
  BY <1>2 DEF IInv, RulesKept
<1>4. Len(rs) \in Nat /\ DOMAIN rs = 1..Len(rs) /\ \A i \in 1..Len(rs) : rs[i] \in AllRules
  <2> HIDE DEF rs
  <2> QED
    BY <1>3
<1>5. DOMAIN vs = DOMAIN rs /\ \A i \in DOMAIN rs : vs[i] = [c EXCEPT !.sel = rs[i].sel]
  BY DEF VariantsOf
<1> HIDE DEF rs
<1>6. ASSUME NEW i \in DOMAIN rs
      PROVE  /\ vs[i].version = v /\ vs[i].route = c.route /\ vs[i].sel = rs[i].sel
             /\ vs[i] \in ContractIds
  <2>1. rs[i].sel \in Selectors
    BY <1>4, RuleFacts DEF IsRule
  <2> QED
    BY <1>1, <1>5, <2>1 DEF ContractIds
<1>7. ASSUME NEW i \in DOMAIN rs PROVE vs[i] \in X
  <2>1. vs[i] \in ContractIds /\ vs[i].version = v /\ vs[i].route = c.route
        /\ vs[i].sel = rs[i].sel
    BY <1>6
  <2>2. Canonical(vs[i].version, vs[i].route) \in DOMAIN raw
    BY <1>1, <2>1 DEF IdsOf
  <2>3. \E k \in DOMAIN rules[vs[i].version] : rules[vs[i].version][k].sel = vs[i].sel
    BY <2>1 DEF rs
  <2>4. vs[i] \in IdsOf(raw, rules)
    BY <2>1, <2>2, <2>3, Zenon DEF IdsOf
  <2> QED
    BY <1>1, <2>4
<1>8. vs \in Seq(X)
  <2>1. vs = [i \in 1..Len(rs) |-> vs[i]]
    BY <1>4, <1>5 DEF rs, VariantsOf
  <2>2. \A i \in 1..Len(rs) : vs[i] \in X
    BY <1>4, <1>7
  <2> HIDE DEF X
  <2> QED
    BY <1>4, <2>1, <2>2, ListOf
<1>9. \A i \in DOMAIN rs : ~ selectorEmpty(rs[i].sel)
  BY <1>3 DEF Exclusive
<1>10. ASSUME NEW i \in DOMAIN rs, NEW j \in DOMAIN rs, NEW request \in Selectors,
              selectorMatches(rs[i].sel, request), selectorMatches(rs[j].sel, request)
       PROVE  i = j
  <2>1. selectorOverlap(rs[i].sel, rs[j].sel)
    BY <1>10 DEF selectorMatches, selectorOverlap
  <2> QED
    BY <1>3, <2>1 DEF Exclusive
<1> QED
  BY <1>5, <1>6, <1>8, <1>9, <1>10

\* Whatever directory Load accepts, the bundle it returns can be served from
\* (bundle.go:464-467, 686-697): this is what the proxy relies on.
THEOREM LoadSoundHolds == Spec => []LoadSound
<1>1. IInv => LoadSound
  <2> SUFFICES ASSUME IInv, pc = "loaded" PROVE WellFormed(Loaded)
    BY DEF LoadSound
  <2>1. Installed /\ ChainsKept /\ DOMAIN chain = DOMAIN contract
    BY DEF IInv, Reading, Resolving
  <2> DEFINE b == Loaded
  <2>2. /\ b.ids = DOMAIN contract /\ b.contract = contract /\ b.chain = chain
        /\ b.messages = MergedMessages(dir)
        /\ \A c \in DOMAIN contract : selectorEmpty(c.sel) => b.variants[c] = VariantsOf(rules, c)
    BY DEF Loaded, VariantsOf
  <2> HIDE DEF b
  <2>3. /\ b.ids \subseteq ContractIds
        /\ \A id \in b.ids : Canonical(id.version, id.route) \in b.ids
        /\ \A id \in b.ids : Served(dir, b.contract[id])
    BY <2>1, <2>2, ContractFacts
  <2>4. \A name \in DOMAIN b.messages : b.messages[name] \in Descs
    BY <2>2, MessageFacts DEF IInv
  <2>5. SoundContracts(b)
    BY <2>2, <2>3, ZenonT(60) DEF SoundContracts, Served, Resolvable
  <2>6. SoundVariants(b) /\ UnambiguousVariants(b)
    <3> SUFFICES ASSUME NEW c \in b.ids, selectorEmpty(c.sel)
                 PROVE  /\ b.variants[c] \in Seq(b.ids)
                        /\ \A i \in DOMAIN b.variants[c] :
                              /\ b.variants[c][i].version = c.version
                              /\ b.variants[c][i].route = c.route
                              /\ ~ selectorEmpty(b.variants[c][i].sel)
                        /\ \A i, j \in DOMAIN b.variants[c] :
                              (\E request \in Selectors :
                                  /\ selectorMatches(b.variants[c][i].sel, request)
                                  /\ selectorMatches(b.variants[c][j].sel, request)) => i = j
      BY DEF SoundVariants, UnambiguousVariants
    <3>1. c \in DOMAIN contract /\ b.variants[c] = VariantsOf(rules, c) /\ b.ids = DOMAIN contract
      BY <2>2
    <3>2. PICK ws : ws = VariantsOf(rules, c)
      OBVIOUS
    <3>3. /\ ws \in Seq(DOMAIN contract)
          /\ \A i \in DOMAIN ws :
                ws[i].version = c.version /\ ws[i].route = c.route /\ ~ selectorEmpty(ws[i].sel)
          /\ \A i, j \in DOMAIN ws :
                (\E request \in Selectors : selectorMatches(ws[i].sel, request)
                                          /\ selectorMatches(ws[j].sel, request)) => i = j
      BY <2>1, <3>1, <3>2, VariantFacts
    <3>4. b.variants[c] = ws
      BY <3>1, <3>2
    <3> QED
      BY <3>1, <3>3, <3>4, Zenon
  <2>7. SoundChains(b)
    <3> SUFFICES ASSUME NEW id \in b.ids
                 PROVE  LET ch == b.chain[id]
                        IN  /\ ch \in Seq(b.ids) /\ Len(ch) > 0 /\ ch[1] = id
                            /\ \A i \in 1..Len(ch) - 1 : Follows(b, ch[i], ch[i + 1])
                            /\ \A i, j \in DOMAIN ch : ch[i].version = ch[j].version => i = j
                            /\ b.contract[ch[Len(ch)]].transformTarget = ""
      BY DEF SoundChains
    <3> DEFINE ch == b.chain[id]
    <3>1. SoundChain(contract, ch, id)
      BY <2>1, <2>2 DEF ChainsKept
    <3> HIDE DEF ch
    <3>2. \A i \in 1..Len(ch) - 1 : Follows(b, ch[i], ch[i + 1])
      <4>1. \A i \in 1..Len(ch) - 1 : Leads(contract, ch[i], ch[i + 1])
        BY <3>1, Zenon DEF SoundChain, IsPath
      <4>2. \A x, y : Leads(contract, x, y) => Follows(b, x, y)
        BY <2>2, Zenon DEF Leads, Follows
      <4> QED
        BY <4>1, <4>2
    <3>3. /\ ch \in Seq(b.ids) /\ Len(ch) > 0 /\ ch[1] = id
          /\ b.contract[ch[Len(ch)]].transformTarget = ""
      BY <2>2, <3>1, Zenon DEF SoundChain, IsPath
    <3>4. \A i, j \in DOMAIN ch : ch[i].version = ch[j].version => i = j
      BY <3>1 DEF SoundChain, OneVersionEach
    <3> QED
      BY <3>2, <3>3, <3>4 DEF ch
  <2>8. WellFormed(b)
    BY <2>3, <2>4, <2>5, <2>6, <2>7, Zenon DEF WellFormed
  <2> QED
    BY <2>8 DEF b
<1> QED
  BY <1>1, Invariance, PTL

-----------------------------------------------------------------------------
(***************************************************************************)
(* Nothing is dropped: how far the two loops have come.                    *)
(***************************************************************************)

\* The rule is kept where its version and selectors put it.
Held(fb, rs, ov) ==
    IF selectorEmpty(ov.sel) THEN fb[ov.version] = ov
    ELSE \E k \in DOMAIN rs[ov.version] : rs[ov.version][k] = ov

RulesRead ==
    /\ pc = "resolution" =>
          /\ next <= Len(dir.overrides) + 1
          /\ \A i \in DOMAIN dir.overrides : i < next => Held(fallback, rules, dir.overrides[i])
    /\ pc \in {"contracts", "chains", "loaded"} =>
          \A i \in DOMAIN dir.overrides : Held(fallback, rules, dir.overrides[i])

\* The entry is kept under its name.
Recorded(cs, d, p) ==
    LET yc == d.layers[p[1]].contracts[p[2]]
        id == Canonical(yc.version, yc.route)
    IN  id \in DOMAIN cs /\ cs[id] = FreshContract(yc)

Position(d, p) == Cardinality(Down(AllContracts(d), p))

EntriesRead ==
    /\ pc = "contracts" =>
          \A p \in AllContracts(dir) : Position(dir, p) < next => Recorded(raw, dir, p)
    /\ pc \in {"chains", "loaded"} =>
          \A p \in AllContracts(dir) : Recorded(raw, dir, p)

Progress == RulesRead /\ EntriesRead

\* No two entries have one position, and none is beyond the last.
LEMMA OnePosition ==
    ASSUME NEW S \in SUBSET (Nat \X Nat), IsFiniteSet(S), NEW p \in S, NEW q \in S
    PROVE  /\ Cardinality(Down(S, p)) \in Nat /\ Cardinality(Down(S, p)) >= 1
           /\ Cardinality(Down(S, p)) <= Cardinality(S)
           /\ Cardinality(Down(S, p)) = Cardinality(Down(S, q)) => p = q
<1>1. \A r \in S : Down(S, r) \in SUBSET S /\ IsFiniteSet(Down(S, r))
                  /\ Cardinality(Down(S, r)) \in Nat
                  /\ Cardinality(Down(S, r)) <= Cardinality(S)
  BY FS_Subset, FS_CardinalityType DEF Down
<1>2. \A r \in S : r \in Down(S, r)
  BY DEF Down, UpTo
<1>3. Cardinality(Down(S, p)) # 0
  BY <1>1, <1>2, FS_EmptySet
<1>4. ASSUME NEW a \in S, NEW b \in S, UpTo(a, b), Cardinality(Down(S, a)) = Cardinality(Down(S, b))
      PROVE  a = b
  <2>1. a \in Nat \X Nat /\ b \in Nat \X Nat
    OBVIOUS
  <2>2. Down(S, a) \in SUBSET Down(S, b)
    BY <1>4 DEF Down, UpTo
  <2>3. Down(S, a) = Down(S, b)
    BY <1>1, <1>4, <2>2, FS_Subset
  <2>4. UpTo(b, a)
    BY <1>2, <2>3 DEF Down
  <2> QED
    BY <1>4, <2>1, <2>4 DEF UpTo
<1>5. UpTo(p, q) \/ UpTo(q, p)
  BY DEF UpTo
<1> QED
  BY <1>1, <1>3, <1>4, <1>5

LEMMA InitProgress == Init => Progress
  BY DEF Init, Progress, RulesRead, EntriesRead

\* Steps that read nothing, and a refusal.
LEMMA ProgressKept ==
    ASSUME Progress, UNCHANGED <<dir, fallback, rules, raw>>,
           \/ pc' = "failed"
           \/ pc' = pc /\ next' = next
           \/ pc = "chains" /\ pc' \in {"chains", "loaded"}
    PROVE  Progress'
<1>1. CASE pc' = "failed"
  BY <1>1 DEF Progress, RulesRead, EntriesRead
<1>2. CASE pc' = pc /\ next' = next
  BY <1>2 DEF Progress, RulesRead, EntriesRead
<1>3. CASE pc = "chains" /\ pc' \in {"chains", "loaded"}
  BY <1>3 DEF Progress, RulesRead, EntriesRead
<1> QED
  BY <1>1, <1>2, <1>3

LEMMA LayerDirsProgress ==
    ASSUME IInv, Progress, LayerDirs
    PROVE  Progress'
<1>1. CASE Refuse
  BY <1>1, ProgressKept DEF Refuse
<1>2. CASE ~ Refuse
  <2>1. pc' = "resolution" /\ next' = 1 /\ UNCHANGED <<dir, fallback, rules, raw>>
    BY <1>2 DEF LayerDirs, Proceed
  <2>2. Len(dir.overrides) \in Nat /\ DOMAIN dir.overrides = 1..Len(dir.overrides)
    BY DirAssumption DEF IInv, IsDirectory, IsList
  <2>3. RulesRead'
    BY <2>1, <2>2 DEF RulesRead
  <2>4. EntriesRead'
    BY <2>1 DEF EntriesRead
  <2> QED
    BY <2>3, <2>4 DEF Progress
<1> QED
  BY <1>1, <1>2

LEMMA LoadResolutionProgress ==
    ASSUME IInv, Progress, LoadResolution
    PROVE  Progress'
<1> DEFINE ov == dir.overrides[next]
           v  == ov.version
<1>1. pc = "resolution" /\ next \in DOMAIN dir.overrides
  BY DEF LoadResolution
<1>2. CASE Refuse
  BY <1>2, ProgressKept DEF Refuse
<1>3. CASE ~ Refuse
  <2>1. /\ UNCHANGED <<dir, pc, raw>> /\ next' = next + 1
        /\ IF selectorEmpty(ov.sel)
           THEN fallback' = [fallback EXCEPT ![v] = ov] /\ UNCHANGED rules
           ELSE rules' = [rules EXCEPT ![v] = Append(@, ov)] /\ UNCHANGED fallback
        /\ selectorEmpty(ov.sel) => fallback[v] = NoRule
    BY <1>3 DEF LoadResolution
  <2>2. ov \in AllRules /\ v \in Versions
    BY <1>1, RuleFacts DEF IInv, IsRule
  <2>3. fallback \in [Versions -> AllRules \cup {NoRule}] /\ rules \in [Versions -> Seq(AllRules)]
    BY DEF IInv, RulesKept
  <2>4. Len(dir.overrides) \in Nat /\ DOMAIN dir.overrides = 1..Len(dir.overrides)
    BY DirAssumption DEF IInv, IsDirectory, IsList
  <2>5. \A i \in DOMAIN dir.overrides : i < next => Held(fallback, rules, dir.overrides[i])
    BY <1>1 DEF Progress, RulesRead
  <2>6. \A w \in Versions : rules[w] \in Seq(AllRules)
    BY <2>3
  <2>7. \A w \in Versions : \A k \in DOMAIN rules[w] :
            k \in DOMAIN rules'[w] /\ rules'[w][k] = rules[w][k]
    <3> HIDE DEF ov
    <3>1. CASE selectorEmpty(ov.sel)
      BY <2>1, <3>1
    <3>2. CASE ~ selectorEmpty(ov.sel)
      <4>1. rules' = [rules EXCEPT ![v] = Append(rules[v], ov)]
        BY <2>1, <3>2
      <4>2. \A k \in DOMAIN rules[v] :
                k \in DOMAIN Append(rules[v], ov) /\ Append(rules[v], ov)[k] = rules[v][k]
        BY <2>2, <2>6
      <4> QED
        BY <2>2, <2>3, <4>1, <4>2
    <3> QED
      BY <3>1, <3>2
  <2>8. Held(fallback', rules', ov)
    <3> HIDE DEF ov
    <3>1. CASE selectorEmpty(ov.sel)
      BY <2>1, <2>2, <2>3, <3>1 DEF Held
    <3>2. CASE ~ selectorEmpty(ov.sel)
      <4>1. rules'[v] = Append(rules[v], ov)
        BY <2>1, <2>2, <2>3, <3>2
      <4>2. /\ Len(rules[v]) + 1 \in DOMAIN Append(rules[v], ov)
            /\ Append(rules[v], ov)[Len(rules[v]) + 1] = ov
        BY <2>2, <2>6
      <4> QED
        BY <3>2, <4>1, <4>2, Zenon DEF Held
    <3> QED
      BY <3>1, <3>2
  <2>9. ASSUME NEW i \in DOMAIN dir.overrides, i < next
        PROVE  Held(fallback', rules', dir.overrides[i])
    <3>1. PICK r : r = dir.overrides[i]
      OBVIOUS
    <3>2. Held(fallback, rules, r) /\ r \in AllRules /\ r.version \in Versions
      BY <2>5, <2>9, <3>1, RuleFacts DEF IInv, IsRule
    <3> HIDE DEF ov
    <3>3. CASE selectorEmpty(r.sel)
      <4>1. fallback[r.version] = r
        BY <3>2, <3>3 DEF Held
      <4>2. CASE selectorEmpty(ov.sel) /\ r.version = v
        BY <2>1, <2>2, <2>3, <4>1, <4>2, <3>2, <3>3, RuleFacts DEF IsRule
      <4>3. CASE ~ (selectorEmpty(ov.sel) /\ r.version = v)
        BY <2>1, <2>2, <2>3, <3>1, <3>2, <3>3, <4>1, <4>3 DEF Held
      <4> QED
        BY <4>2, <4>3
    <3>4. CASE ~ selectorEmpty(r.sel)
      BY <2>7, <3>1, <3>2, <3>4 DEF Held
    <3> QED
      BY <3>3, <3>4
  <2>10. RulesRead'
    <3> HIDE DEF ov
    <3>1. next + 1 <= Len(dir.overrides) + 1
      BY <1>1, <2>4
    <3>2. \A i \in DOMAIN dir.overrides : i < next + 1 => i < next \/ i = next
      BY <1>1, <2>4
    <3>3. \A i \in DOMAIN dir.overrides : i < next' => Held(fallback', rules', dir.overrides[i])
      BY <2>1, <2>8, <2>9, <3>2 DEF ov
    <3> QED
      BY <1>1, <2>1, <3>1, <3>3 DEF RulesRead
  <2>11. EntriesRead'
    BY <1>1, <2>1 DEF EntriesRead
  <2> QED
    BY <2>10, <2>11 DEF Progress
<1> QED
  BY <1>2, <1>3

LEMMA ReadLayersProgress ==
    ASSUME IInv, Progress, ReadLayers
    PROVE  Progress'
<1>1. CASE Refuse
  BY <1>1, ProgressKept DEF Refuse
<1>2. CASE ~ Refuse
  <2>1. /\ pc = "resolution" /\ next \notin DOMAIN dir.overrides
        /\ pc' = "contracts" /\ next' = 1 /\ UNCHANGED <<dir, fallback, rules, raw>>
    BY <1>2 DEF ReadLayers, Proceed
  <2>2. Len(dir.overrides) \in Nat /\ DOMAIN dir.overrides = 1..Len(dir.overrides)
    BY DirAssumption DEF IInv, IsDirectory, IsList
  <2>3. \A i \in DOMAIN dir.overrides : i < next
    BY <2>1, <2>2 DEF IInv
  <2>4. RulesRead'
    BY <2>1, <2>3 DEF RulesRead, Progress
  <2>5. AllContracts(dir) \in SUBSET (Nat \X Nat) /\ IsFiniteSet(AllContracts(dir))
    BY ContractsListed, DirAssumption DEF IInv
  <2>6. ASSUME NEW p \in AllContracts(dir) PROVE ~ (Position(dir, p) < 1)
    BY <2>5, OnePosition DEF Position
  <2>7. EntriesRead'
    BY <2>1, <2>6 DEF EntriesRead
  <2> QED
    BY <2>4, <2>7 DEF Progress
<1> QED
  BY <1>1, <1>2

LEMMA AddContractProgress ==
    ASSUME IInv, Progress, AddContract
    PROVE  Progress'
<1>1. pc = "contracts" /\ next <= Cardinality(AllContracts(dir))
  BY DEF AddContract
<1>2. CASE Refuse
  BY <1>2, ProgressKept DEF Refuse
<1>3. CASE ~ Refuse
  <2>1. PICK pos : pos = CHOOSE p \in AllContracts(dir) :
                     Cardinality({q \in AllContracts(dir) :
                         q[1] < p[1] \/ (q[1] = p[1] /\ q[2] <= p[2])}) = next
    OBVIOUS
  <2>2. pos \in AllContracts(dir) /\ Position(dir, pos) = next
    BY <1>1, <2>1, EntryAt DEF Position
  <2> DEFINE yc == dir.layers[pos[1]].contracts[pos[2]]
             id == Canonical(yc.version, yc.route)
  <2>3. /\ id \notin DOMAIN raw /\ next' = next + 1
        /\ raw' = [x \in DOMAIN raw \cup {id} |-> IF x = id THEN FreshContract(yc) ELSE raw[x]]
        /\ UNCHANGED <<dir, pc, fallback, rules>>
    BY <1>3, <2>1 DEF AddContract
  <2>4. DOMAIN raw' = DOMAIN raw \cup {id} /\ raw'[id] = FreshContract(yc)
        /\ \A x \in DOMAIN raw : raw'[x] = raw[x]
    <3> HIDE DEF yc, id
    <3> QED
      BY <2>3
  <2>5. Recorded(raw', dir, pos)
    BY <2>4 DEF Recorded
  <2>6. \A p \in AllContracts(dir) : Recorded(raw, dir, p) => Recorded(raw', dir, p)
    <3> HIDE DEF yc, id
    <3> QED
      BY <2>4 DEF Recorded
  <2> HIDE DEF yc, id
  <2>7. AllContracts(dir) \in SUBSET (Nat \X Nat) /\ IsFiniteSet(AllContracts(dir))
    BY ContractsListed, DirAssumption DEF IInv
  <2>8. ASSUME NEW p \in AllContracts(dir), Position(dir, p) < next + 1
        PROVE  Position(dir, p) < next \/ p = pos
    <3>1. /\ Position(dir, p) \in Nat
          /\ Position(dir, p) = Position(dir, pos) => p = pos
      BY <2>2, <2>7, OnePosition DEF Position
    <3>2. next \in Nat
      BY DEF IInv
    <3> QED
      BY <2>2, <2>8, <3>1, <3>2
  <2>9. \A p \in AllContracts(dir) : Position(dir, p) < next => Recorded(raw, dir, p)
    BY <1>1 DEF Progress, EntriesRead
  <2>10. \A p \in AllContracts(dir) : Position(dir, p) < next' => Recorded(raw', dir, p)
    BY <2>3, <2>5, <2>6, <2>8, <2>9
  <2>11. EntriesRead'
    BY <1>1, <2>3, <2>10 DEF EntriesRead
  <2>12. RulesRead'
    BY <1>1, <2>3 DEF Progress, RulesRead
  <2> QED
    BY <2>11, <2>12 DEF Progress
<1> QED
  BY <1>2, <1>3

LEMMA ApplyResolutionProgress ==
    ASSUME IInv, Progress, ApplyResolution
    PROVE  Progress'
<1>1. CASE Refuse
  BY <1>1, ProgressKept DEF Refuse
<1>2. CASE ~ Refuse
  <2>1. /\ pc = "contracts" /\ next > Cardinality(AllContracts(dir))
        /\ pc' = "chains" /\ UNCHANGED <<dir, fallback, rules, raw>>
    BY <1>2 DEF ApplyResolution, Proceed
  <2>2. AllContracts(dir) \in SUBSET (Nat \X Nat) /\ IsFiniteSet(AllContracts(dir))
    BY ContractsListed, DirAssumption DEF IInv
  <2>3. ASSUME NEW p \in AllContracts(dir) PROVE Position(dir, p) < next
    <3>1. /\ Position(dir, p) \in Nat /\ Cardinality(AllContracts(dir)) \in Nat
          /\ Position(dir, p) <= Cardinality(AllContracts(dir))
      BY <2>2, OnePosition, FS_CardinalityType DEF Position
    <3>2. next \in Nat
      BY DEF IInv
    <3> QED
      BY <2>1, <3>1, <3>2
  <2>4. EntriesRead'
    BY <2>1, <2>3 DEF Progress, EntriesRead
  <2>5. RulesRead'
    BY <2>1 DEF Progress, RulesRead
  <2> QED
    BY <2>4, <2>5 DEF Progress
<1> QED
  BY <1>1, <1>2

LEMMA NextProgress == IInv /\ Progress /\ [Next]_vars => Progress'
<1> SUFFICES ASSUME IInv, Progress, [Next]_vars PROVE Progress'
  OBVIOUS
<1>1. CASE LayerDirs \/ LoadResolution \/ ReadLayers \/ AddContract \/ ApplyResolution
  BY <1>1, LayerDirsProgress, LoadResolutionProgress, ReadLayersProgress,
     AddContractProgress, ApplyResolutionProgress
<1>2. CASE StartChain
  BY <1>2, ProgressKept DEF StartChain
<1>3. CASE FollowTarget
  <2>1. UNCHANGED <<dir, fallback, rules, raw>> /\ (pc' = "failed" \/ (pc' = pc /\ next' = next))
    BY <1>3, Zenon DEF FollowTarget, Refuse
  <2> QED
    BY <2>1, ProgressKept
<1>4. CASE Return
  BY <1>4, ProgressKept DEF Return
<1>5. CASE UNCHANGED vars
  BY <1>5, ProgressKept DEF vars
<1> QED
  BY <1>1, <1>2, <1>3, <1>4, <1>5 DEF Next

LEMMA ProgressHolds == Spec => []Progress
  BY InitProgress, NextProgress, Invariance, PTL DEF Spec

\* The rule found for a name is the only one with its selectors.
LEMMA RuleFound ==
    ASSUME RulesKept, NEW ov \in AllRules, Held(fallback, rules, ov),
           NEW id, id.version = ov.version, id.sel = ov.sel
    PROVE  RuleIn(fallback, rules, id) = ov
<1> DEFINE v  == ov.version
           rs == rules[v]
<1>1. v \in Versions /\ ov.sel \in Selectors
  BY RuleFacts DEF IsRule
<1>2. CASE selectorEmpty(ov.sel)
  BY <1>2 DEF RuleIn, Held
<1>3. CASE ~ selectorEmpty(ov.sel)
  <2>1. PICK k \in DOMAIN rs : rs[k] = ov
    BY <1>3 DEF Held
  <2>2. PICK i \in DOMAIN rs : rs[i].sel = ov.sel /\ RuleIn(fallback, rules, id) = rs[i]
    BY <1>3, <2>1, Zenon DEF RuleIn
  <2>3. selectorOverlap(rs[i].sel, rs[k].sel)
    BY <2>1, <2>2 DEF selectorOverlap
  <2>4. i = k
    BY <1>1, <2>3 DEF RulesKept, Exclusive
  <2> QED
    BY <2>1, <2>2, <2>4
<1> QED
  BY <1>2, <1>3

\* The bundle Load returns has every contract the layers ship and every override
\* of resolution.yaml, each rule on the contract as shipped (bundle.go:526-612).
THEOREM LoadCompleteHolds == Spec => []LoadComplete
<1>1. IInv /\ Progress => LoadComplete
  <2> SUFFICES ASSUME IInv, Progress, pc = "loaded", NEW p \in AllContracts(dir)
               PROVE  LET yc == dir.layers[p[1]].contracts[p[2]]
                          c  == Canonical(yc.version, yc.route)
                      IN  /\ c \in DOMAIN contract
                          /\ \A i \in DOMAIN dir.overrides :
                                LET ov == dir.overrides[i]
                                    id == [c EXCEPT !.sel = ov.sel]
                                IN  ov.version = yc.version =>
                                        /\ id \in DOMAIN contract
                                        /\ contract[id] = applyResolution(FreshContract(yc), ov)
    BY Zenon DEF LoadComplete
  <2> DEFINE yc == dir.layers[p[1]].contracts[p[2]]
             c  == Canonical(yc.version, yc.route)
  <2>1. Installed
    BY DEF IInv, Reading
  <2>2. c \in DOMAIN raw /\ raw[c] = FreshContract(yc)
    BY DEF Progress, EntriesRead, Recorded
  <2>3. yc.version \in Versions /\ yc.route \in Routes
    BY EntryFacts DEF IInv
  <2> HIDE DEF yc
  <2>4. c.version = yc.version /\ c.route = yc.route /\ c.sel = NoSelectors
    BY DEF Canonical
  <2>5. ASSUME NEW s \in Selectors, NEW id, id = [c EXCEPT !.sel = s],
               selectorEmpty(s) \/ \E k \in DOMAIN rules[yc.version] : rules[yc.version][k].sel = s
        PROVE  /\ id \in DOMAIN contract
               /\ contract[id] = applyResolution(FreshContract(yc), RuleIn(fallback, rules, id))
    <3>1. /\ id \in ContractIds /\ id.version = yc.version /\ id.route = yc.route
          /\ id.sel = s
      BY <2>3, <2>5 DEF Canonical, ContractIds
    <3>2. Canonical(id.version, id.route) = c
      BY <3>1
    <3> HIDE DEF c
    <3>3. id \in IdsOf(raw, rules)
      BY <2>2, <2>5, <3>1, <3>2, Zenon DEF IdsOf
    <3> QED
      BY <2>1, <2>2, <3>2, <3>3, Zenon DEF Installed, ContractsOf
  <2>6. c \in DOMAIN contract
    <3>1. NoSelectors \in Selectors /\ selectorEmpty(NoSelectors)
      BY BundleAssumption DEF NoSelectors, Selectors, selectorEmpty
    <3>2. c = [c EXCEPT !.sel = NoSelectors]
      BY DEF Canonical
    <3> QED
      BY <2>5, <3>1, <3>2
  <2>7. ASSUME NEW i \in DOMAIN dir.overrides, NEW ov, ov = dir.overrides[i],
               ov.version = yc.version, NEW id, id = [c EXCEPT !.sel = ov.sel]
        PROVE  id \in DOMAIN contract /\ contract[id] = applyResolution(FreshContract(yc), ov)
    <3>1. ov \in AllRules /\ ov.sel \in Selectors
      BY <2>7, RuleFacts DEF IInv, IsRule
    <3>2. Held(fallback, rules, ov)
      BY <2>7 DEF Progress, RulesRead
    <3>3. id.version = ov.version /\ id.sel = ov.sel
      BY <2>4, <2>7 DEF Canonical
    <3>4. RuleIn(fallback, rules, id) = ov
      BY <3>1, <3>2, <3>3, RuleFound DEF IInv
    <3>5. selectorEmpty(ov.sel) \/ \E k \in DOMAIN rules[yc.version] : rules[yc.version][k].sel = ov.sel
      BY <2>7, <3>2 DEF Held
    <3> HIDE DEF c
    <3> QED
      BY <2>5, <2>7, <3>1, <3>4, <3>5
  <2> HIDE DEF c
  <2> QED
    BY <2>6, <2>7, Zenon DEF c, yc
<1> QED
  BY <1>1, Invariance, ProgressHolds, PTL
=============================================================================
