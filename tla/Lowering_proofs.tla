--------------------------- MODULE Lowering_proofs ---------------------------
(* Proofs about module Lowering. *)
EXTENDS Lowering, TLAPS, FiniteSetTheorems, WellFoundedInduction

-----------------------------------------------------------------------------
(* The inductive invariant *)

Collecting == stage \in {"collect", "name", "build", "accepted"}

\* A set of components that has the bodies and is closed under references.
ClosedIn(d, S) ==
    /\ realRoots(d) \subseteq S
    /\ \A m \in S : RefsOf(d, m) \subseteq S

\* Nothing is forgotten: what a body or a visited component refers to has been
\* visited or is pending.
NothingForgotten ==
    /\ realRoots(doc) \subseteq visited \cup pending
    /\ \A m \in visited : RefsOf(doc, m) \subseteq visited \cup pending

\* Nothing is made up: every closed set has what was visited or is pending.
NothingInvented ==
    \A S \in SUBSET DOMAIN doc.schemas : ClosedIn(doc, S) => visited \cup pending \subseteq S

LInv ==
    /\ stage = "read" => visited = {} /\ needed = {}
    /\ Collecting => NothingForgotten /\ NothingInvented
    /\ stage \in {"name", "build", "accepted"} => pending = {}
    /\ visited \subseteq DOMAIN doc.schemas
    /\ needed = {n \in visited : IsMessage(doc, n)}

LEMMA InitHolds == LowerInit => LInv
  BY DEF LowerInit, LInv, Collecting

LEMMA RefuseStep ==
    ASSUME LInv, Refuse
    PROVE  LInv'
  BY DEF LInv, Refuse, Collecting, NothingForgotten, NothingInvented

LEMMA ReadOperationsStep ==
    ASSUME LInv, ReadOperations
    PROVE  LInv'
<1>1. CASE Refuse
  BY <1>1, RefuseStep
<1>2. CASE /\ stage' = "collect" /\ pending' = realRoots(doc)
           /\ UNCHANGED <<doc, visited, needed, idents, messages>>
  <2>1. visited = {} /\ needed = {}
    BY DEF LInv, ReadOperations
  <2>2. NothingForgotten'
    BY <1>2, <2>1 DEF NothingForgotten
  <2>3. NothingInvented'
    BY <1>2, <2>1 DEF NothingInvented, ClosedIn
  <2> QED
    BY <1>2, <2>1, <2>2, <2>3 DEF LInv
<1> QED
  BY <1>1, <1>2 DEF ReadOperations

LEMMA VisitStep ==
    ASSUME LInv, NEW n \in Components, Visit(n)
    PROVE  LInv'
<1>1. CASE Refuse
  BY <1>1, RefuseStep
<1>2. CASE ~ VisitRefused(doc, n)
  <2>1. /\ stage = "collect" /\ stage' = stage /\ n \in pending
        /\ visited' = visited \cup {n}
        /\ pending' = (pending \cup RefsOf(doc, n)) \ visited'
        /\ needed' = IF IsMessage(doc, n) THEN needed \cup {n} ELSE needed
        /\ doc' = doc
    BY <1>2 DEF Visit, PulledIn
  <2>2. n \in DOMAIN doc.schemas
    BY <1>2 DEF VisitRefused
  <2>3. NothingForgotten /\ NothingInvented
    BY <2>1 DEF LInv, Collecting
  <2>4. visited' \cup pending' = visited \cup pending \cup RefsOf(doc, n)
    BY <2>1
  <2>5. NothingForgotten'
    BY <2>1, <2>3, <2>4 DEF NothingForgotten
  <2>6. NothingInvented'
    <3> SUFFICES ASSUME NEW S \in SUBSET DOMAIN doc.schemas, ClosedIn(doc, S)
                 PROVE  visited' \cup pending' \subseteq S
      BY <2>1 DEF NothingInvented
    <3>1. visited \cup pending \subseteq S
      BY <2>3 DEF NothingInvented
    <3>2. RefsOf(doc, n) \subseteq S
      BY <2>1, <3>1 DEF ClosedIn
    <3> QED
      BY <2>4, <3>1, <3>2
  <2>7. needed' = {m \in visited' : IsMessage(doc, m)}
    BY <2>1 DEF LInv
  <2> QED
    BY <2>1, <2>2, <2>5, <2>6, <2>7 DEF LInv
<1> QED
  BY <1>1, <1>2 DEF Visit

LEMMA CollectedStep ==
    ASSUME LInv, Collected
    PROVE  LInv'
<1>1. CASE Refuse
  BY <1>1, RefuseStep
<1>2. CASE stage' = "name" /\ UNCHANGED <<doc, pending, visited, needed, idents, messages>>
  <2>1. NothingForgotten' /\ NothingInvented'
    BY <1>2 DEF LInv, Collected, Collecting, NothingForgotten, NothingInvented
  <2> QED
    BY <1>2, <2>1 DEF LInv, Collected
<1> QED
  BY <1>1, <1>2 DEF Collected

\* Naming and building come after: they leave the components as they are.
LEMMA LaterStep ==
    ASSUME LInv, NameMessage \/ BuildMessage \/ UNCHANGED lowerVars
    PROVE  LInv'
<1>1. UNCHANGED <<doc, pending, visited, needed>>
  BY DEF NameMessage, BuildMessage, lowerVars
<1>2. stage' = stage \/ (stage \in {"name", "build"} /\ stage' # "read")
  BY DEF NameMessage, BuildMessage, lowerVars
<1>3. Collecting' => Collecting
  BY <1>2 DEF Collecting
<1>4. NothingForgotten => NothingForgotten'
  BY <1>1 DEF NothingForgotten
<1>5. NothingInvented => NothingInvented'
  BY <1>1 DEF NothingInvented
<1> QED
  BY <1>1, <1>2, <1>3, <1>4, <1>5 DEF LInv

LEMMA StepHolds == LInv /\ [LowerNext]_lowerVars => LInv'
  BY ReadOperationsStep, VisitStep, CollectedStep, LaterStep DEF LowerNext

-----------------------------------------------------------------------------
(* The theorems *)

\* What has been visited is what the bodies reach.
LEMMA ReproducibleFollows == LInv => Reproducible
<1> SUFFICES ASSUME LInv, stage \in {"name", "build", "accepted"}
             PROVE  visited = Reach(doc)
  BY DEF LInv, Reproducible
<1>1. NothingForgotten /\ NothingInvented /\ pending = {} /\ visited \subseteq DOMAIN doc.schemas
  BY DEF LInv, Collecting
<1>2. ClosedIn(doc, visited)
  BY <1>1 DEF NothingForgotten, ClosedIn
<1>3. Reach(doc) \subseteq visited
  BY <1>1, <1>2 DEF Reach, ClosedIn
<1>4. visited \subseteq Reach(doc)
  BY <1>1 DEF NothingInvented, Reach, ClosedIn
<1> QED
  BY <1>3, <1>4

\* bundlegen.go:283-286, 663-722: for any document and whatever order Go's maps
\* are walked in, the messages of a layer are those of the components the
\* operations reach.
THEOREM ReproducibleHolds == LowerSpec => []Reproducible
<1>1. LInv => Reproducible
  BY ReproducibleFollows
<1> QED
  BY <1>1, InitHolds, StepHolds, PTL DEF LowerSpec

LEMMA LeastNumber ==
    ASSUME NEW S \in SUBSET Nat, S # {}
    PROVE  \E i \in S : \A j \in S : i <= j
<1> DEFINE R == OpToRel(<, Nat)
<1>1. PICK i \in S : \A j \in S : ~ (<<j, i>> \in R)
  <2>1. IsWellFoundedOn(R, Nat)
    BY NatLessThanWellFounded
  <2> HIDE DEF R
  <2> QED
    BY <2>1, WFMin
<1>2. \A j \in S : ~ (j < i)
  BY <1>1 DEF OpToRel
<1> QED
  BY <1>2

\* bundlegen.go:1211-1219: the identifier is new, however many names have been
\* sanitized to it before, as long as numbering tells identifiers apart.
THEOREM UniqueIdentIsFresh ==
    ASSUME NEW raw, NEW used, IsFiniteSet(used),
           \A i, j \in 2..Cardinality(used) + 2 :
               i # j => Numbered(Ident(raw), i) # Numbered(Ident(raw), j)
    PROVE  uniqueIdent(raw, used) \notin used
<1> DEFINE n    == Cardinality(used)
           free == {i \in 2..n + 2 : Numbered(Ident(raw), i) \notin used}
           f    == [i \in 2..n + 2 |-> Numbered(Ident(raw), i)]
<1>1. n \in Nat
  BY FS_CardinalityType
<1>2. free # {}
  <2> SUFFICES ASSUME free = {} PROVE FALSE
    OBVIOUS
  <2>1. f \in [2..n + 2 -> used]
    OBVIOUS
  <2>2. IsFiniteSet(2..n + 2) /\ Cardinality(2..n + 2) = n + 1
    <3>1. PICK m \in Nat : m = n
      BY <1>1
    <3>2. /\ IsFiniteSet(2..m + 2)
          /\ Cardinality(2..m + 2) = IF 2 > m + 2 THEN 0 ELSE m + 2 - 2 + 1
      BY FS_Interval
    <3> QED
      BY <3>1, <3>2
  <2>3. n < Cardinality(2..n + 2)
    BY <1>1, <2>2
  <2>4. \E i, j \in 2..n + 2 : i # j /\ f[i] = f[j]
    <3> DEFINE S == 2..n + 2
    <3>1. IsFiniteSet(S) /\ Cardinality(used) < Cardinality(S) /\ f \in [S -> used]
      BY <2>1, <2>2, <2>3
    <3> HIDE DEF f, S
    <3>2. \E i, j \in S : i # j /\ f[i] = f[j]
      BY <3>1, FS_PigeonHole
    <3> QED
      BY <3>2 DEF S
  <2> QED
    BY <2>4
<1>3. \E i \in free : \A j \in free : i <= j
  <2>1. free \in SUBSET Nat
    BY <1>1
  <2> HIDE DEF free
  <2> QED
    BY <1>2, <2>1, LeastNumber
<1>4. CASE Ident(raw) \notin used
  BY <1>4 DEF uniqueIdent
<1>5. CASE Ident(raw) \in used
  BY <1>3, <1>5 DEF uniqueIdent
<1> QED
  BY <1>4, <1>5

-----------------------------------------------------------------------------
(* Identifiers *)

\* A naming gives different names to different things.
Distinct(f) ==
    /\ DOMAIN f \subseteq Ordered
    /\ \A m, n \in DOMAIN f : m # n => f[m] # f[n]

\* There are no more names than places in the order.
LEMMA OrderedFinite ==
    IsFiniteSet(Ordered) /\ Cardinality(Ordered) <= Len(Order) /\ Len(Order) \in Nat
<1> DEFINE f == [i \in DOMAIN Order |-> Order[i]]
<1>1. Len(Order) \in Nat /\ DOMAIN Order = 1..Len(Order)
  BY OrderAssumption
<1>2. f \in Surjection(DOMAIN Order, Ordered)
  BY DEF Surjection, Ordered
<1>3. IsFiniteSet(DOMAIN Order) /\ Cardinality(DOMAIN Order) = Len(Order)
  <2>1. PICK n \in Nat : n = Len(Order) /\ DOMAIN Order = 1..n
    BY <1>1
  <2>2. /\ IsFiniteSet(1..n)
        /\ Cardinality(1..n) = IF 1 > n THEN 0 ELSE n - 1 + 1
    BY FS_Interval
  <2> QED
    BY <2>1, <2>2
<1> HIDE DEF f
<1>4. IsFiniteSet(Ordered) /\ Cardinality(Ordered) <= Cardinality(DOMAIN Order)
  BY <1>2, <1>3, FS_Surjection
<1> QED
  BY <1>1, <1>3, <1>4

ImageOf(f) == {f[x] : x \in DOMAIN f}

LEMMA ImageFinite ==
    ASSUME NEW f, DOMAIN f \subseteq Ordered
    PROVE  /\ IsFiniteSet(ImageOf(f)) /\ Cardinality(ImageOf(f)) \in Nat
           /\ Cardinality(ImageOf(f)) <= Len(Order)
<1> DEFINE g == [x \in DOMAIN f |-> f[x]]
<1>1. g \in Surjection(DOMAIN f, ImageOf(f))
  BY DEF Surjection, ImageOf
<1>2. /\ IsFiniteSet(DOMAIN f)
      /\ Cardinality(DOMAIN f) <= Cardinality(Ordered)
  BY OrderedFinite, FS_Subset
<1> HIDE DEF g
<1>3. IsFiniteSet(ImageOf(f)) /\ Cardinality(ImageOf(f)) <= Cardinality(DOMAIN f)
  BY <1>1, <1>2, FS_Surjection
<1>4. /\ Cardinality(ImageOf(f)) \in Nat /\ Cardinality(DOMAIN f) \in Nat
      /\ Cardinality(Ordered) \in Nat
  BY <1>2, <1>3, OrderedFinite, FS_CardinalityType
<1> QED
  BY <1>2, <1>3, <1>4, OrderedFinite

\* One more name leaves a naming distinct: numbering never runs out.
LEMMA NamedDistinct ==
    ASSUME NEW f, Distinct(f), NEW n \in Ordered, n \notin DOMAIN f
    PROVE  Distinct(Named(f, n)) /\ DOMAIN Named(f, n) = DOMAIN f \cup {n}
<1> DEFINE used == ImageOf(f)
<1>1. /\ IsFiniteSet(used) /\ Cardinality(used) \in Nat
      /\ Cardinality(used) <= Len(Order) /\ Len(Order) \in Nat
  BY ImageFinite, OrderedFinite DEF Distinct
<1>2. \A i, j \in 2..Cardinality(used) + 2 : i # j => Numbered(Ident(n), i) # Numbered(Ident(n), j)
  <2>1. 2..Cardinality(used) + 2 \subseteq 2..Len(Order) + 2
    BY <1>1
  <2> QED
    BY <2>1, NumberedAssumption
<1>3. uniqueIdent(n, used) \notin used
  BY <1>1, <1>2, UniqueIdentIsFresh
<1> DEFINE g == Named(f, n)
<1>4. /\ DOMAIN g = DOMAIN f \cup {n}
      /\ g[n] = uniqueIdent(n, used)
      /\ \A m \in DOMAIN f : g[m] = f[m] /\ g[m] \in used
  BY DEF Named, ImageOf
<1> HIDE DEF g, used
<1>5. Distinct(g)
  BY <1>3, <1>4 DEF Distinct
<1> QED
  BY <1>4, <1>5 DEF g

\* What giving names to fields does at a place of the order.
FieldStep(props, f, i) == IF Order[i] \in DOMAIN props THEN Named(f, Order[i]) ELSE f

NamesUpTo(props, g, n) ==
    g = [i \in 0..n |-> IF i = 0 THEN <<>> ELSE FieldStep(props, g[i - 1], i)]

LEMMA FieldNamesExist ==
    ASSUME NEW props
    PROVE  \A n \in Nat : \E g : NamesUpTo(props, g, n)
<1> DEFINE S == {n \in Nat : ~ \E g : NamesUpTo(props, g, n)}
<1> SUFFICES ASSUME S # {} PROVE FALSE
  OBVIOUS
<1>1. PICK n \in S : \A j \in S : n <= j
  <2>1. S \in SUBSET Nat
    OBVIOUS
  <2> HIDE DEF S
  <2> QED
    BY <2>1, LeastNumber
<1>2. n \in Nat /\ ~ \E g : NamesUpTo(props, g, n)
  OBVIOUS
<1>3. n # 0
  <2>1. NamesUpTo(props, [i \in 0..0 |-> <<>>], 0)
    BY DEF NamesUpTo
  <2> QED
    BY <1>2, <2>1
<1>4. n - 1 \in Nat /\ n - 1 \notin S
  BY <1>1, <1>2, <1>3
<1>5. PICK g : NamesUpTo(props, g, n - 1)
  BY <1>4
<1> DEFINE h == [i \in 0..n |-> IF i = n THEN FieldStep(props, g[n - 1], n) ELSE g[i]]
<1>6. \A i \in 0..n - 1 : g[i] = IF i = 0 THEN <<>> ELSE FieldStep(props, g[i - 1], i)
  BY <1>5 DEF NamesUpTo
<1>7. \A i \in 0..n : h[i] = IF i = 0 THEN <<>> ELSE FieldStep(props, h[i - 1], i)
  <2> TAKE i \in 0..n
  <2>1. CASE i = n
    <3>1. h[n] = FieldStep(props, g[n - 1], n) /\ h[n - 1] = g[n - 1]
      BY <1>2, <1>4
    <3> HIDE DEF h
    <3> QED
      BY <1>3, <2>1, <3>1
  <2>2. CASE i # n
    <3>1. i \in 0..n - 1 /\ h[i] = g[i] /\ (i # 0 => h[i - 1] = g[i - 1])
      BY <1>2, <2>2
    <3> HIDE DEF h
    <3> QED
      BY <1>6, <3>1
  <2> QED
    BY <2>1, <2>2
<1>8. h = [i \in 0..n |-> IF i = 0 THEN <<>> ELSE FieldStep(props, h[i - 1], i)]
  <2>1. h = [i \in 0..n |-> h[i]]
    OBVIOUS
  <2> HIDE DEF h
  <2> QED
    BY <1>7, <2>1
<1> HIDE DEF h, S
<1> QED
  BY <1>2, <1>8 DEF NamesUpTo

\* The properties that come in the first i places.
Given(props, i) == {Order[j] : j \in 1..i} \cap DOMAIN props

LEMMA FieldNamesDistinct ==
    ASSUME NEW props, NEW g, NamesUpTo(props, g, Len(Order))
    PROVE  \A i \in 0..Len(Order) : DOMAIN g[i] = Given(props, i) /\ Distinct(g[i])
<1> DEFINE Good(i) == DOMAIN g[i] = Given(props, i) /\ Distinct(g[i])
           S       == {i \in 0..Len(Order) : ~ Good(i)}
<1> SUFFICES ASSUME S # {} PROVE FALSE
  OBVIOUS
<1>1. PICK n \in S : \A j \in S : n <= j
  <2>1. S \in SUBSET Nat
    OBVIOUS
  <2> HIDE DEF S
  <2> QED
    BY <2>1, LeastNumber
<1>2. n \in 0..Len(Order) /\ ~ Good(n) /\ Len(Order) \in Nat /\ DOMAIN Order = 1..Len(Order)
  BY OrderAssumption
<1>3. \A i \in 0..Len(Order) : g[i] = IF i = 0 THEN <<>> ELSE FieldStep(props, g[i - 1], i)
  BY DEF NamesUpTo
<1>4. n # 0
  <2>1. g[0] = <<>>
    BY <1>2, <1>3
  <2>2. Given(props, 0) = {}
    BY DEF Given
  <2>3. DOMAIN <<>> = {}
    OBVIOUS
  <2>4. Good(0)
    BY <2>1, <2>2, <2>3 DEF Distinct
  <2> QED
    BY <1>2, <2>4
<1>5. n - 1 \in 0..Len(Order) /\ n \in DOMAIN Order /\ n - 1 \notin S
  BY <1>1, <1>2, <1>4
<1>6. Good(n - 1)
  BY <1>5
<1>7. g[n] = FieldStep(props, g[n - 1], n)
  BY <1>2, <1>3, <1>4
<1>8. Order[n] \in Ordered
  BY <1>5 DEF Ordered
<1>9. {Order[j] : j \in 1..n} = {Order[j] : j \in 1..n - 1} \cup {Order[n]}
  <2>1. 1..n = 1..n - 1 \cup {n}
    BY <1>2, <1>4
  <2> QED
    BY <2>1
<1>10. Order[n] \notin {Order[j] : j \in 1..n - 1}
  <2>1. \A j \in 1..n - 1 : j \in DOMAIN Order /\ j # n
    BY <1>2, <1>4
  <2> QED
    BY <1>5, <2>1, OrderAssumption
<1>11. CASE Order[n] \in DOMAIN props
  <2>1. g[n] = Named(g[n - 1], Order[n])
    BY <1>7, <1>11 DEF FieldStep
  <2>2. Order[n] \notin DOMAIN g[n - 1]
    BY <1>6, <1>10 DEF Given
  <2>3. Distinct(g[n]) /\ DOMAIN g[n] = DOMAIN g[n - 1] \cup {Order[n]}
    <3>1. PICK f, k : f = g[n - 1] /\ k = Order[n]
      OBVIOUS
    <3>2. Distinct(f) /\ k \in Ordered /\ k \notin DOMAIN f
      BY <1>6, <1>8, <2>2, <3>1
    <3>3. Distinct(Named(f, k)) /\ DOMAIN Named(f, k) = DOMAIN f \cup {k}
      BY <3>2, NamedDistinct
    <3> QED
      BY <2>1, <3>1, <3>3
  <2>4. DOMAIN g[n] = Given(props, n)
    BY <1>6, <1>9, <1>11, <2>3 DEF Given
  <2> QED
    BY <1>2, <2>3, <2>4
<1>12. CASE Order[n] \notin DOMAIN props
  <2>1. g[n] = g[n - 1]
    BY <1>7, <1>12 DEF FieldStep
  <2>2. Given(props, n) = Given(props, n - 1)
    BY <1>9, <1>12 DEF Given
  <2> QED
    BY <1>2, <1>6, <2>1, <2>2
<1> QED
  BY <1>11, <1>12

\* Every property gets a field name, and no two the same.
LEMMA FieldIdentsDistinct ==
    ASSUME NEW props, DOMAIN props \subseteq Ordered
    PROVE  DOMAIN FieldIdents(props) = DOMAIN props /\ Distinct(FieldIdents(props))
<1>1. Len(Order) \in Nat /\ DOMAIN Order = 1..Len(Order)
  BY OrderAssumption
<1> DEFINE at == CHOOSE g : NamesUpTo(props, g, Len(Order))
<1>2. NamesUpTo(props, at, Len(Order))
  BY <1>1, FieldNamesExist
<1>3. FieldIdents(props) = at[Len(Order)]
  BY DEF FieldIdents, NamesUpTo, FieldStep
<1>4. Len(Order) \in 0..Len(Order)
  BY <1>1
<1> HIDE DEF at
<1>5. DOMAIN at[Len(Order)] = Given(props, Len(Order)) /\ Distinct(at[Len(Order)])
  BY <1>2, <1>4, FieldNamesDistinct
<1>6. Given(props, Len(Order)) = DOMAIN props
  BY <1>1 DEF Given, Ordered
<1> QED
  BY <1>3, <1>5, <1>6

\* The first of some names is one of them.
LEMMA FirstIsIn ==
    ASSUME NEW S \in SUBSET Ordered, S # {}
    PROVE  First(S) \in S
<1> DEFINE R == {Rank(n) : n \in S}
<1>1. \A n \in S : Rank(n) \in Nat
  <2>1. \A n \in S : Rank(n) \in DOMAIN Order
    BY DEF Ordered, Rank
  <2>2. DOMAIN Order \subseteq Nat
    BY OrderAssumption
  <2> QED
    BY <2>1, <2>2
<1>2. \E i \in R : \A j \in R : i <= j
  <2>1. R \in SUBSET Nat /\ R # {}
    BY <1>1
  <2> HIDE DEF R
  <2> QED
    BY <2>1, LeastNumber
<1> QED
  BY <1>2 DEF First

-----------------------------------------------------------------------------
(* The messages and the bindings *)

Naming == stage \in {"name", "build", "accepted"}

\* What has been built is what the document says, and was not refused.
Built(n) ==
    /\ messages[n] = FieldsOf(doc, n)
    /\ n \in needed => ~ BuildRefused(doc, n)

\* The bodies are messages; names go to the messages of the layer and fields to
\* what has a name, and none is left out in the end.
BInv ==
    /\ doc \in Documents
    /\ stage \in {"read", "collect"} => DOMAIN idents = {}
    /\ stage \in {"read", "collect", "name"} => DOMAIN messages = {}
    /\ Naming => realRoots(doc) \subseteq needed
    /\ DOMAIN idents \subseteq MessageNames(doc, needed)
    /\ stage \in {"build", "accepted"} => DOMAIN idents = MessageNames(doc, needed)
    /\ DOMAIN messages \subseteq DOMAIN idents
    /\ stage = "accepted" => DOMAIN messages = DOMAIN idents
    /\ \A n \in DOMAIN messages : Built(n)

LEMMA BInitHolds == LowerInit => BInv
<1>1. DOMAIN <<>> = {}
  OBVIOUS
<1> QED
  BY <1>1 DEF LowerInit, BInv, Naming

\* The messages of a layer have a place in the order.
LEMMA MessageNamesOrdered ==
    ASSUME LInv, BInv
    PROVE  MessageNames(doc, needed) \subseteq Ordered
<1>1. needed \subseteq DOMAIN doc.schemas
  BY DEF LInv
<1>2. DOMAIN doc.schemas \subseteq Components
  BY OrderAssumption DEF BInv
<1> QED
  BY <1>1, <1>2, OrderAssumption DEF MessageNames

LEMMA BEarlyStep ==
    ASSUME BInv, UNCHANGED <<doc, idents, messages>>, stage \in {"read", "collect"},
           stage' \in {"refused", "collect"}
    PROVE  BInv'
<1>1. DOMAIN idents = {} /\ DOMAIN messages = {}
  BY DEF BInv
<1>2. DOMAIN idents' = {} /\ DOMAIN messages' = {} /\ doc' \in Documents
  BY <1>1 DEF BInv
<1> QED
  BY <1>2 DEF BInv, Naming

LEMMA BRefuseStep ==
    ASSUME BInv, UNCHANGED <<doc, pending, visited, needed, idents, messages>>,
           stage' \in {"refused", "crashed"}
    PROVE  BInv'
<1>1. \A n \in DOMAIN messages : Built(n)'
  BY DEF BInv, Built, FieldsOf
<1> QED
  BY <1>1 DEF BInv, Naming

LEMMA BCollectedStep ==
    ASSUME BInv, Collected
    PROVE  BInv'
<1>1. CASE Refuse
  BY <1>1, BRefuseStep DEF Refuse
<1>2. CASE /\ Bodies(doc, needed) /\ stage' = "name"
           /\ UNCHANGED <<doc, pending, visited, needed, idents, messages>>
  <2>1. DOMAIN idents' = {} /\ DOMAIN messages' = {} /\ doc' \in Documents
    BY <1>2 DEF BInv, Collected
  <2>2. realRoots(doc') \subseteq needed'
    BY <1>2 DEF Bodies
  <2> QED
    BY <1>2, <2>1, <2>2 DEF BInv, Naming
<1> QED
  BY <1>1, <1>2 DEF Collected

LEMMA BNameMessageStep ==
    ASSUME LInv, BInv, NameMessage
    PROVE  BInv'
<1> DEFINE todo == MessageNames(doc, needed) \ DOMAIN idents
<1>1. /\ stage = "name"
      /\ UNCHANGED <<doc, pending, visited, needed, messages>>
  BY DEF NameMessage
<1>2. DOMAIN messages' = {} /\ doc' \in Documents /\ realRoots(doc') \subseteq needed'
  BY <1>1 DEF BInv, Naming
<1>3. MessageNames(doc', needed') = MessageNames(doc, needed)
  BY <1>1
<1>4. CASE todo = {}
  <2>1. stage' = "build" /\ idents' = idents
    BY <1>4 DEF NameMessage
  <2>2. DOMAIN idents' = MessageNames(doc, needed)
    BY <1>4, <2>1 DEF BInv
  <2> QED
    BY <1>2, <1>3, <2>1, <2>2 DEF BInv
<1>5. CASE todo # {}
  <2>1. stage' = stage /\ idents' = Named(idents, First(todo))
    BY <1>5 DEF NameMessage
  <2>2. First(todo) \in todo
    BY <1>5, MessageNamesOrdered, FirstIsIn
  <2>3. DOMAIN idents' \subseteq MessageNames(doc, needed)
    BY <2>1, <2>2 DEF BInv, Named
  <2> QED
    BY <1>1, <1>2, <1>3, <2>1, <2>3 DEF BInv
<1> QED
  BY <1>4, <1>5

LEMMA BBuildMessageStep ==
    ASSUME LInv, BInv, BuildMessage
    PROVE  BInv'
<1> DEFINE todo == DOMAIN idents \ DOMAIN messages
<1>1. stage = "build" /\ UNCHANGED <<doc, pending, visited, needed, idents>>
  BY DEF BuildMessage
<1>2. CASE stage' \in {"refused", "crashed"} /\ messages' = messages
  BY <1>1, <1>2, BRefuseStep
<1>3. CASE todo = {} /\ stage' = "accepted" /\ messages' = messages
  <2>1. \A m \in DOMAIN messages : Built(m)'
    BY <1>1, <1>3 DEF BInv, Built, FieldsOf
  <2>2. DOMAIN messages = DOMAIN idents
    BY <1>3 DEF BInv
  <2> QED
    BY <1>1, <1>3, <2>1, <2>2 DEF BInv, Naming
<1>4. CASE /\ todo # {} /\ stage' = stage
           /\ First(todo) \in needed => ~ BuildRefused(doc, First(todo))
           /\ messages' = [m \in DOMAIN messages \cup {First(todo)} |->
                              IF m = First(todo) THEN FieldsOf(doc, First(todo)) ELSE messages[m]]
  <2>1. First(todo) \in todo
    <3>1. todo \in SUBSET Ordered
      BY MessageNamesOrdered DEF BInv
    <3> HIDE DEF todo
    <3> QED
      BY <1>4, <3>1, FirstIsIn
  <2>2. PICK n \in todo : n = First(todo)
    BY <2>1
  <2>3. /\ DOMAIN messages' = DOMAIN messages \cup {n}
        /\ messages'[n] = FieldsOf(doc, n)
        /\ \A m \in DOMAIN messages : m # n => messages'[m] = messages[m]
        /\ n \in needed => ~ BuildRefused(doc, n)
    BY <1>4, <2>2
  <2> HIDE DEF todo
  <2>4. \A m \in DOMAIN messages' : Built(m)'
    <3>1. Built(n)'
      BY <1>1, <2>3 DEF Built, FieldsOf
    <3>2. \A m \in DOMAIN messages : m # n => Built(m)'
      BY <1>1, <2>3 DEF BInv, Built, FieldsOf
    <3>3. \A m : m \in DOMAIN messages' => m = n \/ m \in DOMAIN messages
      BY <2>3
    <3> QED
      BY <3>1, <3>2, <3>3
  <2>5. DOMAIN messages' \subseteq DOMAIN idents'
    BY <1>1, <2>2, <2>3 DEF BInv, todo
  <2> QED
    BY <1>1, <1>4, <2>4, <2>5 DEF BInv, Naming
<1> QED
  BY <1>2, <1>3, <1>4 DEF BuildMessage

LEMMA BStepHolds == LInv /\ BInv /\ [LowerNext]_lowerVars => BInv'
<1> SUFFICES ASSUME LInv, BInv, [LowerNext]_lowerVars
             PROVE  BInv'
  OBVIOUS
<1>1. CASE ReadOperations
  BY <1>1, BEarlyStep DEF ReadOperations, Refuse
<1>2. ASSUME NEW n \in Components, Visit(n) PROVE BInv'
  BY <1>2, BEarlyStep DEF Visit, Refuse
<1>3. CASE Collected
  BY <1>3, BCollectedStep
<1>4. CASE NameMessage
  BY <1>4, BNameMessageStep
<1>5. CASE BuildMessage
  BY <1>5, BBuildMessageStep
<1>6. CASE UNCHANGED lowerVars
  <2>1. \A n \in DOMAIN messages : Built(n)'
    BY <1>6 DEF BInv, Built, lowerVars, FieldsOf
  <2> QED
    BY <1>6, <2>1 DEF BInv, Naming, lowerVars
<1> QED
  BY <1>1, <1>2, <1>3, <1>4, <1>5, <1>6 DEF LowerNext

LEMMA BuiltHolds == LowerSpec => [](LInv /\ BInv)
<1>1. LowerInit => LInv /\ BInv
  BY InitHolds, BInitHolds
<1>2. LInv /\ BInv /\ [LowerNext]_lowerVars => (LInv /\ BInv)'
  BY StepHolds, BStepHolds
<1> QED
  BY <1>1, <1>2, PTL DEF LowerSpec

\* What was built and named is what the sides bind.
LEMMA BindingsFollow == LInv /\ BInv => BindingsKeepProperties
<1> SUFFICES ASSUME LInv, BInv, stage = "accepted",
                    NEW op \in doc.ops, NEW side \in Sides(op)
             PROVE  /\ BoundTo(side) \in DOMAIN messages
                    /\ side.k = "ref" /\ side.ref # Empty =>
                          /\ DOMAIN messages[side.ref] = DOMAIN doc.schemas[side.ref].props
                          /\ \A p \in DOMAIN messages[side.ref] : messages[side.ref][p] # NoField
  BY DEF BindingsKeepProperties
<1>1. DOMAIN messages = needed \cup (IF needEmpty(doc) THEN {Empty} ELSE {})
  BY DEF BInv, MessageNames
<1>2. BoundTo(side) \in Roots(doc)
  BY DEF Roots
<1>3. CASE BoundTo(side) = Empty
  <2>1. Empty \in DOMAIN messages
    BY <1>1, <1>2, <1>3 DEF needEmpty
  <2> QED
    BY <1>3, <2>1 DEF BoundTo
<1>4. CASE BoundTo(side) # Empty
  <2>1. BoundTo(side) \in needed /\ BoundTo(side) = side.ref
    BY <1>2, <1>4 DEF BInv, Naming, realRoots, BoundTo
  <2>2. side.ref \in needed /\ side.ref \in DOMAIN messages /\ side.ref \in DOMAIN doc.schemas
    BY <1>1, <2>1 DEF LInv
  <2>3. messages[side.ref] = buildMessage(doc, side.ref) /\ ~ BuildRefused(doc, side.ref)
    BY <2>2 DEF BInv, Built, FieldsOf
  <2>4. DOMAIN messages[side.ref] = DOMAIN doc.schemas[side.ref].props
    BY <2>2, <2>3 DEF buildMessage
  <2>5. \A p \in DOMAIN messages[side.ref] : messages[side.ref][p] # NoField
    BY <2>3 DEF BuildRefused
  <2> QED
    BY <2>1, <2>2, <2>4, <2>5
<1> QED
  BY <1>3, <1>4

\* bundlegen.go:187-219, 271-280: of any accepted document every side of every
\* operation binds a message of the layer that has the properties of its
\* component, all of them built.
THEOREM BindingsKeepPropertiesHolds == LowerSpec => []BindingsKeepProperties
<1>1. LInv /\ BInv => BindingsKeepProperties
  BY BindingsFollow
<1> QED
  BY <1>1, BuiltHolds, PTL

-----------------------------------------------------------------------------
(* The names *)

NInv == Distinct(idents)

LEMMA NStepHolds == LInv /\ BInv /\ NInv /\ [LowerNext]_lowerVars => NInv'
<1> SUFFICES ASSUME LInv, BInv, NInv, [LowerNext]_lowerVars
             PROVE  NInv'
  OBVIOUS
<1>1. CASE NameMessage
  <2> DEFINE todo == MessageNames(doc, needed) \ DOMAIN idents
  <2>1. CASE todo = {}
    BY <1>1, <2>1 DEF NameMessage, NInv
  <2>2. CASE todo # {}
    <3>1. idents' = Named(idents, First(todo))
      BY <1>1, <2>2 DEF NameMessage
    <3>2. First(todo) \in todo /\ First(todo) \in Ordered
      BY <2>2, MessageNamesOrdered, FirstIsIn
    <3> HIDE DEF todo
    <3>3. PICK n : n = First(todo)
      OBVIOUS
    <3>4. n \in Ordered /\ n \notin DOMAIN idents
      BY <3>2, <3>3 DEF todo
    <3>5. Distinct(Named(idents, n))
      BY <3>4, NamedDistinct DEF NInv
    <3> QED
      BY <3>1, <3>3, <3>5 DEF NInv
  <2> QED
    BY <2>1, <2>2
<1>2. CASE UNCHANGED idents
  BY <1>2 DEF NInv
<1> QED
  BY <1>1, <1>2 DEF LowerNext, ReadOperations, Visit, Collected, BuildMessage, Refuse, lowerVars

\* Distinct identifiers, and distinct names in what was built.
LEMMA NamesDistinctFollows == LInv /\ BInv /\ NInv => NamesDistinct
<1> SUFFICES ASSUME LInv, BInv, NInv, NEW n \in DOMAIN messages
             PROVE  \A p, q \in DOMAIN messages[n] :
                        p # q => FieldIdents(messages[n])[p] # FieldIdents(messages[n])[q]
  BY DEF NamesDistinct, NInv, Distinct
<1>1. messages[n] = FieldsOf(doc, n)
  BY DEF BInv, Built
<1>2. DOMAIN messages[n] \subseteq Ordered
  <2>1. DOMAIN <<>> = {}
    OBVIOUS
  <2>2. CASE n \notin needed
    BY <1>1, <2>1, <2>2 DEF FieldsOf
  <2>3. CASE n \in needed
    <3>1. n \in DOMAIN doc.schemas /\ IsMessage(doc, n) /\ doc \in Documents
      BY <2>3 DEF LInv, BInv
    <3>2. DOMAIN messages[n] = DOMAIN doc.schemas[n].props
      BY <1>1, <2>3, <3>1 DEF FieldsOf, buildMessage
    <3> QED
      BY <3>1, <3>2, OrderAssumption DEF IsMessage
  <2> QED
    BY <2>2, <2>3
<1>3. /\ DOMAIN FieldIdents(messages[n]) = DOMAIN messages[n]
      /\ Distinct(FieldIdents(messages[n]))
  BY <1>2, FieldIdentsDistinct
<1> QED
  BY <1>3 DEF Distinct

\* bundlegen.go:1207-1219: for any names whatever, and any way of sanitizing
\* them, no two components of a layer and no two properties of a message fuse
\* into one identifier.
THEOREM NamesDistinctHolds == LowerSpec => []NamesDistinct
<1>1. LowerInit => NInv
  <2>1. DOMAIN <<>> = {}
    OBVIOUS
  <2> QED
    BY <2>1 DEF LowerInit, NInv, Distinct
<1>2. LInv /\ BInv /\ NInv => NamesDistinct
  BY NamesDistinctFollows
<1>3. LInv /\ BInv /\ NInv /\ [LowerNext]_lowerVars => NInv'
  BY NStepHolds
<1> QED
  BY <1>1, <1>2, <1>3, BuiltHolds, PTL DEF LowerSpec
=============================================================================
