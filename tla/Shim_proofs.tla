---------------------------- MODULE Shim_proofs ----------------------------
(* Proofs about modules Transform and Shim. *)
EXTENDS Shim, Lowering_proofs, SequenceTheorems

-----------------------------------------------------------------------------
(* Positions *)

Positions == Seq(Step)

LEMMA PositionFacts ==
    ASSUME NEW q \in Positions
    PROVE  /\ Len(q) \in Nat /\ DOMAIN q = 1..Len(q)
           /\ \A i \in 1..Len(q) : q[i] \in Step
  BY DEF Positions

LEMMA SamePosition ==
    ASSUME NEW p \in Positions, NEW q \in Positions, Len(p) = Len(q),
           \A i \in 1..Len(p) : p[i] = q[i]
    PROVE  p = q
  BY SeqEqual DEF Positions

LEMMA UptoFacts ==
    ASSUME NEW q \in Positions, NEW k \in 0..Len(q)
    PROVE  /\ Upto(q, k) \in Positions /\ Len(Upto(q, k)) = k
           /\ \A i \in 1..k : Upto(q, k)[i] = q[i]
<1>1. \A i \in 1..k : q[i] \in Step
  BY PositionFacts
<1>2. 1 \in Int /\ k \in Int /\ k \in Nat
  BY PositionFacts
<1>3. /\ SubSeq(q, 1, k) \in Seq(Step)
      /\ Len(SubSeq(q, 1, k)) = IF 1 <= k THEN k - 1 + 1 ELSE 0
      /\ \A i \in 1..k - 1 + 1 : SubSeq(q, 1, k)[i] = q[1 + i - 1]
  BY <1>1, <1>2, SubSeqProperties
<1>4. \A i \in 1..k : i \in 1..k - 1 + 1 /\ 1 + i - 1 = i
  BY <1>2
<1> QED
  BY <1>2, <1>3, <1>4 DEF Upto, Positions

LEMMA UptoUpto ==
    ASSUME NEW q \in Positions, NEW k \in 0..Len(q), NEW j \in 0..k
    PROVE  Upto(Upto(q, k), j) = Upto(q, j)
<1>1. j \in 0..Len(q) /\ j \in 0..Len(Upto(q, k)) /\ Upto(q, k) \in Positions
  BY UptoFacts, PositionFacts
<1>2. /\ Upto(q, j) \in Positions /\ Len(Upto(q, j)) = j
      /\ Upto(Upto(q, k), j) \in Positions /\ Len(Upto(Upto(q, k), j)) = j
  BY <1>1, UptoFacts
<1>3. \A i \in 1..j : Upto(q, j)[i] = q[i] /\ Upto(Upto(q, k), j)[i] = q[i]
  <2> TAKE i \in 1..j
  <2>1. i \in 1..k
    BY PositionFacts
  <2> QED
    BY <1>1, <2>1, UptoFacts
<1> QED
  BY <1>2, <1>3, SamePosition

LEMMA UptoAll ==
    ASSUME NEW q \in Positions
    PROVE  Upto(q, Len(q)) = q
<1>1. Len(q) \in 0..Len(q)
  BY PositionFacts
<1> QED
  BY <1>1, UptoFacts, SamePosition

LEMMA AtFacts ==
    ASSUME NEW q \in Positions, NEW n \in Names
    PROVE  /\ At(q, n) \in Positions /\ Len(At(q, n)) = Len(q) + 1
           /\ \A i \in 1..Len(q) : At(q, n)[i] = q[i]
           /\ At(q, n)[Len(q) + 1] = [name |-> n, idx |-> 0]
<1>1. [name |-> n, idx |-> 0] \in Step
  BY DEF Step
<1> QED
  BY <1>1, AppendProperties DEF At, Positions

WithName(s, x) == [s EXCEPT !.name = x]

Indexless(s) == [s EXCEPT !.idx = 0]

LEMMA RelabelFacts ==
    ASSUME NEW q \in Positions, NEW n \in 1..Len(q), NEW x \in Names
    PROVE  /\ Relabel(q, n, x) \in Positions /\ Len(Relabel(q, n, x)) = Len(q)
           /\ \A i \in 1..Len(q) : i # n => Relabel(q, n, x)[i] = q[i]
           /\ Relabel(q, n, x)[n] = WithName(q[n], x)
           /\ Relabel(q, n, x)[n].name = x /\ Relabel(q, n, x)[n].idx = q[n].idx
<1>1. q[n] \in Step
  BY PositionFacts
<1>2. [q[n] EXCEPT !.name = x] \in Step /\ [q[n] EXCEPT !.name = x].name = x
      /\ [q[n] EXCEPT !.name = x].idx = q[n].idx
  BY <1>1 DEF Step
<1>3. Relabel(q, n, x) = [q EXCEPT ![n] = [q[n] EXCEPT !.name = x]]
  BY DEF Relabel
<1> QED
  BY <1>2, <1>3, ExceptSeq DEF Positions, WithName

LEMMA ArrayOfFacts ==
    ASSUME NEW q \in Positions, Len(q) > 0
    PROVE  /\ ArrayOf(q) \in Positions /\ Len(ArrayOf(q)) = Len(q)
           /\ \A i \in 1..Len(q) : i # Len(q) => ArrayOf(q)[i] = q[i]
           /\ ArrayOf(q)[Len(q)] = Indexless(q[Len(q)])
           /\ ArrayOf(q)[Len(q)].name = q[Len(q)].name /\ ArrayOf(q)[Len(q)].idx = 0
<1>1. Len(q) \in 1..Len(q) /\ q[Len(q)] \in Step
  BY PositionFacts
<1>2. [q[Len(q)] EXCEPT !.idx = 0] \in Step /\ [q[Len(q)] EXCEPT !.idx = 0].idx = 0
      /\ [q[Len(q)] EXCEPT !.idx = 0].name = q[Len(q)].name
  BY <1>1 DEF Step
<1>3. ArrayOf(q) = [q EXCEPT ![Len(q)] = [q[Len(q)] EXCEPT !.idx = 0]]
  BY DEF ArrayOf
<1> QED
  BY <1>1, <1>2, <1>3, ExceptSeq DEF Positions, Indexless

LEMMA RelabelUpto ==
    ASSUME NEW q \in Positions, NEW n \in 1..Len(q), NEW x \in Names, NEW k \in 0..Len(q)
    PROVE  /\ k < n => Upto(Relabel(q, n, x), k) = Upto(q, k)
           /\ n <= k => Upto(Relabel(q, n, x), k) = Relabel(Upto(q, k), n, x)
<1> DEFINE r == Relabel(q, n, x)
           p == Upto(q, k)
<1>1. /\ r \in Positions /\ Len(r) = Len(q)
      /\ \A i \in 1..Len(q) : i # n => r[i] = q[i]
      /\ r[n] = WithName(q[n], x)
  BY RelabelFacts
<1>2. p \in Positions /\ Len(p) = k /\ \A i \in 1..k : p[i] = q[i]
  BY UptoFacts
<1> HIDE DEF r, p
<1>3. Upto(r, k) \in Positions /\ Len(Upto(r, k)) = k /\ \A i \in 1..k : Upto(r, k)[i] = r[i]
  BY <1>1, UptoFacts
<1>4. Len(q) \in Nat /\ \A i \in 1..k : i \in 1..Len(q)
  BY PositionFacts
<1>5. ASSUME k < n PROVE Upto(r, k) = p
  <2>1. \A i \in 1..k : Upto(r, k)[i] = p[i]
    BY <1>1, <1>2, <1>3, <1>4, <1>5
  <2> QED
    BY <1>2, <1>3, <2>1, SamePosition
<1>6. ASSUME n <= k PROVE Upto(r, k) = Relabel(p, n, x)
  <2>1. n \in 1..Len(p)
    BY <1>2, <1>4, <1>6
  <2>2. /\ Relabel(p, n, x) \in Positions /\ Len(Relabel(p, n, x)) = k
        /\ \A i \in 1..k : i # n => Relabel(p, n, x)[i] = p[i]
        /\ Relabel(p, n, x)[n] = WithName(p[n], x)
    BY <1>2, <2>1, RelabelFacts
  <2>3. \A i \in 1..k : Upto(r, k)[i] = Relabel(p, n, x)[i]
    BY <1>1, <1>2, <1>3, <1>4, <2>2
  <2> QED
    BY <1>3, <2>2, <2>3, SamePosition
<1> QED
  BY <1>5, <1>6 DEF r, p

LEMMA RelabelBack ==
    ASSUME NEW q \in Positions, NEW n \in 1..Len(q), NEW x \in Names, NEW y \in Names,
           q[n].name = y
    PROVE  Relabel(Relabel(q, n, x), n, y) = q
<1> DEFINE r == Relabel(q, n, x)
           b == Relabel(r, n, y)
<1>1. /\ r \in Positions /\ Len(r) = Len(q)
      /\ \A i \in 1..Len(q) : i # n => r[i] = q[i]
      /\ r[n] = WithName(q[n], x)
  BY RelabelFacts
<1>2. /\ b \in Positions /\ Len(b) = Len(q)
      /\ \A i \in 1..Len(q) : i # n => b[i] = r[i]
      /\ b[n] = WithName(r[n], y)
  <2> HIDE DEF r
  <2>1. n \in 1..Len(r)
    BY <1>1
  <2>2. /\ Relabel(r, n, y) \in Positions /\ Len(Relabel(r, n, y)) = Len(r)
        /\ \A i \in 1..Len(r) : i # n => Relabel(r, n, y)[i] = r[i]
        /\ Relabel(r, n, y)[n] = WithName(r[n], y)
    BY <1>1, <2>1, RelabelFacts
  <2> QED
    BY <1>1, <2>2
<1>3. q[n] \in Step
  BY PositionFacts
<1>4. WithName(WithName(q[n], x), y) = q[n]
  BY <1>3 DEF Step, WithName
<1> HIDE DEF r, b
<1>5. \A i \in 1..Len(q) : b[i] = q[i]
  BY <1>1, <1>2, <1>4
<1>6. b = q
  BY <1>2, <1>5, SamePosition
<1> QED
  BY <1>6 DEF b, r

LEMMA ArrayOfRelabel ==
    ASSUME NEW q \in Positions, NEW n \in 1..Len(q), NEW x \in Names
    PROVE  ArrayOf(Relabel(q, n, x)) = Relabel(ArrayOf(q), n, x)
<1> DEFINE r == Relabel(q, n, x)
           a == ArrayOf(q)
<1>1. /\ r \in Positions /\ Len(r) = Len(q)
      /\ \A i \in 1..Len(q) : i # n => r[i] = q[i]
      /\ r[n] = WithName(q[n], x)
  BY RelabelFacts
<1>2. Len(q) > 0
  BY PositionFacts
<1>3. /\ a \in Positions /\ Len(a) = Len(q)
      /\ \A i \in 1..Len(q) : i # Len(q) => a[i] = q[i]
      /\ a[Len(q)] = Indexless(q[Len(q)])
  BY <1>2, ArrayOfFacts
<1>4. q[n] \in Step
  BY PositionFacts
<1>5. Indexless(WithName(q[n], x)) = WithName(Indexless(q[n]), x)
  BY <1>4 DEF Step, WithName, Indexless
<1> HIDE DEF r, a
<1>6. /\ ArrayOf(r) \in Positions /\ Len(ArrayOf(r)) = Len(q)
      /\ \A i \in 1..Len(q) : i # Len(q) => ArrayOf(r)[i] = r[i]
      /\ ArrayOf(r)[Len(q)] = Indexless(r[Len(q)])
  BY <1>1, <1>2, ArrayOfFacts
<1>7. /\ Relabel(a, n, x) \in Positions /\ Len(Relabel(a, n, x)) = Len(q)
      /\ \A i \in 1..Len(q) : i # n => Relabel(a, n, x)[i] = a[i]
      /\ Relabel(a, n, x)[n] = WithName(a[n], x)
  BY <1>3, RelabelFacts
<1>8. \A i \in 1..Len(q) : ArrayOf(r)[i] = Relabel(a, n, x)[i]
  <2> TAKE i \in 1..Len(q)
  <2>1. CASE i # n
    BY <1>1, <1>3, <1>6, <1>7, <2>1
  <2>2. CASE i = n /\ n = Len(q)
    BY <1>1, <1>3, <1>5, <1>6, <1>7, <2>2
  <2>3. CASE i = n /\ n # Len(q)
    BY <1>1, <1>3, <1>6, <1>7, <2>3
  <2> QED
    BY <2>1, <2>2, <2>3
<1>9. ArrayOf(r) = Relabel(a, n, x)
  BY <1>6, <1>7, <1>8, SamePosition
<1> QED
  BY <1>9 DEF r, a

LEMMA ArrayOfUpto ==
    ASSUME NEW q \in Positions, NEW k \in 0..Len(q), k < Len(q)
    PROVE  Upto(ArrayOf(q), k) = Upto(q, k)
<1> DEFINE a == ArrayOf(q)
<1>1. Len(q) > 0 /\ Len(q) \in Nat /\ \A i \in 1..k : i \in 1..Len(q) /\ i # Len(q)
  BY PositionFacts
<1>2. a \in Positions /\ Len(a) = Len(q) /\ \A i \in 1..Len(q) : i # Len(q) => a[i] = q[i]
  BY <1>1, ArrayOfFacts
<1> HIDE DEF a
<1>3. /\ Upto(a, k) \in Positions /\ Len(Upto(a, k)) = k
      /\ \A i \in 1..k : Upto(a, k)[i] = a[i]
      /\ Upto(q, k) \in Positions /\ Len(Upto(q, k)) = k
      /\ \A i \in 1..k : Upto(q, k)[i] = q[i]
  BY <1>2, UptoFacts
<1>4. \A i \in 1..k : Upto(a, k)[i] = Upto(q, k)[i]
  BY <1>1, <1>2, <1>3
<1>5. Upto(a, k) = Upto(q, k)
  BY <1>3, <1>4, SamePosition
<1> QED
  BY <1>5 DEF a

-----------------------------------------------------------------------------
(* Bodies and stanzas *)

\* Between two stanzas NaN and Inf are numbers, too, but no integers.
Numeric(node) ==
    /\ node.k = "num" => node.v \in DOMAIN Float64 \cup NonFinite
    /\ node.k = "int" => node.v \in DOMAIN Float64

\* A body between two stanzas.
IsBody(b) ==
    /\ b \in [DOMAIN b -> Nodes]
    /\ DOMAIN b \subseteq Positions
    /\ \A q \in DOMAIN b : Numeric(b[q])

\* Everything above a position of a tree is there, and is an object.
LEMMA TreeUpto ==
    ASSUME NEW b, IsBody(b), IsTree(b), NEW q \in DOMAIN b, NEW k \in 0..Len(q)
    PROVE  Upto(q, k) \in DOMAIN b /\ (k < Len(q) => b[Upto(q, k)].k = "obj")
<1>0. q \in Positions /\ Len(q) \in Nat
  BY PositionFacts DEF IsBody
<1>1. \A i \in 1..Len(q) : Upto(q, i) \in DOMAIN b =>
          Upto(q, i - 1) \in DOMAIN b /\ b[Upto(q, i - 1)].k = "obj"
  <2> SUFFICES ASSUME NEW i \in 1..Len(q), Upto(q, i) \in DOMAIN b
               PROVE  Upto(q, i - 1) \in DOMAIN b /\ b[Upto(q, i - 1)].k = "obj"
    OBVIOUS
  <2>1. i \in 0..Len(q) /\ i - 1 \in 0..i /\ i > 0
    BY <1>0
  <2>2. Len(Upto(q, i)) = i
    BY <1>0, <2>1, UptoFacts
  <2>3. Above(Upto(q, i)) = Upto(q, i - 1)
    BY <1>0, <2>1, <2>2, UptoUpto DEF Above
  <2> QED
    BY <2>1, <2>2, <2>3 DEF IsTree
<1> DEFINE S == {j \in 0..Len(q) : Upto(q, Len(q) - j) \notin DOMAIN b}
<1>2. S = {}
  <2> SUFFICES ASSUME S # {} PROVE FALSE
    OBVIOUS
  <2>1. PICK j \in S : \A i \in S : j <= i
    <3>1. S \in SUBSET Nat
      OBVIOUS
    <3> HIDE DEF S
    <3> QED
      BY <3>1, LeastNumber
  <2>2. j \in 0..Len(q) /\ Upto(q, Len(q) - j) \notin DOMAIN b
    OBVIOUS
  <2>3. j # 0
    BY <1>0, <2>2, UptoAll
  <2>4. j - 1 \in 0..Len(q) /\ j - 1 \notin S
    BY <1>0, <2>1, <2>2, <2>3
  <2>5. Upto(q, Len(q) - (j - 1)) \in DOMAIN b
    BY <2>4
  <2>6. Len(q) - (j - 1) \in 1..Len(q) /\ Len(q) - (j - 1) - 1 = Len(q) - j
    BY <1>0, <2>2, <2>3
  <2> QED
    BY <1>1, <2>2, <2>5, <2>6
<1>3. \A j \in 0..Len(q) : Upto(q, j) \in DOMAIN b
  <2> TAKE j \in 0..Len(q)
  <2>1. Len(q) - j \in 0..Len(q) /\ Len(q) - (Len(q) - j) = j
    BY <1>0
  <2>2. Len(q) - j \notin S
    BY <1>2
  <2> QED
    BY <2>1, <2>2
<1>4. k < Len(q) => k + 1 \in 1..Len(q) /\ k + 1 \in 0..Len(q) /\ k + 1 - 1 = k
  BY <1>0
<1> QED
  BY <1>1, <1>3, <1>4

\* A stanza that toOps let pass.
Stanza(s) == StanzaAccepted(s) /\ (s.verb = "default" => IsValue(s.value))

LEMMA StanzaCases ==
    ASSUME NEW s, Stanza(s)
    PROVE  \/ /\ s.verb = "rename"
              /\ s.from \in Path /\ s.to \in Path /\ sameParentDifferentLeaf(s.from, s.to)
           \/ /\ s.verb = "default"
              /\ s.field \in Path /\ IsValue(s.value) /\ s.value.k \notin {"arr", "obj"}
           \/ s.verb = "coerce" /\ s.field \in Path /\ s.to \in {"string", "number", "bool"}
           \/ s.verb = "optionalize" /\ s.field \in Path
  BY DEF Stanza, StanzaAccepted

LEMMA PathFacts ==
    ASSUME NEW p \in Path
    PROVE  /\ Len(p) \in Nat /\ Len(p) > 0 /\ p \in Seq(Segment)
           /\ \A i \in 1..Len(p) : p[i] \in Segment /\ p[i].name \in Names
           /\ Leaf(p) \in Names /\ Leaf(p) = p[Len(p)].name /\ ~ p[Len(p)].array
<1>1. p \in Seq(Segment) /\ p # <<>> /\ ~ p[Len(p)].array
  BY DEF Path
<1>2. Len(p) \in Nat \ {0}
  BY <1>1, EmptySeq
<1>3. \A i \in 1..Len(p) : p[i] \in Segment
  BY <1>1, ElementOfSeq
<1>4. \A i \in 1..Len(p) : p[i].name \in Names
  BY <1>3 DEF Segment
<1>5. Len(p) \in 1..Len(p)
  BY <1>2
<1> QED
  BY <1>1, <1>2, <1>3, <1>4, <1>5 DEF Leaf

\* The verbs, one by one.
LEMMA VerbFacts ==
    ASSUME NEW b, NEW op, NEW optional
    PROVE  /\ op.verb = "rename" => Applied(b, op) = Rename(b, op)
                                    /\ (Fails(b, op, optional) <=> RenameFails(b, op, optional))
           /\ op.verb = "default" => Applied(b, op) = Default(b, op)
                                    /\ (Fails(b, op, optional) <=> ensureObjectsFails(b, op.field))
           /\ op.verb = "coerce" => Applied(b, op) = Coerce(b, op)
                                    /\ (Fails(b, op, optional) <=> CoerceFails(b, op, optional))
           /\ op.verb = "optionalize" => Applied(b, op) = b
  BY DEF Applied, Fails

\* What a walk meets is an object of the body, along the path.
LEMMA MetFacts ==
    ASSUME NEW b, IsBody(b), NEW p \in Path, NEW k \in 0..Len(p) - 1, NEW q \in Met(b, p, k)
    PROVE  /\ q \in DOMAIN b /\ q \in Positions /\ Len(q) = k /\ b[q].k = "obj"
           /\ \A i \in 1..k : q[i].name = p[i].name
  BY DEF Met, Along, IsBody

-----------------------------------------------------------------------------
(* rename *)

IsRename(op) ==
    op.verb = "rename" /\ op.from \in Path /\ op.to \in Path /\ sameParentDifferentLeaf(op.from, op.to)

Leaves(b, op) == {q \in DOMAIN b : Moved(b, q, op)}

Landing(b, op) == {Relabel(m, Len(op.from), Leaf(op.to)) : m \in Leaves(b, op)}

Staying(b, op) == DOMAIN b \ Leaves(b, op)

LEMMA RenameShape ==
    ASSUME NEW b, NEW op
    PROVE  /\ DOMAIN Rename(b, op) = Staying(b, op) \cup Landing(b, op)
           /\ \A q \in Staying(b, op) : Rename(b, op)[q] = b[q]
           /\ \A q \in Landing(b, op) : q \notin Staying(b, op) =>
                 Rename(b, op)[q] = b[Relabel(q, Len(op.from), Leaf(op.from))]
           /\ Rename(b, op) = [q \in Staying(b, op) \cup Landing(b, op) |-> Rename(b, op)[q]]
  BY DEF Rename, Leaves, Landing, Staying

LEMMA RenameAt ==
    ASSUME NEW b, NEW op, NEW q
    PROVE  /\ q \in DOMAIN Rename(b, op) <=> q \in Staying(b, op) \/ q \in Landing(b, op)
           /\ q \in Staying(b, op) => Rename(b, op)[q] = b[q]
           /\ q \in Landing(b, op) /\ q \notin Staying(b, op) =>
                 Rename(b, op)[q] = b[Relabel(q, Len(op.from), Leaf(op.from))]
  BY DEF Rename, Leaves, Landing, Staying

\* Both paths of a rename have the same segments but for the name of the last.
LEMMA RenamePaths ==
    ASSUME NEW op, IsRename(op)
    PROVE  /\ Len(op.from) \in Nat /\ Len(op.from) > 0 /\ Len(op.to) = Len(op.from)
           /\ Leaf(op.from) \in Names /\ Leaf(op.to) \in Names /\ Leaf(op.from) # Leaf(op.to)
           /\ op.from[Len(op.from)].name = Leaf(op.from)
           /\ op.to[Len(op.from)].name = Leaf(op.to)
           /\ \A i \in 1..Len(op.from) - 1 : op.to[i] = op.from[i]
  BY PathFacts DEF IsRename, sameParentDifferentLeaf

\* What moves stands below a parent, under the leaf's name.
LEMMA MovedFacts ==
    ASSUME NEW b, IsBody(b), NEW op, IsRename(op), NEW m \in Leaves(b, op)
    PROVE  /\ m \in DOMAIN b /\ m \in Positions /\ Len(op.from) \in 1..Len(m)
           /\ Upto(m, Len(op.from) - 1) \in Parents(b, op.from)
           /\ m[Len(op.from)].name = Leaf(op.from)
           /\ \A i \in 1..Len(op.from) : m[i].name = op.from[i].name
<1> DEFINE n == Len(op.from)
           u == Upto(m, n - 1)
<1>1. /\ m \in DOMAIN b /\ m \in Positions /\ Len(m) >= n /\ u \in Parents(b, op.from)
      /\ m[n].name = Leaf(op.from) /\ Len(m) \in Nat /\ n \in Nat /\ n > 0
  BY RenamePaths, PositionFacts DEF Leaves, Moved, IsBody
<1>2. n - 1 \in 0..Len(m) /\ n - 1 \in 0..Len(op.from) - 1
  BY <1>1
<1>3. \A i \in 1..n - 1 : u[i] = m[i]
  BY <1>1, <1>2, UptoFacts
<1>4. u \in Met(b, op.from, n - 1)
  BY <1>1 DEF Parents
<1>5. \A i \in 1..n - 1 : u[i].name = op.from[i].name
  <2> HIDE DEF u
  <2>1. op.from \in Path
    BY DEF IsRename
  <2> QED
    BY <1>2, <1>4, <2>1, MetFacts
<1>6. \A i \in 1..n : m[i].name = op.from[i].name
  <2> TAKE i \in 1..n
  <2>1. CASE i = n
    BY <1>1, <2>1, RenamePaths
  <2>2. CASE i # n
    <3>1. i \in 1..n - 1
      BY <1>1, <2>2
    <3> QED
      BY <1>3, <1>5, <3>1
  <2> QED
    BY <2>1, <2>2
<1> QED
  BY <1>1, <1>6

\* Where it lands: the same place but for the name.
LEMMA LandedFacts ==
    ASSUME NEW b, IsBody(b), NEW op, IsRename(op), NEW q \in Landing(b, op)
    PROVE  /\ q \in Positions /\ Len(op.from) \in 1..Len(q)
           /\ Relabel(q, Len(op.from), Leaf(op.from)) \in Leaves(b, op)
           /\ Relabel(Relabel(q, Len(op.from), Leaf(op.from)), Len(op.from), Leaf(op.to)) = q
           /\ q[Len(op.from)].name = Leaf(op.to)
           /\ \A i \in 1..Len(op.from) : q[i].name = op.to[i].name
<1> DEFINE n == Len(op.from)
<1>1. PICK m \in Leaves(b, op) : q = Relabel(m, n, Leaf(op.to))
  BY DEF Landing
<1>2. /\ m \in Positions /\ n \in 1..Len(m) /\ m[n].name = Leaf(op.from)
      /\ \A i \in 1..n : m[i].name = op.from[i].name
  BY MovedFacts
<1>3. Leaf(op.to) \in Names /\ Leaf(op.from) \in Names
  BY RenamePaths
<1>4. /\ q \in Positions /\ Len(q) = Len(m)
      /\ \A i \in 1..Len(m) : i # n => q[i] = m[i]
      /\ q[n].name = Leaf(op.to)
  <2>1. PICK j, x : j = n /\ x = Leaf(op.to)
    OBVIOUS
  <2>2. j \in 1..Len(m) /\ x \in Names /\ q = Relabel(m, j, x)
    BY <1>1, <1>2, <1>3, <2>1
  <2> HIDE DEF n
  <2>3. /\ q \in Positions /\ Len(q) = Len(m)
        /\ \A i \in 1..Len(m) : i # j => q[i] = m[i]
        /\ q[j].name = x
    BY <1>2, <2>2, RelabelFacts
  <2> QED
    BY <2>1, <2>3
<1>5. Relabel(q, n, Leaf(op.from)) = m
  BY <1>1, <1>2, <1>3, RelabelBack
<1>6. \A i \in 1..n : q[i].name = op.to[i].name
  <2> TAKE i \in 1..n
  <2>1. CASE i = n
    BY <1>4, <2>1, RenamePaths
  <2>2. CASE i # n
    <3>1. i \in 1..n - 1 /\ i \in 1..Len(m)
      BY <1>2, <2>2, PositionFacts
    <3> QED
      BY <1>2, <1>4, <2>2, <3>1, RenamePaths
  <2> QED
    BY <2>1, <2>2
<1> QED
  BY <1>1, <1>2, <1>4, <1>5, <1>6

\* A rename makes no node.
LEMMA RenamedNodes ==
    ASSUME NEW b, IsBody(b), NEW op, IsRename(op), NEW q \in DOMAIN Rename(b, op)
    PROVE  q \in Positions /\ \E p \in DOMAIN b : Rename(b, op)[q] = b[p]
<1> DEFINE r == Rename(b, op)
           n == Len(op.from)
<1>1. CASE q \in Staying(b, op)
  <2>1. q \in DOMAIN b /\ DOMAIN b \subseteq Positions
    BY <1>1 DEF Staying, IsBody
  <2>2. r[q] = b[q]
    BY <1>1, RenameAt
  <2> QED
    BY <2>1, <2>2
<1>2. CASE q \in Landing(b, op) /\ q \notin Staying(b, op)
  <2>1. q \in Positions /\ Relabel(q, n, Leaf(op.from)) \in Leaves(b, op)
    BY <1>2, LandedFacts
  <2>2. r[q] = b[Relabel(q, n, Leaf(op.from))]
    BY <1>2, RenameAt
  <2> QED
    BY <2>1, <2>2 DEF Leaves
<1> QED
  BY <1>1, <1>2, RenameAt

LEMMA RenameKeepsBody ==
    ASSUME NEW b, IsBody(b), NEW op, IsRename(op)
    PROVE  IsBody(Rename(b, op))
<1> DEFINE r == Rename(b, op)
           n == Len(op.from)
<1>1. \A q \in DOMAIN r : q \in Positions /\ \E p \in DOMAIN b : r[q] = b[p]
  BY RenamedNodes
<1>2. r = [q \in DOMAIN r |-> r[q]]
  BY RenameShape
<1> HIDE DEF r
<1> QED
  BY <1>1, <1>2 DEF IsBody, r

LEMMA RenameIsLocal ==
    ASSUME NEW b, IsBody(b), NEW op, IsRename(op),
           NEW q \in DOMAIN b \cup DOMAIN Rename(b, op), ~ Addresses(op, q)
    PROVE  q \in DOMAIN b \cap DOMAIN Rename(b, op) /\ Rename(b, op)[q] = b[q]
<1>1. q \notin Leaves(b, op)
  <2> SUFFICES ASSUME q \in Leaves(b, op) PROVE FALSE
    OBVIOUS
  <2>1. Len(op.from) \in 1..Len(q) /\ \A i \in 1..Len(op.from) : q[i].name = op.from[i].name
    BY MovedFacts
  <2>2. Len(q) >= Len(op.from) /\ NamesAgree(q, op.from)
    BY <2>1, RenamePaths DEF NamesAgree
  <2> QED
    BY <2>2 DEF Addresses, IsRename
<1>2. q \notin Landing(b, op)
  <2> SUFFICES ASSUME q \in Landing(b, op) PROVE FALSE
    OBVIOUS
  <2>1. Len(op.from) \in 1..Len(q) /\ \A i \in 1..Len(op.from) : q[i].name = op.to[i].name
    BY LandedFacts
  <2>2. Len(q) >= Len(op.from) /\ NamesAgree(q, op.to)
    BY <2>1, RenamePaths DEF NamesAgree
  <2> QED
    BY <2>2 DEF Addresses, IsRename
<1>3. q \in Staying(b, op)
  BY <1>1, <1>2, RenameAt DEF Staying
<1> QED
  BY <1>3, RenameAt DEF Staying

\* Whether a position moves shows in its first n segments.
LEMMA SameLeaf ==
    ASSUME NEW b, IsBody(b), NEW op, IsRename(op), NEW p \in DOMAIN b, NEW q \in DOMAIN b,
           Len(op.from) <= Len(p), Len(op.from) <= Len(q),
           Upto(p, Len(op.from) - 1) = Upto(q, Len(op.from) - 1),
           p[Len(op.from)].name = q[Len(op.from)].name
    PROVE  p \in Leaves(b, op) <=> q \in Leaves(b, op)
  BY DEF Leaves, Moved

\* Above a position that goes with the leaf or stays, everything does the same.
LEMMA AboveLeaf ==
    ASSUME NEW b, IsBody(b), NEW op, IsRename(op), NEW q \in DOMAIN b,
           Len(q) > Len(op.from), Above(q) \in DOMAIN b
    PROVE  Above(q) \in Leaves(b, op) <=> q \in Leaves(b, op)
<1> DEFINE n == Len(op.from)
           p == Above(q)
<1>1. q \in Positions /\ Len(q) \in Nat /\ n \in Nat /\ n > 0
  BY PositionFacts, RenamePaths DEF IsBody
<1>2. /\ Len(q) - 1 \in 0..Len(q) /\ n - 1 \in 0..Len(q) - 1 /\ n \in 1..Len(q) - 1
      /\ n <= Len(q) - 1
  BY <1>1
<1>3. p \in Positions /\ Len(p) = Len(q) - 1 /\ \A i \in 1..Len(q) - 1 : p[i] = q[i]
  BY <1>1, <1>2, UptoFacts DEF Above
<1>4. Upto(p, n - 1) = Upto(q, n - 1)
  BY <1>1, <1>2, UptoUpto DEF Above
<1>5. p[n].name = q[n].name
  BY <1>2, <1>3
<1> QED
  BY <1>1, <1>2, <1>3, <1>4, <1>5, SameLeaf

LEMMA ArrayOfLeaf ==
    ASSUME NEW b, IsBody(b), NEW op, IsRename(op), NEW q \in DOMAIN b,
           Len(q) > 0, ArrayOf(q) \in DOMAIN b
    PROVE  ArrayOf(q) \in Leaves(b, op) <=> q \in Leaves(b, op)
<1> DEFINE n == Len(op.from)
           a == ArrayOf(q)
<1>1. q \in Positions /\ Len(q) \in Nat /\ n \in Nat /\ n > 0
  BY PositionFacts, RenamePaths DEF IsBody
<1>2. /\ a \in Positions /\ Len(a) = Len(q)
      /\ \A i \in 1..Len(q) : i # Len(q) => a[i] = q[i]
      /\ a[Len(q)].name = q[Len(q)].name
  BY <1>1, ArrayOfFacts
<1>3. CASE n > Len(q)
  BY <1>1, <1>2, <1>3 DEF Leaves, Moved
<1>4. CASE n <= Len(q)
  <2>1. n - 1 \in 0..Len(q) /\ n - 1 < Len(q) /\ n \in 1..Len(q)
    BY <1>1, <1>4
  <2>2. Upto(a, n - 1) = Upto(q, n - 1)
    BY <1>1, <2>1, ArrayOfUpto
  <2>3. a[n].name = q[n].name
    BY <1>2, <2>1
  <2> QED
    BY <1>2, <1>4, <2>2, <2>3, SameLeaf
<1> QED
  BY <1>1, <1>3, <1>4

\* In a tree, a position below which a leaf of that name hangs has that leaf.
LEMMA LeafIsThere ==
    ASSUME NEW b, IsBody(b), IsTree(b), NEW q \in DOMAIN b, NEW n \in 1..Len(q)
    PROVE  ~ Absent(b, Upto(q, n - 1), q[n].name)
<1> DEFINE u == Upto(q, n - 1)
           v == Upto(q, n)
           x == q[n].name
<1>1. q \in Positions /\ Len(q) \in Nat /\ q[n] \in Step
  BY PositionFacts DEF IsBody
<1>2. n \in 0..Len(q) /\ n - 1 \in 0..Len(q) /\ n - 1 \in 0..n /\ n \in Nat /\ n > 0
  BY <1>1
<1>3. v \in DOMAIN b
  BY <1>2, TreeUpto
<1>4. v \in Positions /\ Len(v) = n /\ \A i \in 1..n : v[i] = q[i]
  BY <1>1, <1>2, UptoFacts
<1>5. u \in Positions /\ Len(u) = n - 1 /\ \A i \in 1..n - 1 : u[i] = q[i]
  BY <1>1, <1>2, UptoFacts
<1>6. x \in Names /\ q[n] = [name |-> x, idx |-> q[n].idx] /\ q[n].idx \in Nat
  BY <1>1 DEF Step
<1>7. /\ At(u, x) \in Positions /\ Len(At(u, x)) = n
      /\ \A i \in 1..n - 1 : At(u, x)[i] = u[i]
      /\ At(u, x)[n] = [name |-> x, idx |-> 0]
  <2> HIDE DEF u, x
  <2>1. n - 1 + 1 = n
    BY <1>2
  <2>2. u \in Positions /\ x \in Names /\ Len(u) = n - 1
    BY <1>5, <1>6
  <2>3. /\ At(u, x) \in Positions /\ Len(At(u, x)) = Len(u) + 1
        /\ \A i \in 1..Len(u) : At(u, x)[i] = u[i]
        /\ At(u, x)[Len(u) + 1] = [name |-> x, idx |-> 0]
    BY <2>2, AtFacts
  <2> QED
    BY <2>1, <2>2, <2>3
<1> HIDE DEF u, v, x
<1>8. CASE q[n].idx = 0
  <2>1. \A i \in 1..n : At(u, x)[i] = v[i]
    BY <1>2, <1>4, <1>5, <1>6, <1>7, <1>8
  <2>2. At(u, x) = v
    BY <1>4, <1>7, <2>1, SamePosition
  <2> QED
    BY <1>3, <2>2 DEF Absent, u, x
<1>9. CASE q[n].idx > 0
  <2>1. v[Len(v)].idx > 0 /\ Len(v) > 0
    BY <1>2, <1>4, <1>9
  <2>2. ArrayOf(v) \in DOMAIN b
    BY <1>3, <2>1 DEF IsTree
  <2>3. /\ ArrayOf(v) \in Positions /\ Len(ArrayOf(v)) = n
        /\ \A i \in 1..n : i # n => ArrayOf(v)[i] = v[i]
        /\ ArrayOf(v)[n] = Indexless(v[n])
    BY <1>4, <2>1, ArrayOfFacts
  <2>4. Indexless(v[n]) = [name |-> x, idx |-> 0]
    BY <1>2, <1>4, <1>6 DEF Indexless
  <2>5. \A i \in 1..n : At(u, x)[i] = ArrayOf(v)[i]
    BY <1>2, <1>4, <1>5, <1>7, <2>3, <2>4
  <2>6. At(u, x) = ArrayOf(v)
    BY <1>7, <2>3, <2>5, SamePosition
  <2> QED
    BY <2>2, <2>6 DEF Absent, u, x
<1> QED
  BY <1>6, <1>8, <1>9

\* A rename that does not fail lands on nothing that is there.
LEMMA LandsFree ==
    ASSUME NEW b, IsBody(b), IsTree(b), NEW op, IsRename(op), NEW optional,
           ~ RenameFails(b, op, optional), NEW m \in Leaves(b, op)
    PROVE  Relabel(m, Len(op.from), Leaf(op.to)) \notin DOMAIN b
<1> DEFINE n == Len(op.from)
           q == Relabel(m, n, Leaf(op.to))
           u == Upto(m, n - 1)
<1> SUFFICES ASSUME q \in DOMAIN b PROVE FALSE
  OBVIOUS
<1>1. /\ m \in DOMAIN b /\ m \in Positions /\ n \in 1..Len(m) /\ u \in Parents(b, op.from)
      /\ m[n].name = Leaf(op.from)
  BY MovedFacts
<1>2. Leaf(op.to) \in Names /\ n \in Nat /\ n > 0
  BY RenamePaths
<1>3. Len(q) = Len(m) /\ q[n].name = Leaf(op.to)
  BY <1>1, <1>2, RelabelFacts
<1>4. n - 1 \in 0..Len(m) /\ n - 1 < n /\ Len(m) \in Nat
  BY <1>1, <1>2, PositionFacts
<1>5. Upto(q, n - 1) = u
  BY <1>1, <1>2, <1>4, RelabelUpto
<1>6. ~ Absent(b, u, Leaf(op.from))
  BY <1>1, LeafIsThere
<1>7. ~ Absent(b, u, Leaf(op.to))
  <2> HIDE DEF u, q
  <2>1. n \in 1..Len(q)
    BY <1>1, <1>3
  <2> QED
    BY <1>3, <1>5, <2>1, LeafIsThere
<1> QED
  BY <1>1, <1>6, <1>7 DEF RenameFails

\* What moves is found where it lands.
LEMMA LandedNode ==
    ASSUME NEW b, IsBody(b), IsTree(b), NEW op, IsRename(op), NEW optional,
           ~ RenameFails(b, op, optional), NEW m \in Leaves(b, op)
    PROVE  /\ Relabel(m, Len(op.from), Leaf(op.to)) \in DOMAIN Rename(b, op)
           /\ Rename(b, op)[Relabel(m, Len(op.from), Leaf(op.to))] = b[m]
<1> DEFINE n == Len(op.from)
           q == Relabel(m, n, Leaf(op.to))
<1>1. m \in Positions /\ n \in 1..Len(m) /\ m[n].name = Leaf(op.from)
  BY MovedFacts
<1>2. Leaf(op.to) \in Names /\ Leaf(op.from) \in Names
  BY RenamePaths
<1>3. q \in Landing(b, op)
  BY DEF Landing
<1>4. q \notin Staying(b, op)
  BY LandsFree DEF Staying
<1>5. Relabel(q, n, Leaf(op.from)) = m
  BY <1>1, <1>2, RelabelBack
<1> HIDE DEF q
<1>6. q \in DOMAIN Rename(b, op) /\ Rename(b, op)[q] = b[Relabel(q, n, Leaf(op.from))]
  BY <1>3, <1>4, RenameAt
<1> QED
  BY <1>5, <1>6 DEF q

LEMMA RenameKeepsTree ==
    ASSUME NEW b, IsBody(b), IsTree(b), NEW op, IsRename(op), NEW optional,
           ~ RenameFails(b, op, optional)
    PROVE  IsTree(Rename(b, op))
<1> DEFINE r == Rename(b, op)
           n == Len(op.from)
<1>0. n \in Nat /\ n > 0 /\ Leaf(op.to) \in Names
  BY RenamePaths
<1>1. \A q \in DOMAIN b : q \in Positions /\ Len(q) \in Nat
  BY PositionFacts DEF IsBody
<1>2. \A q \in DOMAIN b : Len(q) < n => q \in DOMAIN r /\ r[q] = b[q]
  <2> TAKE q \in DOMAIN b
  <2> HAVE Len(q) < n
  <2>1. q \in Staying(b, op)
    BY <1>0, <1>1 DEF Staying, Leaves, Moved
  <2> QED
    BY <2>1, RenameAt
<1>3. IsObject(r)
  BY <1>0, <1>2 DEF IsTree, IsObject
<1>4. ASSUME NEW q \in Staying(b, op), Len(q) > 0
      PROVE  /\ Above(q) \in DOMAIN r /\ r[Above(q)].k = "obj"
             /\ q[Len(q)].idx > 0 => ArrayOf(q) \in DOMAIN r /\ r[ArrayOf(q)].k = "arr"
  <2>1. q \in DOMAIN b /\ q \notin Leaves(b, op) /\ q \in Positions /\ Len(q) \in Nat
    BY <1>1 DEF Staying
  <2>2. /\ Above(q) \in DOMAIN b /\ b[Above(q)].k = "obj"
        /\ q[Len(q)].idx > 0 => ArrayOf(q) \in DOMAIN b /\ b[ArrayOf(q)].k = "arr"
    BY <1>4, <2>1 DEF IsTree
  <2>3. Len(Above(q)) = Len(q) - 1
    BY <1>4, <2>1, UptoFacts DEF Above
  <2>4. Above(q) \in Staying(b, op)
    <3>1. CASE Len(q) > n
      BY <2>1, <2>2, <3>1, AboveLeaf DEF Staying
    <3>2. CASE ~ Len(q) > n
      <4>1. ~ Len(Above(q)) >= n
        BY <1>0, <2>1, <2>3, <3>2
      <4> QED
        BY <2>2, <4>1 DEF Staying, Leaves, Moved
    <3> QED
      BY <3>1, <3>2
  <2>5. q[Len(q)].idx > 0 => ArrayOf(q) \in Staying(b, op)
    BY <1>4, <2>1, <2>2, ArrayOfLeaf DEF Staying
  <2>6. \A p \in Staying(b, op) : p \in DOMAIN r /\ r[p] = b[p]
    BY RenameAt
  <2> HIDE DEF r
  <2> QED
    BY <2>2, <2>4, <2>5, <2>6
<1>5. ASSUME NEW m \in Leaves(b, op), NEW q, q = Relabel(m, n, Leaf(op.to))
      PROVE  /\ Above(q) \in DOMAIN r /\ r[Above(q)].k = "obj"
             /\ q[Len(q)].idx > 0 => ArrayOf(q) \in DOMAIN r /\ r[ArrayOf(q)].k = "arr"
  <2>1. /\ m \in DOMAIN b /\ m \in Positions /\ n \in 1..Len(m)
        /\ Upto(m, n - 1) \in Parents(b, op.from)
    BY MovedFacts
  <2>2. /\ q \in Positions /\ Len(q) = Len(m) /\ Len(m) \in Nat /\ Len(m) > 0
        /\ q[Len(m)].idx = m[Len(m)].idx
    <3>1. /\ q \in Positions /\ Len(q) = Len(m)
          /\ \A i \in 1..Len(m) : i # n => q[i] = m[i]
          /\ q[n].idx = m[n].idx
      BY <1>0, <1>5, <2>1, RelabelFacts
    <3>2. Len(m) \in Nat /\ Len(m) > 0 /\ Len(m) \in 1..Len(m)
      BY <2>1, PositionFacts
    <3> QED
      BY <3>1, <3>2
  <2>3. /\ Above(m) \in DOMAIN b /\ b[Above(m)].k = "obj"
        /\ m[Len(m)].idx > 0 => ArrayOf(m) \in DOMAIN b /\ b[ArrayOf(m)].k = "arr"
    BY <2>1, <2>2 DEF IsTree
  <2>4. Len(m) - 1 \in 0..Len(m)
    BY <2>2
  <2>5. Above(q) \in DOMAIN r /\ r[Above(q)].k = "obj"
    <3>1. CASE Len(m) = n
      <4>1. Above(q) = Above(m)
        BY <1>0, <1>5, <2>1, <2>2, <2>4, <3>1, RelabelUpto DEF Above
      <4>2. Len(Above(m)) = Len(m) - 1
        BY <2>1, <2>4, UptoFacts DEF Above
      <4>3. Len(Above(m)) < n
        BY <1>0, <3>1, <4>2
      <4> QED
        BY <1>2, <2>3, <4>1, <4>3
    <3>2. CASE Len(m) # n
      <4>1. n <= Len(m) - 1 /\ Len(m) > n
        BY <1>0, <2>1, <2>2, <3>2
      <4>2. Above(q) = Relabel(Above(m), n, Leaf(op.to))
        BY <1>0, <1>5, <2>1, <2>2, <2>4, <4>1, RelabelUpto DEF Above
      <4>3. Above(m) \in Leaves(b, op)
        BY <2>1, <2>3, <4>1, AboveLeaf
      <4> QED
        BY <2>3, <4>2, <4>3, LandedNode
    <3> QED
      BY <3>1, <3>2
  <2>6. ASSUME q[Len(q)].idx > 0 PROVE ArrayOf(q) \in DOMAIN r /\ r[ArrayOf(q)].k = "arr"
    <3>1. ArrayOf(m) \in DOMAIN b /\ b[ArrayOf(m)].k = "arr"
      BY <2>2, <2>3, <2>6
    <3>2. ArrayOf(m) \in Leaves(b, op)
      BY <2>1, <2>2, <3>1, ArrayOfLeaf
    <3>3. ArrayOf(q) = Relabel(ArrayOf(m), n, Leaf(op.to))
      BY <1>0, <1>5, <2>1, ArrayOfRelabel
    <3> QED
      BY <3>1, <3>2, <3>3, LandedNode
  <2> QED
    BY <2>5, <2>6
<1>6. \A q \in DOMAIN r : Len(q) > 0 =>
          /\ Above(q) \in DOMAIN r /\ r[Above(q)].k = "obj"
          /\ q[Len(q)].idx > 0 => ArrayOf(q) \in DOMAIN r /\ r[ArrayOf(q)].k = "arr"
  <2> TAKE q \in DOMAIN r
  <2> HAVE Len(q) > 0
  <2>1. CASE q \in Staying(b, op)
    BY <1>4, <2>1
  <2>2. CASE q \in Landing(b, op)
    BY <1>5, <2>2 DEF Landing
  <2>3. q \in Staying(b, op) \/ q \in Landing(b, op)
    BY RenameAt
  <2> HIDE DEF r
  <2> QED
    BY <2>1, <2>2, <2>3
<1> HIDE DEF r
<1>7. IsTree(r)
  BY <1>3, <1>6 DEF IsTree
<1> QED
  BY <1>7 DEF r

-----------------------------------------------------------------------------
(* coerce *)

IsCoerce(op) == op.verb = "coerce" /\ op.field \in Path /\ op.to \in {"string", "number", "bool"}

Coerced(b, op) == {At(q, Leaf(op.field)) : q \in Parents(b, op.field)}

LEMMA CoerceShape ==
    ASSUME NEW b, NEW op
    PROVE  /\ DOMAIN Coerce(b, op) = DOMAIN b
           /\ Coerce(b, op) = [q \in DOMAIN b |-> Coerce(b, op)[q]]
           /\ \A q \in DOMAIN b :
                 Coerce(b, op)[q] = IF q \in Coerced(b, op) THEN coerce(b[q], op.to) ELSE b[q]
  BY DEF Coerce, Coerced

\* What is coerced can be.
LEMMA CoercedFacts ==
    ASSUME NEW b, IsBody(b), NEW op, IsCoerce(op), NEW optional,
           ~ CoerceFails(b, op, optional), NEW q \in Coerced(b, op), q \in DOMAIN b
    PROVE  Coercible(b[q], op.to) /\ b[q] \in Nodes
<1>1. PICK p \in Parents(b, op.field) : q = At(p, Leaf(op.field))
  BY DEF Coerced
<1>2. ~ Absent(b, p, Leaf(op.field))
  BY <1>1 DEF Absent
<1>3. Coercible(b[At(p, Leaf(op.field))], op.to)
  BY <1>1, <1>2 DEF CoerceFails
<1> QED
  BY <1>1, <1>3 DEF IsBody

\* A node that was coerced is a node, and no object or array becomes one.
LEMMA CoerceNode ==
    ASSUME NEW node \in Nodes, Numeric(node),
           NEW to \in {"string", "number", "bool"}, Coercible(node, to)
    PROVE  /\ coerce(node, to) \in Nodes
           /\ Numeric(coerce(node, to))
           /\ node.k \notin {"obj", "arr"}
<1>1. /\ node.v \in Texts
      /\ \A t \in DOMAIN ParseFloat : ParseFloat[t] \in Texts
                                      /\ ParseFloat[t] \in DOMAIN Float64 \cup NonFinite
  BY TextAssumption DEF Nodes, NonFinite
<1>2. CASE to = "string"
  BY <1>1, <1>2 DEF Coercible, coerce, Nodes, NodeKinds, NumberKinds, Numeric
<1>3. CASE to = "number"
  <2>1. CASE node.k = "num"
    BY <1>1, <1>3, <2>1 DEF Coercible, coerce, Nodes, NodeKinds, NumberKinds, Numeric
  <2>2. CASE node.k = "str" /\ node.v \in DOMAIN ParseFloat
    BY <1>1, <1>3, <2>2 DEF Coercible, coerce, Nodes, NodeKinds, NumberKinds, Numeric
  <2> QED
    BY <1>3, <2>1, <2>2 DEF Coercible
<1>4. CASE to = "bool"
  BY <1>1, <1>4 DEF Coercible, coerce, Nodes, NodeKinds, NumberKinds, Numeric
<1> QED
  BY <1>2, <1>3, <1>4

LEMMA CoerceKeepsBody ==
    ASSUME NEW b, IsBody(b), NEW op, IsCoerce(op), NEW optional, ~ CoerceFails(b, op, optional)
    PROVE  IsBody(Coerce(b, op))
<1> DEFINE r == Coerce(b, op)
<1>1. \A q \in DOMAIN b :
          r[q] \in Nodes /\ Numeric(r[q])
  <2> TAKE q \in DOMAIN b
  <2>1. b[q] \in Nodes /\ Numeric(b[q])
    BY DEF IsBody
  <2>2. CASE q \in Coerced(b, op)
    <3>1. Coercible(b[q], op.to)
      BY <2>2, CoercedFacts
    <3>2. r[q] = coerce(b[q], op.to)
      BY <2>2, CoerceShape
    <3>3. op.to \in {"string", "number", "bool"}
      BY DEF IsCoerce
    <3> HIDE DEF r
    <3> QED
      BY <2>1, <3>1, <3>2, <3>3, CoerceNode
  <2>3. CASE q \notin Coerced(b, op)
    <3>1. r[q] = b[q]
      BY <2>3, CoerceShape
    <3> QED
      BY <2>1, <3>1
  <2> QED
    BY <2>2, <2>3
<1>2. DOMAIN r = DOMAIN b /\ r = [q \in DOMAIN b |-> r[q]]
  BY CoerceShape
<1> HIDE DEF r
<1>3. IsBody(r)
  BY <1>1, <1>2 DEF IsBody
<1> QED
  BY <1>3 DEF r

LEMMA CoerceIsLocal ==
    ASSUME NEW b, IsBody(b), NEW op, IsCoerce(op),
           NEW q \in DOMAIN b \cup DOMAIN Coerce(b, op), ~ Addresses(op, q)
    PROVE  q \in DOMAIN b \cap DOMAIN Coerce(b, op) /\ Coerce(b, op)[q] = b[q]
<1> DEFINE n == Len(op.field)
<1>1. q \in DOMAIN b
  BY CoerceShape
<1>2. q \notin Coerced(b, op)
  <2> SUFFICES ASSUME q \in Coerced(b, op) PROVE FALSE
    OBVIOUS
  <2>1. PICK p \in Parents(b, op.field) : q = At(p, Leaf(op.field))
    BY DEF Coerced
  <2>2. op.field \in Path /\ n \in Nat /\ n > 0 /\ Leaf(op.field) \in Names
        /\ op.field[n].name = Leaf(op.field)
    BY PathFacts DEF IsCoerce
  <2>3. n - 1 \in 0..n - 1 /\ p \in Met(b, op.field, n - 1)
    BY <2>1, <2>2 DEF Parents
  <2>4. p \in Positions /\ Len(p) = n - 1 /\ \A i \in 1..n - 1 : p[i].name = op.field[i].name
    <3>1. op.field \in Path
      BY <2>2
    <3> HIDE DEF n
    <3> DEFINE f == op.field
    <3>2. PICK k : k = n - 1
      OBVIOUS
    <3>3. f \in Path /\ k \in 0..Len(f) - 1 /\ p \in Met(b, f, k)
      BY <2>3, <3>1, <3>2 DEF n
    <3> HIDE DEF f
    <3>4. p \in Positions /\ Len(p) = k /\ \A i \in 1..k : p[i].name = f[i].name
      BY <3>3, MetFacts
    <3> QED
      BY <3>2, <3>4 DEF f
  <2>5. /\ Len(q) = Len(p) + 1
        /\ \A i \in 1..Len(p) : q[i] = p[i]
        /\ q[Len(p) + 1] = [name |-> Leaf(op.field), idx |-> 0]
    BY <2>1, <2>2, <2>4, AtFacts
  <2>6. Len(q) = n /\ (\A i \in 1..n - 1 : q[i] = p[i]) /\ q[n].name = Leaf(op.field)
    BY <2>2, <2>4, <2>5
  <2>7. \A i \in 1..n : q[i].name = op.field[i].name
    <3> TAKE i \in 1..n
    <3>1. CASE i = n
      BY <2>2, <2>6, <3>1
    <3>2. CASE i # n
      <4>1. i \in 1..n - 1
        BY <2>2, <3>2
      <4> QED
        BY <2>4, <2>6, <4>1
    <3> QED
      BY <3>1, <3>2
  <2> QED
    BY <2>6, <2>7 DEF Addresses, NamesAgree, IsCoerce
<1> QED
  BY <1>1, <1>2, CoerceShape

LEMMA CoerceKeepsTree ==
    ASSUME NEW b, IsBody(b), IsTree(b), NEW op, IsCoerce(op), NEW optional,
           ~ CoerceFails(b, op, optional)
    PROVE  IsTree(Coerce(b, op))
<1> DEFINE r == Coerce(b, op)
<1>1. DOMAIN r = DOMAIN b
  BY CoerceShape
<1>2. ASSUME NEW q \in DOMAIN b, b[q].k \in {"obj", "arr"} PROVE r[q] = b[q]
  <2>1. q \notin Coerced(b, op)
    <3> SUFFICES ASSUME q \in Coerced(b, op) PROVE FALSE
      OBVIOUS
    <3>1. Coercible(b[q], op.to) /\ b[q] \in Nodes
      BY CoercedFacts
    <3>2. Numeric(b[q])
      BY DEF IsBody
    <3>3. op.to \in {"string", "number", "bool"}
      BY DEF IsCoerce
    <3> QED
      BY <1>2, <3>1, <3>2, <3>3, CoerceNode
  <2> QED
    BY <2>1, CoerceShape
<1> HIDE DEF r
<1>3. IsTree(r)
  BY <1>1, <1>2 DEF IsTree, IsObject
<1> QED
  BY <1>3 DEF r

-----------------------------------------------------------------------------
(* default *)

IsDefault(op) == op.verb = "default" /\ op.field \in Path /\ IsValue(op.value)

Tail1(p, k, m) == [i \in 1..m - k + 1 |-> [name |-> p[k + i - 1].name, idx |-> 0]]

\* c is created below q, from segment k of the path to segment m.
Hangs(b, p, c, q, k, m) ==
    /\ k \in 1..Len(p) /\ m \in k..Len(p)
    /\ q \in Met(b, p, k - 1) /\ Missing(b, q, p[k].name)
    /\ c = q \o Tail1(p, k, m)

LEMMA CreatedMeans ==
    ASSUME NEW b, NEW op, NEW c
    PROVE  c \in Created(b, op) <=> \E k, m, q : Hangs(b, op.field, c, q, k, m)
<1> DEFINE p == op.field
           Grown(q, k, m) == q \o Tail1(p, k, m)
           Lacking(k) == {q \in Met(b, p, k - 1) : Missing(b, q, p[k].name)}
<1>1. Created(b, op) = UNION {{Grown(q, k, m) : q \in Lacking(k), m \in k..Len(p)} : k \in 1..Len(p)}
  BY DEF Created, Tail1
<1> HIDE DEF Grown, Lacking
<1>2. c \in Created(b, op) <=>
          \E k \in 1..Len(p) : \E q \in Lacking(k) : \E m \in k..Len(p) : c = Grown(q, k, m)
  BY <1>1, SMT
<1> QED
  BY <1>2 DEF Hangs, Grown, Lacking

LEMMA DefaultShape ==
    ASSUME NEW b, NEW op
    PROVE  /\ DOMAIN Default(b, op) = DOMAIN b \cup Created(b, op)
           /\ Default(b, op) = [q \in DOMAIN b \cup Created(b, op) |-> Default(b, op)[q]]
  BY DEF Default

LEMMA DefaultAt ==
    ASSUME NEW b, NEW op, NEW q
    PROVE  /\ q \in DOMAIN Default(b, op) <=> q \in DOMAIN b \/ q \in Created(b, op)
           /\ q \in Created(b, op) /\ Len(q) = Len(op.field) => Default(b, op)[q] = op.value
           /\ q \in Created(b, op) /\ Len(q) # Len(op.field) => Default(b, op)[q] = Obj
           /\ q \in DOMAIN b /\ q \notin Created(b, op) => Default(b, op)[q] = b[q]
  BY DEF Default

\* What hangs below an object of the body, along the path.
LEMMA HangsFacts ==
    ASSUME NEW b, IsBody(b), NEW p \in Path, NEW c, NEW q, NEW k, NEW m, Hangs(b, p, c, q, k, m)
    PROVE  /\ c \in Positions /\ Len(c) = m /\ m \in Nat /\ k \in Nat /\ k > 0
           /\ k <= m /\ m <= Len(p)
           /\ q \in DOMAIN b /\ q \in Positions /\ Len(q) = k - 1 /\ b[q].k = "obj"
           /\ \A i \in 1..m : c[i].name = p[i].name
           /\ \A i \in k..m : c[i] = [name |-> p[i].name, idx |-> 0]
           /\ \A i \in 1..k - 1 : c[i] = q[i]
<1>1. /\ k \in 1..Len(p) /\ m \in k..Len(p) /\ q \in Met(b, p, k - 1)
      /\ c = q \o Tail1(p, k, m)
  BY DEF Hangs
<1>2. Len(p) \in Nat /\ \A i \in 1..Len(p) : p[i].name \in Names
  BY PathFacts
<1>3. PICK j : j = k - 1
  OBVIOUS
<1>4. j \in 0..Len(p) - 1 /\ q \in Met(b, p, j)
  BY <1>1, <1>2, <1>3
<1>5. /\ q \in DOMAIN b /\ q \in Positions /\ Len(q) = j /\ b[q].k = "obj"
      /\ \A i \in 1..j : q[i].name = p[i].name
  BY <1>4, MetFacts
<1>6. k \in Nat /\ k > 0 /\ m \in Nat /\ k <= m /\ m <= Len(p) /\ m - k + 1 \in Nat
  BY <1>1, <1>2
<1>7. \A i \in 1..m - k + 1 : [name |-> p[k + i - 1].name, idx |-> 0] \in Step
  <2> TAKE i \in 1..m - k + 1
  <2>1. k + i - 1 \in 1..Len(p)
    BY <1>2, <1>6
  <2> QED
    BY <1>2, <2>1 DEF Step
<1>8. Tail1(p, k, m) \in Seq(Step) /\ Len(Tail1(p, k, m)) = m - k + 1
  <2>1. Tail1(p, k, m) \in [1..m - k + 1 -> Step]
    BY <1>7 DEF Tail1
  <2> HIDE DEF Tail1
  <2> QED
    BY <1>6, <2>1, SeqDef, LenProperties
<1>9. /\ c \in Positions /\ Len(c) = j + (m - k + 1)
      /\ \A i \in 1..j + (m - k + 1) : c[i] = IF i <= j THEN q[i] ELSE Tail1(p, k, m)[i - j]
  <2> HIDE DEF Tail1
  <2> QED
    <3>1. q \in Seq(Step) /\ Tail1(p, k, m) \in Seq(Step)
      BY <1>5, <1>8 DEF Positions
    <3>2. /\ c \in Seq(Step) /\ Len(c) = Len(q) + Len(Tail1(p, k, m))
          /\ \A i \in 1..Len(q) + Len(Tail1(p, k, m)) :
                c[i] = IF i <= Len(q) THEN q[i] ELSE Tail1(p, k, m)[i - Len(q)]
      BY <1>1, <3>1, ConcatProperties
    <3> QED
      BY <1>5, <1>8, <3>2 DEF Positions
<1>10. \A i \in k..m : c[i] = [name |-> p[i].name, idx |-> 0]
  <2> TAKE i \in k..m
  <2>1. i - j \in 1..m - k + 1 /\ k + (i - j) - 1 = i /\ ~ i <= j /\ i \in 1..j + (m - k + 1)
    BY <1>3, <1>6
  <2> QED
    BY <1>9, <2>1 DEF Tail1
<1>11. \A i \in 1..k - 1 : c[i] = q[i]
  BY <1>3, <1>6, <1>9
<1>12. \A i \in 1..m : c[i].name = p[i].name
  <2> TAKE i \in 1..m
  <2>1. CASE i \in k..m
    <3>1. c[i] = [name |-> p[i].name, idx |-> 0]
      BY <1>10, <2>1
    <3> QED
      BY <3>1
  <2>2. CASE i \notin k..m
    <3>1. i \in 1..k - 1 /\ i \in 1..j
      BY <1>3, <1>6, <2>2
    <3> QED
      BY <1>5, <1>11, <3>1
  <2> QED
    BY <2>1, <2>2
<1>13. Len(c) = m
  BY <1>3, <1>6, <1>9
<1> QED
  BY <1>3, <1>5, <1>6, <1>9, <1>10, <1>11, <1>12, <1>13

LEMMA DefaultKeepsBody ==
    ASSUME NEW b, IsBody(b), NEW op, IsDefault(op)
    PROVE  IsBody(Default(b, op))
<1> DEFINE r == Default(b, op)
<1>1. ASSUME NEW c \in Created(b, op) PROVE c \in Positions
  <2>1. PICK k, m, q : Hangs(b, op.field, c, q, k, m)
    BY CreatedMeans
  <2>2. op.field \in Path
    BY DEF IsDefault
  <2> QED
    BY <2>1, <2>2, HangsFacts
<1>2. op.value \in Nodes /\ Numeric(op.value) /\ Obj \in Nodes /\ Numeric(Obj)
  BY TextAssumption DEF IsDefault, IsValue, Obj, Nodes, NodeKinds, NumberKinds, Numeric
<1>3. \A q \in DOMAIN r :
          q \in Positions /\ r[q] \in Nodes /\ Numeric(r[q])
  <2> TAKE q \in DOMAIN r
  <2>1. CASE q \in Created(b, op)
    <3>1. r[q] = op.value \/ r[q] = Obj
      BY <2>1, DefaultAt
    <3> HIDE DEF r
    <3> QED
      BY <1>1, <1>2, <2>1, <3>1
  <2>2. CASE q \in DOMAIN b /\ q \notin Created(b, op)
    <3>1. r[q] = b[q]
      BY <2>2, DefaultAt
    <3> HIDE DEF r
    <3> QED
      BY <2>2, <3>1 DEF IsBody
  <2> QED
    BY <2>1, <2>2, DefaultAt
<1>4. r = [q \in DOMAIN r |-> r[q]]
  BY DefaultShape
<1> HIDE DEF r
<1>5. IsBody(r)
  BY <1>3, <1>4 DEF IsBody
<1> QED
  BY <1>5 DEF r

LEMMA DefaultIsLocal ==
    ASSUME NEW b, IsBody(b), NEW op, IsDefault(op),
           NEW q \in DOMAIN b \cup DOMAIN Default(b, op), ~ Addresses(op, q)
    PROVE  q \in DOMAIN b \cap DOMAIN Default(b, op) /\ Default(b, op)[q] = b[q]
<1>1. q \notin Created(b, op)
  <2> SUFFICES ASSUME q \in Created(b, op) PROVE FALSE
    OBVIOUS
  <2>1. PICK k, m, o : Hangs(b, op.field, q, o, k, m)
    BY CreatedMeans
  <2>2. op.field \in Path
    BY DEF IsDefault
  <2>3. Len(q) = m /\ m \in Nat /\ m <= Len(op.field) /\ \A i \in 1..m : q[i].name = op.field[i].name
    BY <2>1, <2>2, HangsFacts
  <2>4. Len(op.field) \in Nat
    BY <2>2, PathFacts
  <2>5. NamesAgree(q, op.field)
    BY <2>3, <2>4 DEF NamesAgree
  <2> QED
    BY <2>3, <2>5 DEF Addresses, IsDefault
<1> QED
  BY <1>1, DefaultAt

\* What a default creates replaces nothing but null.
LEMMA CreatedOverNull ==
    ASSUME NEW b, IsBody(b), IsTree(b), NEW op, IsDefault(op),
           NEW c \in Created(b, op), c \in DOMAIN b
    PROVE  b[c].k = "null"
<1> DEFINE p == op.field
<1>1. PICK k, m, q : Hangs(b, p, c, q, k, m)
  BY CreatedMeans
<1>2. p \in Path
  BY DEF IsDefault
<1>3. /\ c \in Positions /\ Len(c) = m /\ m \in Nat /\ k \in Nat /\ k > 0
      /\ k <= m /\ m <= Len(p)
      /\ q \in DOMAIN b /\ q \in Positions /\ Len(q) = k - 1
      /\ \A i \in k..m : c[i] = [name |-> p[i].name, idx |-> 0]
      /\ \A i \in 1..k - 1 : c[i] = q[i]
  <2> HIDE DEF p
  <2> QED
    BY <1>1, <1>2, HangsFacts
<1> DEFINE n == p[k].name
           u == Upto(c, k)
<1>4. n \in Names
  <2>1. k \in 1..Len(p)
    BY <1>1 DEF Hangs
  <2> QED
    BY <1>2, <2>1, PathFacts
<1>5. Missing(b, q, n)
  BY <1>1 DEF Hangs
<1>6. k \in 0..Len(c)
  BY <1>3
<1>7. u \in DOMAIN b /\ (k < Len(c) => b[u].k = "obj")
  BY <1>6, TreeUpto
<1>8. u \in Positions /\ Len(u) = k /\ \A i \in 1..k : u[i] = c[i]
  BY <1>3, <1>6, UptoFacts
<1>9. c[k] = [name |-> n, idx |-> 0]
  BY <1>3
<1> HIDE DEF n, p, u
<1>10. /\ At(q, n) \in Positions /\ Len(At(q, n)) = Len(q) + 1
       /\ \A i \in 1..Len(q) : At(q, n)[i] = q[i]
       /\ At(q, n)[Len(q) + 1] = [name |-> n, idx |-> 0]
  BY <1>3, <1>4, AtFacts
<1>11. \A i \in 1..k : At(q, n)[i] = u[i]
  BY <1>3, <1>8, <1>9, <1>10
<1>12. At(q, n) = u
  BY <1>3, <1>8, <1>10, <1>11, SamePosition
<1>13. b[u].k = "null"
  BY <1>5, <1>7, <1>12 DEF Missing, Absent
<1>14. k = Len(c)
  BY <1>3, <1>7, <1>13
<1>15. u = c
  BY <1>3, <1>14, UptoAll DEF u
<1> QED
  BY <1>13, <1>15

LEMMA DefaultKeepsTree ==
    ASSUME NEW b, IsBody(b), IsTree(b), NEW op, IsDefault(op)
    PROVE  IsTree(Default(b, op))
<1> DEFINE r == Default(b, op)
           C == Created(b, op)
           p == op.field
<1>0. p \in Path /\ Len(p) \in Nat
  BY PathFacts DEF IsDefault
<1>1. ASSUME NEW q \in DOMAIN b, b[q].k # "null" PROVE q \in DOMAIN r /\ r[q] = b[q]
  BY <1>1, CreatedOverNull, DefaultAt
<1>2. IsObject(r)
  BY <1>1 DEF IsTree, IsObject
<1>3. ASSUME NEW q \in DOMAIN b, Len(q) > 0
      PROVE  /\ Above(q) \in DOMAIN r /\ r[Above(q)].k = "obj"
             /\ q[Len(q)].idx > 0 => ArrayOf(q) \in DOMAIN r /\ r[ArrayOf(q)].k = "arr"
  <2>1. /\ Above(q) \in DOMAIN b /\ b[Above(q)].k = "obj"
        /\ q[Len(q)].idx > 0 => ArrayOf(q) \in DOMAIN b /\ b[ArrayOf(q)].k = "arr"
    BY <1>3 DEF IsTree
  <2> QED
    BY <1>1, <2>1
<1>4. ASSUME NEW c \in C
      PROVE  /\ Above(c) \in DOMAIN r /\ r[Above(c)].k = "obj"
             /\ c[Len(c)].idx = 0
  <2>1. PICK k, m, q : Hangs(b, p, c, q, k, m)
    BY CreatedMeans
  <2>2. /\ c \in Positions /\ Len(c) = m /\ m \in Nat /\ k \in Nat /\ k > 0
        /\ k <= m /\ m <= Len(p)
        /\ q \in DOMAIN b /\ q \in Positions /\ Len(q) = k - 1 /\ b[q].k = "obj"
        /\ \A i \in k..m : c[i] = [name |-> p[i].name, idx |-> 0]
        /\ \A i \in 1..k - 1 : c[i] = q[i]
    <3> HIDE DEF p
    <3> QED
      BY <1>0, <2>1, HangsFacts
  <2>3. c[m].idx = 0
    <3>1. m \in k..m
      BY <2>2
    <3>2. c[m] = [name |-> p[m].name, idx |-> 0]
      BY <2>2, <3>1
    <3> QED
      BY <3>2
  <2>4. m - 1 \in 0..Len(c)
    BY <2>2
  <2>5. Above(c) \in Positions /\ Len(Above(c)) = m - 1 /\ \A i \in 1..m - 1 : Above(c)[i] = c[i]
    BY <2>2, <2>4, UptoFacts DEF Above
  <2>6. CASE k = m
    <3>1. Above(c) = q
      BY <2>2, <2>5, <2>6, SamePosition
    <3>2. q \in DOMAIN r /\ r[q] = b[q]
      BY <1>1, <2>2
    <3> QED
      BY <2>2, <2>3, <3>1, <3>2
  <2>7. CASE k # m
    <3> DEFINE d == q \o Tail1(p, k, m - 1)
    <3>1. Hangs(b, p, d, q, k, m - 1)
      <4>1. m - 1 \in k..Len(p)
        BY <1>0, <2>2, <2>7
      <4> QED
        BY <2>1, <4>1 DEF Hangs
    <3>2. d \in C
      BY <3>1, CreatedMeans
    <3>3. /\ d \in Positions /\ Len(d) = m - 1
          /\ \A i \in k..m - 1 : d[i] = [name |-> p[i].name, idx |-> 0]
          /\ \A i \in 1..k - 1 : d[i] = q[i]
      <4> HIDE DEF d, p
      <4> QED
        BY <1>0, <3>1, HangsFacts
    <3>4. \A i \in 1..m - 1 : d[i] = c[i]
      <4> HIDE DEF d
      <4> TAKE i \in 1..m - 1
      <4>1. CASE i \in k..m - 1
        <5>1. i \in k..m
          BY <2>2, <4>1
        <5> QED
          BY <2>2, <3>3, <4>1, <5>1
      <4>2. CASE i \notin k..m - 1
        <5>1. i \in 1..k - 1
          BY <2>2, <4>2
        <5> QED
          BY <2>2, <3>3, <5>1
      <4> QED
        BY <4>1, <4>2
    <3>5. Above(c) = d
      <4> HIDE DEF d
      <4> QED
        BY <2>5, <3>3, <3>4, SamePosition
    <3>6. Len(d) # Len(p)
      <4> HIDE DEF d
      <4> QED
        BY <1>0, <2>2, <3>3
    <3>7. d \in DOMAIN r /\ r[d] = Obj
      BY <3>2, <3>6, DefaultAt
    <3> QED
      <4>1. Obj.k = "obj"
        BY DEF Obj
      <4> HIDE DEF d, r
      <4> QED
        BY <2>2, <2>3, <3>5, <3>7, <4>1
  <2> QED
    BY <2>6, <2>7
<1>5. \A q \in DOMAIN r : Len(q) > 0 =>
          /\ Above(q) \in DOMAIN r /\ r[Above(q)].k = "obj"
          /\ q[Len(q)].idx > 0 => ArrayOf(q) \in DOMAIN r /\ r[ArrayOf(q)].k = "arr"
  <2> TAKE q \in DOMAIN r
  <2> HAVE Len(q) > 0
  <2>1. CASE q \in DOMAIN b
    BY <1>3, <2>1
  <2>2. CASE q \in C
    <3> HIDE DEF r, C
    <3>1. Above(q) \in DOMAIN r /\ r[Above(q)].k = "obj" /\ q[Len(q)].idx = 0
      BY <1>4, <2>2
    <3> QED
      BY <3>1
  <2> QED
    BY <2>1, <2>2, DefaultAt
<1> HIDE DEF r
<1>6. IsTree(r)
  BY <1>2, <1>5 DEF IsTree
<1> QED
  BY <1>6 DEF r

-----------------------------------------------------------------------------
(* A stanza, and a list of them *)

LEMMA StanzaIs ==
    ASSUME NEW s, Stanza(s)
    PROVE  \/ IsRename(s) \/ IsDefault(s) \/ IsCoerce(s)
           \/ s.verb = "optionalize"
  BY StanzaCases DEF IsRename, IsDefault, IsCoerce

\* A stanza that does not fail makes a body of a body, a tree of a tree, and
\* leaves alone what it does not address.
LEMMA AppliedFacts ==
    ASSUME NEW b, IsBody(b), NEW op, Stanza(op), NEW optional, ~ Fails(b, op, optional)
    PROVE  /\ IsBody(Applied(b, op))
           /\ IsTree(b) => IsTree(Applied(b, op))
           /\ \A q \in DOMAIN b \cup DOMAIN Applied(b, op) : ~ Addresses(op, q) =>
                 q \in DOMAIN b \cap DOMAIN Applied(b, op) /\ Applied(b, op)[q] = b[q]
<1>1. CASE IsRename(op)
  <2>1. Applied(b, op) = Rename(b, op) /\ ~ RenameFails(b, op, optional)
    BY <1>1, VerbFacts DEF IsRename
  <2>2. IsBody(Rename(b, op)) /\ (IsTree(b) => IsTree(Rename(b, op)))
    BY <1>1, <2>1, RenameKeepsBody, RenameKeepsTree
  <2>3. \A q \in DOMAIN b \cup DOMAIN Rename(b, op) : ~ Addresses(op, q) =>
            q \in DOMAIN b \cap DOMAIN Rename(b, op) /\ Rename(b, op)[q] = b[q]
    BY <1>1, RenameIsLocal
  <2> QED
    BY <2>1, <2>2, <2>3
<1>2. CASE IsDefault(op)
  <2>1. Applied(b, op) = Default(b, op)
    BY <1>2, VerbFacts DEF IsDefault
  <2>2. IsBody(Default(b, op)) /\ (IsTree(b) => IsTree(Default(b, op)))
    BY <1>2, DefaultKeepsBody, DefaultKeepsTree
  <2>3. \A q \in DOMAIN b \cup DOMAIN Default(b, op) : ~ Addresses(op, q) =>
            q \in DOMAIN b \cap DOMAIN Default(b, op) /\ Default(b, op)[q] = b[q]
    BY <1>2, DefaultIsLocal
  <2> QED
    BY <2>1, <2>2, <2>3
<1>3. CASE IsCoerce(op)
  <2>1. Applied(b, op) = Coerce(b, op) /\ ~ CoerceFails(b, op, optional)
    BY <1>3, VerbFacts DEF IsCoerce
  <2>2. IsBody(Coerce(b, op)) /\ (IsTree(b) => IsTree(Coerce(b, op)))
    BY <1>3, <2>1, CoerceKeepsBody, CoerceKeepsTree
  <2>3. \A q \in DOMAIN b \cup DOMAIN Coerce(b, op) : ~ Addresses(op, q) =>
            q \in DOMAIN b \cap DOMAIN Coerce(b, op) /\ Coerce(b, op)[q] = b[q]
    BY <1>3, CoerceIsLocal
  <2> QED
    BY <2>1, <2>2, <2>3
<1>4. CASE op.verb = "optionalize"
  <2>1. Applied(b, op) = b
    BY <1>4, VerbFacts
  <2> QED
    BY <2>1
<1> QED
  BY <1>1, <1>2, <1>3, <1>4, StanzaIs

\* What is decoded has the shape of the document, and float64s for numbers.
LEMMA UnmarshalFacts ==
    ASSUME NEW b, IsJSON(b)
    PROVE  /\ IsBody(b) /\ IsBody(Unmarshal(b)) /\ DOMAIN Unmarshal(b) = DOMAIN b
           /\ IsObject(b) => IsTree(Unmarshal(b))
<1> DEFINE u == Unmarshal(b)
<1>1. /\ b \in [DOMAIN b -> Nodes] /\ DOMAIN b \subseteq Positions
      /\ \A q \in DOMAIN b : b[q] \in Nodes /\ (b[q].k \in NumberKinds => b[q].v \in DOMAIN Float64)
      /\ IsObject(b) => IsTree(b)
  BY DEF IsJSON, IsValue, Positions
<1>2. DOMAIN u = DOMAIN b /\ u = [q \in DOMAIN b |-> u[q]]
  BY DEF Unmarshal
<1>3. \A q \in DOMAIN b :
          /\ u[q] \in Nodes /\ Numeric(u[q]) /\ Numeric(b[q])
          /\ \A kind \in {"obj", "arr"} : b[q].k = kind => u[q].k = kind
  <2> TAKE q \in DOMAIN b
  <2>1. CASE b[q].k \in NumberKinds
    <3>1. u[q] = [k |-> "num", v |-> Float64[b[q].v]]
      BY <2>1 DEF Unmarshal
    <3>2. b[q].v \in DOMAIN Float64 /\ Float64[b[q].v] \in DOMAIN Float64 /\ Float64[b[q].v] \in Texts
      BY <1>1, <2>1, TextAssumption
    <3> HIDE DEF u
    <3>3. u[q].k = "num" /\ u[q].v = Float64[b[q].v] /\ u[q] \in Nodes
      BY <3>1, <3>2 DEF Nodes, NodeKinds, NumberKinds
    <3> QED
      BY <2>1, <3>2, <3>3 DEF NumberKinds, Numeric
  <2>2. CASE b[q].k \notin NumberKinds
    <3>1. u[q] = b[q]
      BY <2>2 DEF Unmarshal
    <3> HIDE DEF u
    <3> QED
      BY <1>1, <2>2, <3>1 DEF NumberKinds, Numeric
  <2> QED
    BY <2>1, <2>2
<1> HIDE DEF u
<1>4. IsBody(u) /\ IsBody(b)
  BY <1>1, <1>2, <1>3 DEF IsBody
<1>5. ASSUME IsObject(b) PROVE IsTree(u)
  <2>1. IsTree(b)
    BY <1>1, <1>5
  <2> QED
    BY <1>2, <1>3, <1>5, <2>1 DEF IsTree, IsObject
<1> QED
  BY <1>2, <1>4, <1>5 DEF u

\* A tree without NaN and Inf is a JSON value.
LEMMA EncodableIsJSON ==
    ASSUME NEW b, IsBody(b), IsTree(b), Encodable(b)
    PROVE  IsJSON(b)
<1>1. \A q \in DOMAIN b : b[q] \in Nodes /\ (b[q].k \in NumberKinds => b[q].v \in DOMAIN Float64)
  BY DEF IsBody, Encodable, Numeric, NumberKinds
<1> QED
  BY <1>1 DEF IsJSON, IsValue, IsBody, Positions

-----------------------------------------------------------------------------
(* apply *)

\* A list of stanzas that toOps let pass.
IsStanzas(list) == IsList(list) /\ \A i \in DOMAIN list : Stanza(list[i])

\* Nothing has changed that no stanza so far addresses.
Untouched(q) ==
    \/ \E i \in 1..next - 1 : Addresses(ops[i], q)
    \/ q \in DOMAIN given \cap DOMAIN body /\ body[q] = Unmarshal(given)[q]

\* Between two stanzas the body is a tree in which only what the stanzas so far
\* address has changed; NaN and Inf may be in it until it is encoded.
TInv ==
    /\ IsStanzas(ops)
    /\ next \in 1..Len(ops) + 1
    /\ verdict \in {"idle", "running", "done", "failed"}
    /\ IsJSON(given)
    /\ IsBody(body)
    /\ verdict \in {"running", "done"} /\ ops # <<>> =>
          IsTree(body) /\ \A q \in DOMAIN given \cup DOMAIN body : Untouched(q)
    /\ verdict = "running" => ops # <<>>
    /\ verdict = "done" => IsJSON(body)

LEMMA BeginStep ==
    ASSUME NEW list, IsStanzas(list), NEW b, IsJSON(b), Begin(list, b)
    PROVE  TInv' /\ verdict' \in {"running", "done", "failed"}
<1>1. ops' = list /\ next' = 1 /\ given' = b
  BY DEF Begin
<1>2. next' \in 1..Len(ops') + 1
  BY <1>1 DEF IsStanzas, IsList
<1>3. IsBody(b) /\ IsBody(Unmarshal(b)) /\ DOMAIN Unmarshal(b) = DOMAIN b
      /\ (IsObject(b) => IsTree(Unmarshal(b)))
  BY UnmarshalFacts
<1>4. CASE list = <<>>
  <2>1. body' = b /\ verdict' = "done"
    BY <1>4 DEF Begin
  <2> QED
    BY <1>1, <1>2, <1>3, <1>4, <2>1 DEF TInv
<1>5. CASE list # <<>> /\ IsObject(b)
  <2>1. body' = Unmarshal(b) /\ verdict' = "running"
    BY <1>5 DEF Begin
  <2>2. \A q \in DOMAIN given' \cup DOMAIN body' : Untouched(q)'
    BY <1>1, <1>3, <2>1 DEF Untouched
  <2> QED
    BY <1>1, <1>2, <1>3, <1>5, <2>1, <2>2 DEF TInv
<1>6. CASE list # <<>> /\ ~ IsObject(b)
  <2>1. body' = b /\ verdict' = "failed"
    BY <1>6 DEF Begin
  <2> QED
    BY <1>1, <1>2, <1>3, <2>1 DEF TInv
<1> QED
  BY <1>4, <1>5, <1>6

LEMMA ApplyStep ==
    ASSUME TInv, Apply
    PROVE  TInv' /\ verdict' \in {"running", "failed"}
<1>1. /\ verdict = "running" /\ next <= Len(ops) /\ ops' = ops /\ given' = given
      /\ next \in 1..Len(ops) + 1 /\ Len(ops) \in Nat /\ DOMAIN ops = 1..Len(ops)
      /\ ops # <<>> /\ IsStanzas(ops) /\ IsJSON(given) /\ IsBody(body) /\ IsTree(body)
      /\ \A q \in DOMAIN given \cup DOMAIN body : Untouched(q)
  BY DEF TInv, Apply, IsStanzas, IsList
<1>2. CASE Fails(body, ops[next], opts)
  <2>1. verdict' = "failed" /\ next' = next /\ body' = body
    BY <1>2 DEF Apply
  <2> QED
    BY <1>1, <2>1 DEF TInv
<1>3. CASE ~ Fails(body, ops[next], opts)
  <2>1. body' = Applied(body, ops[next]) /\ next' = next + 1 /\ verdict' = verdict
    BY <1>3 DEF Apply
  <2>2. next \in DOMAIN ops /\ Stanza(ops[next])
    BY <1>1 DEF IsStanzas
  <2> DEFINE op == ops[next]
             a == Applied(body, op)
  <2>3. /\ IsBody(a) /\ IsTree(a)
        /\ \A q \in DOMAIN body \cup DOMAIN a : ~ Addresses(op, q) =>
              q \in DOMAIN body \cap DOMAIN a /\ a[q] = body[q]
    BY <1>1, <1>3, <2>2, AppliedFacts
  <2>4. next' - 1 = next /\ next \in 1..next' - 1 /\ next' \in 1..Len(ops) + 1
        /\ \A i \in 1..next - 1 : i \in 1..next' - 1
    BY <1>1, <2>1
  <2>5. body' = a
    BY <2>1
  <2> HIDE DEF a
  <2>6. \A q \in DOMAIN given' \cup DOMAIN body' : Untouched(q)'
    <3> SUFFICES ASSUME NEW q \in DOMAIN given \cup DOMAIN a PROVE Untouched(q)'
      BY <1>1, <2>5
    <3>1. CASE \E i \in 1..next - 1 : Addresses(ops[i], q)
      <4>1. \E i \in 1..next' - 1 : Addresses(ops'[i], q)
        BY <1>1, <2>4, <3>1
      <4> QED
        BY <4>1 DEF Untouched
    <3>2. CASE Addresses(op, q)
      <4>1. \E i \in 1..next' - 1 : Addresses(ops'[i], q)
        BY <1>1, <2>4, <3>2
      <4> QED
        BY <4>1 DEF Untouched
    <3>3. CASE ~ Addresses(op, q) /\ ~ \E i \in 1..next - 1 : Addresses(ops[i], q)
      <4>1. q \in DOMAIN body
        BY <1>1, <2>3, <3>3 DEF Untouched
      <4>2. q \in DOMAIN given /\ body[q] = Unmarshal(given)[q]
        BY <1>1, <3>3, <4>1 DEF Untouched
      <4>3. q \in DOMAIN a /\ a[q] = body[q]
        BY <2>3, <3>3, <4>1
      <4> QED
        BY <1>1, <2>5, <4>2, <4>3 DEF Untouched
    <3> QED
      BY <3>1, <3>2, <3>3
  <2>7. ops' = ops /\ given' = given /\ verdict' = "running" /\ IsBody(body') /\ IsTree(body')
    BY <1>1, <2>1, <2>3, <2>5
  <2> HIDE DEF op
  <2> QED
    BY <1>1, <2>4, <2>6, <2>7 DEF TInv
<1> QED
  BY <1>2, <1>3

LEMMA MarshalStep ==
    ASSUME TInv, Marshal
    PROVE  TInv' /\ verdict' \in {"done", "failed"}
<1>1. /\ verdict = "running" /\ ops # <<>>
      /\ ops' = ops /\ next' = next /\ body' = body /\ given' = given
      /\ verdict' = IF Encodable(body) THEN "done" ELSE "failed"
  BY DEF TInv, Marshal
<1>2. IsBody(body) /\ IsTree(body) /\ \A q \in DOMAIN given \cup DOMAIN body : Untouched(q)
  BY <1>1 DEF TInv
<1>3. \A q \in DOMAIN given' \cup DOMAIN body' : Untouched(q)'
  BY <1>1, <1>2 DEF Untouched
<1>4. Encodable(body) => IsJSON(body')
  BY <1>1, <1>2, EncodableIsJSON
<1> QED
  BY <1>1, <1>2, <1>3, <1>4 DEF TInv

-----------------------------------------------------------------------------
(* Lists of stanzas *)

Listed(f, n) == f = [i \in 1..n |-> f[i]]

IsSeq(s) == Len(s) \in Nat /\ DOMAIN s = 1..Len(s) /\ Listed(s, Len(s))

LEMMA ListIsSeq ==
    ASSUME NEW n \in Nat, NEW f, Listed(f, n)
    PROVE  IsSeq(f) /\ Len(f) = n
<1>1. f \in [1..n -> {f[i] : i \in 1..n}]
  BY DEF Listed
<1>2. f \in Seq({f[i] : i \in 1..n})
  BY <1>1, SeqDef
<1>3. Len(f) \in Nat /\ DOMAIN f = 1..Len(f) /\ DOMAIN f = 1..n
  BY <1>1, <1>2, LenProperties
<1>4. Len(f) = n
  <2>1. Len(f) = 0 \/ Len(f) \in 1..Len(f)
    BY <1>3
  <2>2. n = 0 \/ n \in 1..n
    OBVIOUS
  <2>3. Len(f) = 0 \/ Len(f) \in 1..n
    BY <1>3, <2>1
  <2>4. n = 0 \/ n \in 1..Len(f)
    BY <1>3, <2>2
  <2>5. Len(f) \in Nat
    BY <1>3
  <2> QED
    BY <2>3, <2>4, <2>5
<1>5. Listed(f, Len(f))
  BY <1>4
<1>6. IsSeq(f)
  BY <1>3, <1>5 DEF IsSeq
<1> QED
  BY <1>4, <1>6

\* Every element of c is one of s or t.
FromEither(c, s, t) ==
    \A i \in DOMAIN c : (\E j \in DOMAIN s : c[i] = s[j]) \/ (\E j \in DOMAIN t : c[i] = t[j])

LEMMA ConcatLists ==
    ASSUME NEW s, IsSeq(s), NEW t, IsSeq(t)
    PROVE  IsSeq(s \o t) /\ FromEither(s \o t, s, t)
<1> DEFINE R == {s[i] : i \in 1..Len(s)} \cup {t[i] : i \in 1..Len(t)}
           c == s \o t
<1>1. s \in Seq(R) /\ t \in Seq(R)
  <2>1. s \in [1..Len(s) -> R] /\ t \in [1..Len(t) -> R]
    BY DEF IsSeq, Listed
  <2> HIDE DEF R
  <2> QED
    BY <2>1, SeqDef DEF IsSeq, Listed
<1> HIDE DEF R
<1>2. /\ c \in Seq(R) /\ Len(c) = Len(s) + Len(t)
      /\ \A i \in 1..Len(s) + Len(t) : c[i] = IF i <= Len(s) THEN s[i] ELSE t[i - Len(s)]
  BY <1>1, ConcatProperties
<1> HIDE DEF c
<1>3. Len(c) \in Nat /\ DOMAIN c = 1..Len(c) /\ c \in [1..Len(c) -> R]
  BY <1>2, LenProperties
<1>4. IsSeq(c)
  BY <1>3 DEF IsSeq, Listed
<1>5. ASSUME NEW i \in DOMAIN c
      PROVE  (\E j \in DOMAIN s : c[i] = s[j]) \/ (\E j \in DOMAIN t : c[i] = t[j])
  <2>1. i \in 1..Len(s) + Len(t) /\ Len(s) \in Nat /\ Len(t) \in Nat
    BY <1>2, <1>3 DEF IsSeq, Listed
  <2>2. CASE i <= Len(s)
    <3>1. i \in DOMAIN s /\ c[i] = s[i]
      BY <1>2, <2>1, <2>2 DEF IsSeq, Listed
    <3> QED
      BY <3>1
  <2>3. CASE ~ i <= Len(s)
    <3>1. i - Len(s) \in DOMAIN t /\ c[i] = t[i - Len(s)]
      BY <1>2, <2>1, <2>3 DEF IsSeq, Listed
    <3> QED
      BY <3>1
  <2> QED
    BY <2>2, <2>3
<1> QED
  BY <1>4, <1>5 DEF c, FromEither

\* What sorting names does at a place of the order.
SortStep(S, s, i) == IF Order[i] \in S THEN Append(s, Order[i]) ELSE s

SortedUpTo(S, g, n) ==
    g = [i \in 0..n |-> IF i = 0 THEN <<>> ELSE SortStep(S, g[i - 1], i)]

LEMMA SortingExists ==
    ASSUME NEW S
    PROVE  \A n \in Nat : \E g : SortedUpTo(S, g, n)
<1> DEFINE B == {n \in Nat : ~ \E g : SortedUpTo(S, g, n)}
<1> SUFFICES ASSUME B # {} PROVE FALSE
  OBVIOUS
<1>1. PICK n \in B : \A j \in B : n <= j
  <2>1. B \in SUBSET Nat
    OBVIOUS
  <2> HIDE DEF B
  <2> QED
    BY <2>1, LeastNumber
<1>2. n \in Nat /\ ~ \E g : SortedUpTo(S, g, n)
  OBVIOUS
<1>3. n # 0
  <2>1. SortedUpTo(S, [i \in 0..0 |-> <<>>], 0)
    BY DEF SortedUpTo
  <2> QED
    BY <1>2, <2>1
<1>4. n - 1 \in Nat /\ n - 1 \notin B
  BY <1>1, <1>2, <1>3
<1>5. PICK g : SortedUpTo(S, g, n - 1)
  BY <1>4
<1> DEFINE h == [i \in 0..n |-> IF i = n THEN SortStep(S, g[n - 1], n) ELSE g[i]]
<1>6. \A i \in 0..n - 1 : g[i] = IF i = 0 THEN <<>> ELSE SortStep(S, g[i - 1], i)
  BY <1>5 DEF SortedUpTo
<1>7. \A i \in 0..n : h[i] = IF i = 0 THEN <<>> ELSE SortStep(S, h[i - 1], i)
  <2> TAKE i \in 0..n
  <2>1. CASE i = n
    <3>1. h[n] = SortStep(S, g[n - 1], n) /\ h[n - 1] = g[n - 1]
      BY <1>2, <1>4
    <3> HIDE DEF h
    <3> QED
      BY <1>3, <2>1, <3>1
  <2>2. CASE i # n
    <3>1. i \in 0..n - 1 /\ h[i] = g[i] /\ (i # 0 => h[i - 1] = g[i - 1])
      BY <1>2, <2>2
    <3> HIDE DEF h
    <3> QED
      BY <1>6, <3>1
  <2> QED
    BY <2>1, <2>2
<1>8. h = [i \in 0..n |-> IF i = 0 THEN <<>> ELSE SortStep(S, h[i - 1], i)]
  <2>1. h = [i \in 0..n |-> h[i]]
    OBVIOUS
  <2> HIDE DEF h
  <2> QED
    BY <1>7, <2>1
<1> HIDE DEF h, B
<1> QED
  BY <1>2, <1>8 DEF SortedUpTo

LEMMA SortedIsSeq ==
    ASSUME NEW S
    PROVE  IsSeq(Sorted(S))
<1>1. Len(Order) \in Nat /\ DOMAIN Order = 1..Len(Order)
  BY OrderAssumption
<1> DEFINE at == CHOOSE g : SortedUpTo(S, g, Len(Order))
<1>2. SortedUpTo(S, at, Len(Order))
  BY <1>1, SortingExists
<1>3. Sorted(S) = at[Len(Order)]
  BY DEF Sorted, SortedUpTo, SortStep
<1> HIDE DEF at
<1>4. \A i \in 0..Len(Order) : at[i] = IF i = 0 THEN <<>> ELSE SortStep(S, at[i - 1], i)
  BY <1>2 DEF SortedUpTo
<1> DEFINE B == {i \in 0..Len(Order) : at[i] \notin Seq(Ordered)}
<1>5. B = {}
  <2> SUFFICES ASSUME B # {} PROVE FALSE
    OBVIOUS
  <2>1. PICK i \in B : \A j \in B : i <= j
    <3>1. B \in SUBSET Nat
      BY <1>1
    <3> HIDE DEF B
    <3> QED
      BY <3>1, LeastNumber
  <2>2. i \in 0..Len(Order) /\ at[i] \notin Seq(Ordered)
    OBVIOUS
  <2>3. i # 0
    <3> SUFFICES ASSUME i = 0 PROVE FALSE
      OBVIOUS
    <3>1. at[i] = <<>>
      BY <1>4, <2>2
    <3>2. <<>> \in Seq(Ordered)
      BY EmptySeq
    <3> QED
      BY <2>2, <3>1, <3>2
  <2>4. i - 1 \in 0..Len(Order) /\ i - 1 \notin B
    BY <1>1, <2>1, <2>2, <2>3
  <2>5. at[i - 1] \in Seq(Ordered)
    BY <2>4
  <2>6. Order[i] \in Ordered
    BY <1>1, <2>2, <2>3 DEF Ordered
  <2>7. PICK s : s = at[i - 1]
    OBVIOUS
  <2>8. SortStep(S, s, i) \in Seq(Ordered)
    BY <2>5, <2>6, <2>7, AppendProperties DEF SortStep
  <2> QED
    BY <1>4, <2>2, <2>3, <2>7, <2>8
<1>6. Sorted(S) \in Seq(Ordered)
  BY <1>1, <1>3, <1>5
<1>7. /\ Len(Sorted(S)) \in Nat /\ DOMAIN Sorted(S) = 1..Len(Sorted(S))
      /\ Sorted(S) \in [1..Len(Sorted(S)) -> Ordered]
  <2> HIDE DEF Sorted
  <2> QED
    BY <1>6, LenProperties
<1> QED
  BY <1>7 DEF IsSeq, Listed

\* What a draft proposes, corrected or not.
Drafted(s) ==
    \/ \E r, a : s = RenameStanza(r, a)
    \/ \E a, value : IsValue(value) /\ s = DefaultStanza(a, value)
    \/ \E n, to : s = CoerceStanza(n, to)

DraftedList(list) == IsSeq(list) /\ \A i \in DOMAIN list : Drafted(list[i])

\* A list with an element for every element of another.
LEMMA MappedList ==
    ASSUME NEW ns, IsSeq(ns), NEW f, Listed(f, Len(ns)), \A i \in 1..Len(ns) : Drafted(f[i])
    PROVE  DraftedList(f) /\ Len(f) = Len(ns)
<1>1. Len(ns) \in Nat
  BY DEF IsSeq
<1>2. Len(f) = Len(ns) /\ DOMAIN f = 1..Len(ns) /\ IsSeq(f)
  BY <1>1, ListIsSeq
<1> QED
  BY <1>2 DEF DraftedList

LEMMA ZeroIsValue ==
    ASSUME NEW s
    PROVE  IsValue(zeroForSchema(s))
<1>1. "" \in Texts /\ "0" \in Texts /\ "false" \in Texts /\ "0" \in DOMAIN Float64
  BY TextAssumption
<1>2. ASSUME NEW kind \in NodeKinds, NEW v \in Texts, kind \in NumberKinds => v = "0"
      PROVE  IsValue([k |-> kind, v |-> v])
  BY <1>1, <1>2 DEF IsValue, Nodes
<1>3. CASE s.k = "boolean"
  <2>1. zeroForSchema(s) = [k |-> "bool", v |-> "false"]
    BY <1>3 DEF zeroForSchema
  <2>2. "bool" \in NodeKinds /\ "bool" \notin NumberKinds
    BY DEF NodeKinds, NumberKinds
  <2> QED
    BY <1>1, <1>2, <2>1, <2>2
<1>4. CASE s.k \in Scalars \ {"string", "boolean"}
  <2>1. zeroForSchema(s) = [k |-> "int", v |-> "0"]
    BY <1>4 DEF zeroForSchema, Scalars
  <2>2. "int" \in NodeKinds
    BY DEF NodeKinds, NumberKinds
  <2> QED
    BY <1>1, <1>2, <2>1, <2>2
<1>5. CASE s.k = "array"
  <2>1. zeroForSchema(s) = [k |-> "arr", v |-> ""]
    BY <1>5 DEF zeroForSchema, Scalars
  <2>2. "arr" \in NodeKinds /\ "arr" \notin NumberKinds
    BY DEF NodeKinds, NumberKinds
  <2> QED
    BY <1>1, <1>2, <2>1, <2>2
<1>6. CASE s.k \in {"map", "open", "inline"}
  <2>1. zeroForSchema(s) = [k |-> "obj", v |-> ""]
    BY <1>6 DEF zeroForSchema, Scalars
  <2>2. "obj" \in NodeKinds /\ "obj" \notin NumberKinds
    BY DEF NodeKinds, NumberKinds
  <2> QED
    BY <1>1, <1>2, <2>1, <2>2
<1>7. CASE s.k \notin {"boolean", "array", "map", "open", "inline"} \cup (Scalars \ {"string", "boolean"})
  <2>1. zeroForSchema(s) = [k |-> "str", v |-> ""]
    BY <1>7 DEF zeroForSchema
  <2>2. "str" \in NodeKinds /\ "str" \notin NumberKinds
    BY DEF NodeKinds, NumberKinds
  <2> QED
    BY <1>1, <1>2, <2>1, <2>2
<1> QED
  BY <1>3, <1>4, <1>5, <1>6, <1>7

LEMMA RenameStanzasDrafted ==
    ASSUME NEW pairs
    PROVE  DraftedList(RenameStanzas(pairs))
<1> DEFINE ns == Sorted({p[1] : p \in pairs})
           f == RenameStanzas(pairs)
<1>1. IsSeq(ns)
  BY SortedIsSeq
<1>2. DOMAIN ns = 1..Len(ns)
  BY <1>1 DEF IsSeq
<1> DEFINE target(n) == (CHOOSE p \in pairs : p[1] = n)[2]
<1>3. f = [i \in DOMAIN ns |-> RenameStanza(ns[i], target(ns[i]))]
  BY DEF RenameStanzas
<1> HIDE DEF ns, f, target
<1>4. Listed(f, Len(ns)) /\ \A i \in 1..Len(ns) : Drafted(f[i])
  BY <1>2, <1>3 DEF Listed, Drafted
<1> QED
  BY <1>1, <1>4, MappedList DEF f

LEMMA DefaultStanzasDrafted ==
    ASSUME NEW names, NEW to
    PROVE  DraftedList(DefaultStanzas(names, to))
<1> DEFINE ns == Sorted(names)
           f == DefaultStanzas(names, to)
<1>1. IsSeq(ns)
  BY SortedIsSeq
<1>2. DOMAIN ns = 1..Len(ns)
  BY <1>1 DEF IsSeq
<1>3. f = [i \in DOMAIN ns |-> DefaultStanza(ns[i], zeroForSchema(to[ns[i]]))]
  BY DEF DefaultStanzas
<1> HIDE DEF ns, f
<1>4. \A i \in 1..Len(ns) : IsValue(zeroForSchema(to[ns[i]]))
  BY ZeroIsValue
<1>5. Listed(f, Len(ns)) /\ \A i \in 1..Len(ns) : Drafted(f[i])
  BY <1>2, <1>3, <1>4 DEF Listed, Drafted
<1> QED
  BY <1>1, <1>5, MappedList DEF f

LEMMA CoerceStanzasDrafted ==
    ASSUME NEW names, NEW to
    PROVE  DraftedList(CoerceStanzas(names, to))
<1> DEFINE ns == Sorted(names)
           f == CoerceStanzas(names, to)
<1>1. IsSeq(ns)
  BY SortedIsSeq
<1>2. DOMAIN ns = 1..Len(ns)
  BY <1>1 DEF IsSeq
<1>3. f = [i \in DOMAIN ns |-> CoerceStanza(ns[i], primitiveType(to[ns[i]]))]
  BY DEF CoerceStanzas
<1> HIDE DEF ns, f
<1>4. Listed(f, Len(ns)) /\ \A i \in 1..Len(ns) : Drafted(f[i])
  BY <1>2, <1>3 DEF Listed, Drafted
<1> QED
  BY <1>1, <1>4, MappedList DEF f

LEMMA BothDrafted ==
    ASSUME NEW s, DraftedList(s), NEW t, DraftedList(t)
    PROVE  DraftedList(s \o t)
<1>1. IsSeq(s) /\ IsSeq(t)
  BY DEF DraftedList
<1>2. IsSeq(s \o t) /\ FromEither(s \o t, s, t)
  BY <1>1, ConcatLists
<1> QED
  BY <1>2 DEF DraftedList, FromEither

LEMMA DraftedDirection ==
    ASSUME NEW from, NEW to, NEW strict
    PROVE  DraftedList(draftDirection(from, to, strict).ops)
<1>1. \E pairs, names, others :
          draftDirection(from, to, strict).ops =
              RenameStanzas(pairs) \o DefaultStanzas(names, to) \o CoerceStanzas(others, to)
  BY DEF draftDirection
<1>2. PICK pairs, names, others :
          draftDirection(from, to, strict).ops =
              RenameStanzas(pairs) \o DefaultStanzas(names, to) \o CoerceStanzas(others, to)
  BY <1>1
<1> DEFINE d == draftDirection(from, to, strict).ops
           r == RenameStanzas(pairs)
           f == DefaultStanzas(names, to)
           c == CoerceStanzas(others, to)
<1>3. DraftedList(r) /\ DraftedList(f) /\ DraftedList(c)
  BY RenameStanzasDrafted, DefaultStanzasDrafted, CoerceStanzasDrafted
<1>4. d = r \o f \o c
  BY <1>2
<1> HIDE DEF d, r, f, c
<1>5. DraftedList(r \o f)
  BY <1>3, BothDrafted
<1>6. DraftedList(d)
  BY <1>3, <1>4, <1>5, BothDrafted
<1> QED
  BY <1>6 DEF d

\* What the reviewer puts right stays a list of stanzas.
LEMMA PastedIsList ==
    ASSUME NEW d, DraftedList(d.ops), NEW corrected, NEW optionA
    PROVE  IsList(Pasted(d, corrected, optionA))
<1> DEFINE cs == RenameStanzas(IF optionA THEN d.cands ELSE {})
           all == d.ops \o cs
           f == Pasted(d, corrected, optionA)
<1>1. DraftedList(cs)
  BY RenameStanzasDrafted
<1>2. DraftedList(all)
  <2> HIDE DEF cs
  <2> QED
    BY <1>1, BothDrafted
<1>3. f = [i \in DOMAIN all |-> IF corrected THEN Corrected(all[i]) ELSE all[i]]
  BY DEF Pasted
<1> HIDE DEF cs, all, f
<1>4. IsSeq(all) /\ DOMAIN all = 1..Len(all) /\ \A i \in 1..Len(all) : Drafted(all[i])
  BY <1>2 DEF DraftedList, IsSeq
<1>5. Listed(f, Len(all)) /\ Len(all) \in Nat
  BY <1>3, <1>4 DEF Listed, IsSeq
<1>6. Len(f) = Len(all) /\ DOMAIN f = 1..Len(all)
  BY <1>5, ListIsSeq
<1>7. ASSUME NEW s, Drafted(s)
      PROVE  IsStanza(s) /\ IsStanza(Corrected(s))
  <2>1. CASE \E r, a : s = RenameStanza(r, a)
    <3>1. s.verb = "rename" /\ IsStanza(s)
      BY <2>1 DEF RenameStanza, IsStanza
    <3>2. Corrected(s) = s
      BY <3>1 DEF Corrected
    <3> QED
      BY <3>1, <3>2
  <2>2. CASE \E a, value : IsValue(value) /\ s = DefaultStanza(a, value)
    <3>1. s.verb = "default" /\ IsValue(s.value)
      BY <2>2 DEF DefaultStanza
    <3>2. Corrected(s) = s
      BY <3>1 DEF Corrected
    <3> QED
      BY <3>1, <3>2 DEF IsStanza
  <2>3. CASE \E n, to : s = CoerceStanza(n, to)
    <3>1. s.verb = "coerce"
      BY <2>3 DEF CoerceStanza
    <3>2. Corrected(s).verb = "coerce"
      BY <2>3 DEF CoerceStanza, Corrected
    <3> QED
      BY <3>1, <3>2 DEF IsStanza
  <2> QED
    BY <1>7, <2>1, <2>2, <2>3 DEF Drafted
<1>8. \A i \in DOMAIN f : f[i] = all[i] \/ f[i] = Corrected(all[i])
  BY <1>3, <1>4, <1>6
<1>9. \A i \in DOMAIN f : IsStanza(f[i])
  BY <1>4, <1>6, <1>7, <1>8
<1>10. IsList(f)
  BY <1>5, <1>6, <1>9 DEF IsList
<1> QED
  BY <1>10 DEF f

-----------------------------------------------------------------------------
(* The shim *)

Stages == {"read", "collect", "name", "build", "accepted", "refused", "crashed"}

Phases == {"add", "shim", "serve", "refused", "answered", "upstream_error", "422", "502"}

\* The bundle is loaded.
Serving == phase \notin {"add", "shim", "refused"}

IsChain(c) ==
    /\ Len(c) \in Nat /\ DOMAIN c = 1..Len(c)
    /\ \A k \in DOMAIN c : IsList(c[k].request) /\ IsList(c[k].response)

\* What the messages are, while they are added.
AddInv == stage \in Stages /\ LInv /\ BInv /\ NInv

\* Nothing is applied before Load has looked at every stanza.
ChainInv ==
    /\ phase \in Phases
    /\ IsChain(chain)
    /\ Serving => chain # <<>> /\ \A k \in DOMAIN chain :
                     IsStanzas(chain[k].request) /\ IsStanzas(chain[k].response)
    /\ verdict # "idle" => Serving

LegInv ==
    /\ leg \in [dir : {"request", "response"}, link : Nat]
    /\ IF verdict = "idle" THEN leg.link = 0 ELSE leg.link \in 1..Len(chain)

SInv == AddInv /\ TInv /\ ChainInv /\ LegInv

LEMMA ToOpsMakesStanzas ==
    ASSUME NEW layer, NEW dir, NEW list, IsList(list), toOps(layer, dir, list)
    PROVE  IsStanzas(list)
  BY DEF toOps, IsStanzas, Stanza, IsList, IsStanza

LEMMA SInitHolds == Init => SInv
<1> SUFFICES ASSUME Init PROVE SInv
  OBVIOUS
<1>1. Len(<<>>) = 0 /\ DOMAIN <<>> = {} /\ 1..0 = {}
  OBVIOUS
<1>2. AddInv
  <2>1. LowerInit
    BY DEF Init
  <2>2. LInv /\ BInv
    BY <2>1, InitHolds, BInitHolds
  <2>3. NInv
    BY <1>1, <2>1 DEF LowerInit, NInv, Distinct
  <2> QED
    BY <2>1, <2>2, <2>3 DEF AddInv, LowerInit, Stages
<1>3. /\ ops = <<>> /\ next = 1 /\ body = <<>> /\ given = <<>> /\ verdict = "idle"
      /\ chain = <<>> /\ phase = "add" /\ leg = [dir |-> "request", link |-> 0]
  BY DEF Init
<1>4. TInv
  <2>1. IsStanzas(ops)
    BY <1>1, <1>3 DEF IsStanzas, IsList
  <2>2. body \in [DOMAIN body -> Nodes] /\ DOMAIN body \subseteq Positions
    BY <1>1, <1>3
  <2>3. IsJSON(given) /\ IsBody(body)
    BY <1>1, <1>3, <2>2 DEF IsJSON, IsBody, IsObject
  <2> QED
    BY <1>1, <1>3, <2>1, <2>3 DEF TInv
<1>5. ChainInv
  BY <1>1, <1>3 DEF ChainInv, IsChain, Serving, Phases
<1>6. LegInv
  BY <1>3 DEF LegInv
<1> QED
  BY <1>2, <1>4, <1>5, <1>6 DEF SInv

LEMMA AddKept ==
    ASSUME AddInv, UNCHANGED lowerVars
    PROVE  AddInv'
<1>1. LInv' /\ BInv' /\ NInv'
  BY StepHolds, BStepHolds, NStepHolds DEF AddInv
<1>2. stage' = stage
  BY DEF lowerVars
<1> QED
  BY <1>1, <1>2 DEF AddInv

LEMMA AddStep ==
    ASSUME AddInv, LowerNext
    PROVE  AddInv'
<1>1. LInv' /\ BInv' /\ NInv'
  BY StepHolds, BStepHolds, NStepHolds DEF AddInv
<1>2. stage' \in Stages
  BY DEF AddInv, LowerNext, ReadOperations, Visit, Collected, NameMessage, BuildMessage, Refuse, Stages
<1> QED
  BY <1>1, <1>2 DEF AddInv

LEMMA NextDocument ==
    ASSUME AddInv, WriteLayer
    PROVE  AddInv'
<1>1. CASE UNCHANGED lowerVars
  BY <1>1, AddKept
<1>2. CASE /\ doc' \in Documents
           /\ stage' = "read"
           /\ pending' = {} /\ visited' = {} /\ needed' = {}
           /\ idents' = <<>> /\ messages' = <<>>
  <2>1. DOMAIN <<>> = {}
    OBVIOUS
  <2>2. LInv' /\ stage' \in Stages
    BY <1>2 DEF LInv, Collecting, Stages
  <2>3. BInv'
    BY <1>2, <2>1 DEF BInv, Naming
  <2>4. NInv'
    BY <1>2, <2>1 DEF NInv, Distinct
  <2> QED
    BY <2>2, <2>3, <2>4 DEF AddInv
<1> QED
  BY <1>1, <1>2 DEF WriteLayer

LEMMA ApplyKept ==
    ASSUME TInv, UNCHANGED applyVars
    PROVE  TInv'
  BY DEF TInv, applyVars, Untouched

\* The chain is set when nothing has been applied yet.
LEMMA DraftShimStep ==
    ASSUME ChainInv, NEW strict, NEW corrected, NEW optionA, DraftShim(strict, corrected, optionA)
    PROVE  ChainInv'
<1> DEFINE d == draftShim(layers[1].doc, layers[2].doc, strict)
           there == Pasted(d.request, corrected, optionA)
           back  == Pasted(d.response, corrected, optionA)
<1>1. /\ phase = "shim" /\ phase' = phase /\ verdict' = verdict
      /\ chain' = <<[request |-> there, response |-> back]>>
  BY DEF DraftShim, applyVars
<1>2. DraftedList(d.request.ops) /\ DraftedList(d.response.ops)
  BY DraftedDirection DEF draftShim
<1>3. IsList(there) /\ IsList(back)
  <2> HIDE DEF d
  <2> QED
    BY <1>2, PastedIsList
<1> HIDE DEF there, back
<1>4. IsChain(chain')
  BY <1>1, <1>3 DEF IsChain
<1> QED
  BY <1>1, <1>4 DEF ChainInv, Serving

LEMMA WriteShimStep ==
    ASSUME ChainInv, WriteShim
    PROVE  ChainInv'
<1>1. phase = "shim" /\ phase' = phase /\ verdict' = verdict /\ chain' \in Chains
  BY DEF WriteShim, applyVars
<1>2. IsChain(chain')
  BY <1>1, ShimAssumption DEF IsChain
<1> QED
  BY <1>1, <1>2 DEF ChainInv, Serving

LEMMA LoadStep ==
    ASSUME ChainInv, Load
    PROVE  ChainInv'
<1>1. phase = "shim" /\ verdict' = verdict /\ chain' = chain /\ chain # <<>> /\ IsChain(chain)
  BY DEF Load, ChainInv, applyVars
<1>2. CASE /\ phase' = "serve"
           /\ \A k \in DOMAIN chain :
                  /\ toOps(layers[k], "request", chain[k].request)
                  /\ toOps(layers[k], "response", chain[k].response)
  <2>1. \A k \in DOMAIN chain : IsStanzas(chain[k].request) /\ IsStanzas(chain[k].response)
    BY <1>1, <1>2, ToOpsMakesStanzas DEF IsChain
  <2> QED
    BY <1>1, <1>2, <2>1 DEF ChainInv, Phases, Serving
<1>3. CASE phase' = "refused"
  BY <1>1, <1>3 DEF ChainInv, Phases, Serving
<1> QED
  BY <1>2, <1>3 DEF Load

\* A message goes through the stanzas of a link.
LEMMA LinkStanzas ==
    ASSUME ChainInv, Serving, NEW k \in DOMAIN chain
    PROVE  IsStanzas(chain[k].request) /\ IsStanzas(chain[k].response)
  BY DEF ChainInv

LEMMA NilFacts == IsJSON(Nil) /\ ~ IsObject(Nil)
<1>1. Nil = [q \in {} |-> Nil]
  BY DEF Nil
<1>2. DOMAIN Nil = {}
  BY <1>1
<1> QED
  BY <1>1, <1>2 DEF IsJSON, IsObject

LEMMA RequestStep ==
    ASSUME SInv, NEW b \in JSONBodies \cup {Nil}, Request(b)
    PROVE  SInv'
<1>1. /\ phase = "serve" /\ phase' = phase /\ chain' = chain
      /\ leg' = [dir |-> "request", link |-> 1]
      /\ UNCHANGED lowerVars /\ Begin(chain[1].request, b)
  BY DEF Request
<1>2. ChainInv /\ Serving
  BY <1>1 DEF SInv, Serving
<1>3. 1 \in DOMAIN chain /\ DOMAIN chain = 1..Len(chain) /\ Len(chain) \in Nat /\ 1 \in 1..Len(chain)
  BY <1>2 DEF ChainInv, IsChain
<1>4. IsStanzas(chain[1].request) /\ IsJSON(b)
  BY <1>2, <1>3, LinkStanzas, ShimAssumption, NilFacts
<1>5. TInv' /\ verdict' \in {"running", "done", "failed"}
  BY <1>1, <1>4, BeginStep
<1>6. AddInv'
  BY <1>1, AddKept DEF SInv
<1>7. ChainInv' /\ LegInv'
  BY <1>1, <1>2, <1>3, <1>5 DEF ChainInv, LegInv, Serving
<1> QED
  BY <1>5, <1>6, <1>7 DEF SInv

LEMMA RunStep ==
    ASSUME SInv, Run
    PROVE  SInv'
<1>1. /\ phase = "serve" /\ phase' = phase /\ chain' = chain /\ leg' = leg
      /\ UNCHANGED lowerVars /\ (Apply \/ Marshal)
  BY DEF Run, shimVars
<1>2. TInv' /\ verdict' # "idle"
  BY <1>1, ApplyStep, MarshalStep DEF SInv
<1>3. verdict # "idle"
  BY <1>1 DEF Apply, Marshal
<1>4. AddInv'
  BY <1>1, AddKept DEF SInv
<1>5. ChainInv' /\ LegInv'
  BY <1>1, <1>2, <1>3 DEF SInv, ChainInv, LegInv, Serving
<1> QED
  BY <1>2, <1>4, <1>5 DEF SInv

\* The next link, the upstream's answer, the link before: stanzas of the chain
\* begin on a body that is a JSON value.
LEMMA HandOn ==
    ASSUME SInv, verdict = "done", phase = "serve", phase' = phase, chain' = chain,
           UNCHANGED lowerVars, NEW k \in 1..Len(chain), NEW list, NEW b, IsJSON(b),
           list \in {chain[k].request, chain[k].response}, Begin(list, b),
           leg' \in [dir : {"request", "response"}, link : Nat], leg'.link \in 1..Len(chain)
    PROVE  SInv'
<1>1. ChainInv /\ Serving
  BY DEF SInv, Serving
<1>2. k \in DOMAIN chain
  BY <1>1 DEF ChainInv, IsChain
<1>3. IsStanzas(list)
  BY <1>1, <1>2, LinkStanzas
<1>4. TInv' /\ verdict' \in {"running", "done", "failed"}
  BY <1>3, BeginStep
<1>5. AddInv'
  BY AddKept DEF SInv
<1>6. ChainInv' /\ LegInv'
  BY <1>1, <1>4 DEF ChainInv, LegInv, Serving
<1> QED
  BY <1>4, <1>5, <1>6 DEF SInv

LEMMA HandOnStep ==
    ASSUME SInv, NextLink \/ PreviousLink \/ \E b \in Replies \cup {body} : Reply(b)
    PROVE  SInv'
<1>1. /\ verdict = "done" /\ phase = "serve" /\ phase' = phase /\ chain' = chain
      /\ UNCHANGED lowerVars
  BY DEF NextLink, PreviousLink, Reply
<1>2. /\ leg \in [dir : {"request", "response"}, link : Nat] /\ leg.link \in 1..Len(chain)
      /\ Len(chain) \in Nat /\ IsJSON(body)
  BY <1>1 DEF SInv, LegInv, TInv, ChainInv, IsChain
<1>3. CASE NextLink
  <2>1. /\ leg.link < Len(chain) /\ leg' = [leg EXCEPT !.link = leg.link + 1]
        /\ Begin(chain[leg.link + 1].request, body)
    BY <1>3 DEF NextLink
  <2>2. PICK k : k = leg.link + 1
    OBVIOUS
  <2>3. k \in 1..Len(chain) /\ k \in Nat
    BY <1>2, <2>1, <2>2
  <2>4. leg' \in [dir : {"request", "response"}, link : Nat] /\ leg'.link = k
    BY <1>2, <2>1, <2>2, <2>3
  <2> QED
    BY <1>1, <1>2, <2>1, <2>2, <2>3, <2>4, HandOn
<1>4. CASE PreviousLink
  <2>1. /\ leg.link > 1 /\ leg' = [leg EXCEPT !.link = leg.link - 1]
        /\ Begin(chain[leg.link - 1].response, body)
    BY <1>4 DEF PreviousLink, Answers
  <2>2. PICK k : k = leg.link - 1
    OBVIOUS
  <2>3. k \in 1..Len(chain) /\ k \in Nat
    BY <1>2, <2>1, <2>2
  <2>4. leg' \in [dir : {"request", "response"}, link : Nat] /\ leg'.link = k
    BY <1>2, <2>1, <2>2, <2>3
  <2> QED
    BY <1>1, <1>2, <2>1, <2>2, <2>3, <2>4, HandOn
<1>5. CASE \E b \in Replies \cup {body} : Reply(b)
  <2>1. PICK b \in Replies \cup {body} : Reply(b)
    BY <1>5
  <2>2. /\ leg' = [dir |-> "response", link |-> Len(chain)]
        /\ Begin(chain[Len(chain)].response, b)
    BY <2>1 DEF Reply, Answers
  <2>3. IsJSON(b)
    BY <1>2, <2>1, ShimAssumption
  <2>4. PICK k : k = Len(chain)
    OBVIOUS
  <2>5. k \in 1..Len(chain) /\ k \in Nat
    BY <1>2, <2>4
  <2>6. leg' \in [dir : {"request", "response"}, link : Nat] /\ leg'.link = k
    BY <2>2, <2>4, <2>5
  <2> QED
    BY <1>1, <2>2, <2>3, <2>4, <2>5, <2>6, HandOn
<1> QED
  BY <1>3, <1>4, <1>5

LEMMA SStepHolds == SInv /\ [Next]_vars => SInv'
<1> SUFFICES ASSUME SInv, [Next]_vars PROVE SInv'
  OBVIOUS
<1>0. AddInv /\ TInv /\ ChainInv /\ LegInv
  BY DEF SInv
<1>1. CASE Add
  <2>1. AddInv'
    BY <1>0, <1>1, AddStep DEF Add
  <2>2. UNCHANGED <<applyVars, shimVars>>
    BY <1>1 DEF Add
  <2>3. TInv'
    BY <1>0, <2>2, ApplyKept
  <2>4. ChainInv' /\ LegInv'
    BY <1>0, <2>2 DEF ChainInv, LegInv, Serving, applyVars, shimVars
  <2> QED
    BY <2>1, <2>3, <2>4 DEF SInv
<1>2. CASE WriteLayer
  <2>1. AddInv'
    BY <1>0, <1>2, NextDocument
  <2>2. /\ phase = "add" /\ phase' \in {"add", "shim"}
        /\ UNCHANGED <<applyVars, chain, leg>>
    BY <1>2 DEF WriteLayer
  <2>3. TInv'
    BY <1>0, <2>2, ApplyKept
  <2>4. ChainInv' /\ LegInv'
    BY <1>0, <2>2 DEF ChainInv, LegInv, Serving, applyVars, Phases
  <2> QED
    BY <2>1, <2>3, <2>4 DEF SInv
<1>3. CASE \/ \E strict, corrected, optionA \in BOOLEAN : DraftShim(strict, corrected, optionA)
           \/ WriteShim \/ Load
  <2>1. ChainInv'
    BY <1>0, <1>3, DraftShimStep, WriteShimStep, LoadStep
  <2>2. /\ UNCHANGED <<lowerVars, applyVars, leg>> /\ phase = "shim"
    BY <1>3 DEF DraftShim, WriteShim, Load
  <2>3. AddInv' /\ TInv'
    BY <1>0, <2>2, AddKept, ApplyKept
  <2>4. verdict = "idle"
    BY <1>0, <2>2 DEF ChainInv, Serving
  <2>5. LegInv'
    BY <1>0, <2>2, <2>4 DEF LegInv, applyVars
  <2> QED
    BY <2>1, <2>3, <2>5 DEF SInv
<1>4. CASE \E b \in JSONBodies \cup {Nil} : Request(b)
  BY <1>4, RequestStep
<1>5. CASE Run
  BY <1>5, RunStep
<1>6. CASE NextLink \/ PreviousLink \/ \E b \in Replies \cup {body} : Reply(b)
  BY <1>6, HandOnStep
<1>7. CASE Encode \/ TransformFailed
  <2>1. /\ UNCHANGED <<lowerVars, applyVars, chain, leg>> /\ phase = "serve"
        /\ phase' \in {"answered", "upstream_error", "422", "502"}
    BY <1>7 DEF Encode, TransformFailed
  <2>2. AddInv' /\ TInv'
    BY <1>0, <2>1, AddKept, ApplyKept
  <2>3. ChainInv' /\ LegInv'
    BY <1>0, <2>1 DEF ChainInv, LegInv, Serving, Phases, applyVars
  <2> QED
    BY <2>2, <2>3 DEF SInv
<1>8. CASE UNCHANGED vars
  <2>1. UNCHANGED <<lowerVars, applyVars, shimVars>>
    BY <1>8 DEF vars
  <2>2. AddInv' /\ TInv'
    BY <1>0, <2>1, AddKept, ApplyKept
  <2>3. ChainInv' /\ LegInv'
    BY <1>0, <2>1 DEF ChainInv, LegInv, Serving, applyVars, shimVars
  <2> QED
    BY <2>2, <2>3 DEF SInv
<1> QED
  BY <1>1, <1>2, <1>3, <1>4, <1>5, <1>6, <1>7, <1>8 DEF Next

LEMMA ShimInvariant == Spec => []SInv
  BY SInitHolds, SStepHolds, PTL DEF Spec

-----------------------------------------------------------------------------
(* The theorems *)

\* The variables of the composition are what their names say.
THEOREM TypeOKHolds == Spec => []TypeOK
<1>1. SInv => TypeOK
  <2> SUFFICES ASSUME SInv PROVE TypeOK
    OBVIOUS
  <2>1. stage \in Stages /\ visited \subseteq Components /\ needed \subseteq visited
    BY OrderAssumption DEF SInv, AddInv, LInv, BInv
  <2>2. /\ verdict \in {"idle", "running", "done", "failed"} /\ next \in 1..Len(ops) + 1
        /\ body \in [DOMAIN body -> Nodes] /\ DOMAIN body \subseteq Seq(Step)
    BY DEF SInv, TInv, IsBody, Positions
  <2>3. leg.link \in 0..Len(chain) /\ phase \in Phases
    BY DEF SInv, LegInv, ChainInv, IsChain
  <2> QED
    BY <2>1, <2>2, <2>3 DEF TypeOK, Stages, Phases
<1> QED
  BY <1>1, ShimInvariant, PTL

\* transform.go:86-149, walk.go: for any bodies, any paths and any stanzas that
\* Load lets pass, a body stays a JSON value from stanza to stanza, and what is
\* handed on has no number that JSON cannot write.
THEOREM StaysJSONHolds == Spec => []StaysJSON
<1>1. SInv => StaysJSON
  <2> SUFFICES ASSUME SInv PROVE StaysJSON
    OBVIOUS
  <2>1. verdict \in {"running", "done"} /\ ops # <<>> => IsTree(body)
    BY DEF SInv, TInv
  <2>2. ASSUME verdict = "done" PROVE Encodable(body)
    <3>1. \A q \in DOMAIN body : body[q].k = "num" => body[q].v \in DOMAIN Float64
      BY <2>2 DEF SInv, TInv, IsJSON, IsValue, NumberKinds
    <3> QED
      BY <3>1, TextAssumption DEF Encodable, NonFinite
  <2> QED
    BY <2>1, <2>2 DEF StaysJSON
<1> QED
  BY <1>1, ShimInvariant, PTL

\* transform.go:67-149: whatever the stanzas are, a body keeps everything that
\* none of them addresses, at its place and with its value, and gains nothing else.
THEOREM OnlyAddressedChangeHolds == Spec => []OnlyAddressedChange
<1>1. SInv => OnlyAddressedChange
  BY DEF SInv, TInv, OnlyAddressedChange, Untouched
<1> QED
  BY <1>1, ShimInvariant, PTL

\* What add promises of a layer holds of both versions of a shim.
THEOREM LayersHold == Spec => [](Reproducible /\ NamesDistinct /\ BindingsKeepProperties)
<1>1. SInv => Reproducible /\ NamesDistinct /\ BindingsKeepProperties
  BY ReproducibleFollows, NamesDistinctFollows, BindingsFollow DEF SInv, AddInv
<1> QED
  BY <1>1, ShimInvariant, PTL

-----------------------------------------------------------------------------
(* A rename undone *)

\* Two bodies that are the same above length n.
AgreeAbove(b, r, n) ==
    \A q \in Positions : Len(q) < n =>
        (q \in DOMAIN b <=> q \in DOMAIN r) /\ (q \in DOMAIN b => r[q] = b[q])

LEMMA RenameAgrees ==
    ASSUME NEW b, IsBody(b), NEW op, IsRename(op)
    PROVE  AgreeAbove(b, Rename(b, op), Len(op.from))
<1> DEFINE n == Len(op.from)
           r == Rename(b, op)
<1> SUFFICES ASSUME NEW q \in Positions, Len(q) < n
             PROVE  (q \in DOMAIN b <=> q \in DOMAIN r) /\ (q \in DOMAIN b => r[q] = b[q])
  BY DEF AgreeAbove
<1>1. n \in Nat /\ Len(q) \in Nat
  BY RenamePaths, PositionFacts
<1>2. q \notin Leaves(b, op)
  BY <1>1 DEF Leaves, Moved
<1>3. q \notin Landing(b, op)
  <2> SUFFICES ASSUME q \in Landing(b, op) PROVE FALSE
    OBVIOUS
  <2>1. n \in 1..Len(q)
    BY LandedFacts
  <2> QED
    BY <1>1, <2>1
<1>4. q \in DOMAIN b <=> q \in Staying(b, op)
  BY <1>2 DEF Staying
<1> QED
  BY <1>3, <1>4, RenameAt

LEMMA WalkSame ==
    ASSUME NEW b, IsBody(b), NEW r, IsBody(r), NEW p \in Path, NEW o \in Path,
           Len(o) = Len(p), \A i \in 1..Len(p) - 1 : o[i] = p[i], AgreeAbove(b, r, Len(p))
    PROVE  /\ Parents(r, o) = Parents(b, p)
           /\ walkLeavesFails(r, o, {}) <=> walkLeavesFails(b, p, {})
<1> DEFINE n == Len(p)
<1>0. n \in Nat /\ n > 0 /\ \A i \in 1..n : p[i].name \in Names
  BY PathFacts
<1>1. \A k \in 0..n - 1 : Met(r, o, k) = Met(b, p, k)
  <2> TAKE k \in 0..n - 1
  <2>1. ASSUME NEW q \in Positions, Len(q) = k
        PROVE  q \in Met(r, o, k) <=> q \in Met(b, p, k)
    <3>1. k < n /\ k <= n
      BY <1>0
    <3>2. (q \in DOMAIN b <=> q \in DOMAIN r) /\ (q \in DOMAIN b => r[q] = b[q])
      BY <2>1, <3>1 DEF AgreeAbove
    <3>3. \A i \in 1..k : o[i] = p[i]
      BY <1>0
    <3>4. Along(q, o) <=> Along(q, p)
      BY <2>1, <3>3 DEF Along
    <3> QED
      BY <3>2, <3>4 DEF Met
  <2>2. \A q : q \in Met(r, o, k) \/ q \in Met(b, p, k) => q \in Positions /\ Len(q) = k
    BY DEF Met, IsBody
  <2> QED
    BY <2>1, <2>2
<1>2. ASSUME NEW k \in 1..n - 1, NEW q \in Met(b, p, k - 1)
      PROVE  /\ Missing(r, q, p[k].name) <=> Missing(b, q, p[k].name)
             /\ ~ Missing(b, q, p[k].name) => (Mismatch(r, q, p[k]) <=> Mismatch(b, q, p[k]))
  <2> DEFINE x == p[k].name
             c == At(q, x)
  <2>1. k \in 1..n /\ x \in Names /\ k \in Nat /\ k < n /\ k - 1 \in 0..n - 1
    BY <1>0
  <2>2. q \in DOMAIN b /\ q \in Positions /\ Len(q) = k - 1
    BY DEF Met, IsBody
  <2> HIDE DEF x
  <2>3. c \in Positions /\ Len(c) = k
    <3>1. q \in Positions /\ x \in Names
      BY <2>1, <2>2
    <3>2. c \in Positions /\ Len(c) = Len(q) + 1
      BY <3>1, AtFacts
    <3> QED
      BY <2>1, <2>2, <3>2
  <2> HIDE DEF c
  <2>4. (c \in DOMAIN b <=> c \in DOMAIN r) /\ (c \in DOMAIN b => r[c] = b[c])
    BY <2>1, <2>3 DEF AgreeAbove
  <2>5. Missing(r, q, x) <=> Missing(b, q, x)
    BY <2>4 DEF Missing, Absent, c
  <2>6. ~ Missing(b, q, x) => c \in DOMAIN b /\ r[c] = b[c]
    BY <2>4 DEF Missing, Absent, c
  <2>7. /\ \A e : e \in Elements(r, q, x) <=> e \in Elements(b, q, x)
        /\ \A e \in Elements(b, q, x) : r[e] = b[e]
    <3>1. \A e \in DOMAIN b \cup DOMAIN r : Len(e) = Len(q) + 1 =>
              (e \in DOMAIN b <=> e \in DOMAIN r) /\ (e \in DOMAIN b => r[e] = b[e])
      <4> TAKE e \in DOMAIN b \cup DOMAIN r
      <4> HAVE Len(e) = Len(q) + 1
      <4>1. e \in Positions /\ Len(e) < n
        BY <2>1, <2>2 DEF IsBody
      <4> QED
        BY <4>1 DEF AgreeAbove
    <3> QED
      BY <3>1 DEF Elements
  <2>8. ~ Missing(b, q, x) => (Mismatch(r, q, p[k]) <=> Mismatch(b, q, p[k]))
    BY <2>6, <2>7 DEF Mismatch, c, x
  <2> QED
    BY <2>5, <2>8 DEF x
<1>3. \A e : ~ coversByName({}, e)
  BY DEF coversByName
<1>4. walkLeavesFails(b, p, {}) <=>
          \E k \in 1..n - 1 : \E q \in Met(b, p, k - 1) :
              Missing(b, q, p[k].name) \/ Mismatch(b, q, p[k])
  BY <1>3 DEF walkLeavesFails
<1>5. walkLeavesFails(r, o, {}) <=>
          \E k \in 1..n - 1 : \E q \in Met(r, o, k - 1) :
              Missing(r, q, o[k].name) \/ Mismatch(r, q, o[k])
  BY <1>3 DEF walkLeavesFails
<1>6. ASSUME NEW k \in 1..n - 1
      PROVE  (\E q \in Met(r, o, k - 1) : Missing(r, q, o[k].name) \/ Mismatch(r, q, o[k]))
             <=> (\E q \in Met(b, p, k - 1) : Missing(b, q, p[k].name) \/ Mismatch(b, q, p[k]))
  <2>1. k - 1 \in 0..n - 1 /\ o[k] = p[k]
    BY <1>0
  <2>2. Met(r, o, k - 1) = Met(b, p, k - 1)
    BY <1>1, <2>1
  <2> QED
    BY <1>2, <2>1, <2>2
<1>7. Parents(r, o) = Parents(b, p)
  BY <1>0, <1>1 DEF Parents
<1> QED
  BY <1>4, <1>5, <1>6, <1>7

\* A rename as the YAML gives it.
PlainRename(op) == IsRename(op) /\ op = [verb |-> "rename", from |-> op.from, to |-> op.to]

LEMMA UndoingFacts ==
    ASSUME NEW op, PlainRename(op)
    PROVE  /\ PlainRename(Undoing(op)) /\ IsRename(Undoing(op)) /\ IsRename(op)
           /\ Undoing(op).from = op.to /\ Undoing(op).to = op.from
<1>1. IsRename(op) /\ op = [verb |-> "rename", from |-> op.from, to |-> op.to]
  BY DEF PlainRename
<1>2. PICK f, t : f = op.from /\ t = op.to
  OBVIOUS
<1>3. op = [verb |-> "rename", from |-> f, to |-> t]
  BY <1>1, <1>2
<1>4. Undoing(op) = [verb |-> "rename", from |-> t, to |-> f]
  <2>1. Undoing(op) = [op EXCEPT !.from = t, !.to = f]
    BY <1>2 DEF Undoing
  <2>2. PICK s : s = [verb |-> "rename", from |-> f, to |-> t]
    OBVIOUS
  <2>3. PICK h : h = [s EXCEPT !.from = t]
    OBVIOUS
  <2>4. h = [verb |-> "rename", from |-> t, to |-> t]
    BY <2>2, <2>3
  <2>5. [h EXCEPT !.to = f] = [verb |-> "rename", from |-> t, to |-> f]
    BY <2>4
  <2>6. [s EXCEPT !.from = t, !.to = f] = [h EXCEPT !.to = f]
    BY <2>3
  <2> QED
    BY <1>3, <2>1, <2>2, <2>5, <2>6
<1>5. f \in Path /\ t \in Path /\ sameParentDifferentLeaf(f, t)
  BY <1>1, <1>2 DEF IsRename
<1>6. sameParentDifferentLeaf(t, f)
  BY <1>5 DEF sameParentDifferentLeaf
<1>7. /\ Undoing(op).verb = "rename" /\ Undoing(op).from = t /\ Undoing(op).to = f
      /\ Undoing(op) = [verb |-> "rename", from |-> Undoing(op).from, to |-> Undoing(op).to]
  BY <1>4
<1>8. IsRename(Undoing(op))
  BY <1>5, <1>6, <1>7 DEF IsRename
<1>9. PlainRename(Undoing(op))
  BY <1>7, <1>8 DEF PlainRename
<1>10. Undoing(op).from = op.to /\ Undoing(op).to = op.from
  BY <1>2, <1>7
<1> QED
  BY <1>1, <1>8, <1>9, <1>10

\* The leaf of every parent is there, and what it is renamed to is not.
LEMMA RenamedParents ==
    ASSUME NEW b, NEW op, ~ RenameFails(b, op, {}), NEW q \in Parents(b, op.from)
    PROVE  ~ Absent(b, q, Leaf(op.from)) /\ Absent(b, q, Leaf(op.to))
<1>1. \A e : ~ coversByName({}, e)
  BY DEF coversByName
<1> QED
  BY <1>1 DEF RenameFails

\* The field of an object is a leaf when the object is a parent.
LEMMA FieldIsLeaf ==
    ASSUME NEW b, IsBody(b), NEW op, IsRename(op), NEW q \in Parents(b, op.from),
           At(q, Leaf(op.from)) \in DOMAIN b
    PROVE  /\ At(q, Leaf(op.from)) \in Leaves(b, op)
           /\ Relabel(At(q, Leaf(op.from)), Len(op.from), Leaf(op.to)) = At(q, Leaf(op.to))
<1> DEFINE n == Len(op.from)
           F == Leaf(op.from)
           T == Leaf(op.to)
           c == At(q, F)
           d == At(q, T)
<1>1. n \in Nat /\ n > 0 /\ F \in Names /\ T \in Names
  BY RenamePaths
<1>2. q \in Positions /\ Len(q) = n - 1
  BY DEF Parents, Met, IsBody
<1> HIDE DEF F, T, n
<1>3. /\ c \in Positions /\ Len(c) = Len(q) + 1 /\ (\A i \in 1..Len(q) : c[i] = q[i])
      /\ c[Len(q) + 1] = [name |-> F, idx |-> 0]
  BY <1>1, <1>2, AtFacts
<1>4. /\ d \in Positions /\ Len(d) = Len(q) + 1 /\ (\A i \in 1..Len(q) : d[i] = q[i])
      /\ d[Len(q) + 1] = [name |-> T, idx |-> 0]
  BY <1>1, <1>2, AtFacts
<1> HIDE DEF c, d
<1>5. Len(c) = n /\ Len(d) = n /\ n \in 1..Len(c) /\ n - 1 \in 0..Len(c) /\ Len(q) + 1 = n
  BY <1>1, <1>2, <1>3, <1>4
<1>6. Upto(c, n - 1) = q
  <2>1. /\ Upto(c, n - 1) \in Positions /\ Len(Upto(c, n - 1)) = n - 1
        /\ \A i \in 1..n - 1 : Upto(c, n - 1)[i] = c[i]
    BY <1>3, <1>5, UptoFacts
  <2> QED
    BY <1>2, <1>3, <2>1, SamePosition
<1>7. c \in Leaves(b, op)
  BY <1>1, <1>3, <1>5, <1>6 DEF Leaves, Moved, c, F, n
<1>8. /\ Relabel(c, n, T) \in Positions /\ Len(Relabel(c, n, T)) = n
      /\ \A i \in 1..n : i # n => Relabel(c, n, T)[i] = c[i]
      /\ Relabel(c, n, T)[n] = WithName(c[n], T)
  <2>1. c \in Positions /\ n \in 1..Len(c) /\ T \in Names /\ Len(c) = n
    BY <1>1, <1>3, <1>5
  <2> QED
    BY <2>1, RelabelFacts
<1>9. WithName(c[n], T) = d[n]
  BY <1>3, <1>4, <1>5 DEF WithName
<1>10. \A i \in 1..n : Relabel(c, n, T)[i] = d[i]
  <2> TAKE i \in 1..n
  <2>1. CASE i = n
    BY <1>8, <1>9, <2>1
  <2>2. CASE i # n
    <3>1. i \in 1..Len(q)
      BY <1>1, <1>2, <2>2
    <3> QED
      BY <1>3, <1>4, <1>8, <2>2, <3>1
  <2> QED
    BY <2>1, <2>2
<1>11. Relabel(c, n, T) = d
  BY <1>4, <1>5, <1>8, <1>10, SamePosition
<1> QED
  BY <1>7, <1>11 DEF c, d, F, T, n

\* The inverse of a rename that did not fail does not fail.
LEMMA UndoingFits ==
    ASSUME NEW b, IsBody(b), IsTree(b), NEW op, PlainRename(op), ~ RenameFails(b, op, {})
    PROVE  /\ ~ RenameFails(Rename(b, op), Undoing(op), {})
           /\ Parents(Rename(b, op), Undoing(op).from) = Parents(b, op.from)
<1> DEFINE r == Rename(b, op)
           v == Undoing(op)
           n == Len(op.from)
<1>1. IsRename(op) /\ IsRename(v) /\ v.from = op.to /\ v.to = op.from
  BY UndoingFacts
<1>2. IsBody(r)
  BY <1>1, RenameKeepsBody
<1>3. /\ op.from \in Path /\ op.to \in Path /\ Len(op.to) = Len(op.from)
      /\ \A i \in 1..Len(op.from) - 1 : op.to[i] = op.from[i]
  BY <1>1, RenamePaths DEF IsRename
<1>4. AgreeAbove(b, r, n)
  BY <1>1, RenameAgrees
<1> HIDE DEF r, v
<1>5. /\ Parents(r, op.to) = Parents(b, op.from)
      /\ walkLeavesFails(r, op.to, {}) <=> walkLeavesFails(b, op.from, {})
  BY <1>2, <1>3, <1>4, WalkSame
<1>6. ~ walkLeavesFails(r, v.from, {})
  BY <1>1, <1>5 DEF RenameFails
<1>7. ASSUME NEW q \in Parents(r, v.from)
      PROVE  ~ Absent(r, q, Leaf(v.from)) /\ Absent(r, q, Leaf(v.to))
  <2>1. q \in Parents(b, op.from)
    BY <1>1, <1>5, <1>7
  <2>2. At(q, Leaf(op.from)) \in DOMAIN b
    BY <2>1, RenamedParents DEF Absent
  <2>3. PICK c : c = At(q, Leaf(op.from))
    OBVIOUS
  <2>4. c \in Leaves(b, op) /\ Relabel(c, n, Leaf(op.to)) = At(q, Leaf(op.to))
    BY <1>1, <2>1, <2>2, <2>3, FieldIsLeaf
  <2>5. At(q, Leaf(op.to)) \in DOMAIN r
    BY <1>1, <2>4, LandedNode DEF r
  <2>6. c \notin DOMAIN r
    <3>1. c \notin Staying(b, op)
      BY <2>4 DEF Staying
    <3>2. c[n].name = Leaf(op.from) /\ Leaf(op.from) # Leaf(op.to)
      BY <1>1, <2>4, MovedFacts, RenamePaths
    <3>3. c \notin Landing(b, op)
      <4> SUFFICES ASSUME c \in Landing(b, op) PROVE FALSE
        OBVIOUS
      <4>1. c[n].name = Leaf(op.to)
        BY <1>1, LandedFacts
      <4> QED
        BY <3>2, <4>1
    <3> QED
      BY <3>1, <3>3, RenameAt DEF r
  <2> QED
    BY <1>1, <2>3, <2>5, <2>6 DEF Absent
<1>8. ~ RenameFails(r, v, {})
  BY <1>6, <1>7 DEF RenameFails
<1> QED
  BY <1>1, <1>5, <1>8 DEF r, v

\* transform.go:86-149, walk.go: the inverse of a rename puts everything back, at any
\* depth, in every element of the arrays on the way, with all that hangs on the leaf.
THEOREM UndoingRestores ==
    ASSUME NEW b, IsBody(b), IsTree(b), NEW op, PlainRename(op), ~ RenameFails(b, op, {})
    PROVE  Rename(Rename(b, op), Undoing(op)) = b
<1> DEFINE r == Rename(b, op)
           v == Undoing(op)
           n == Len(op.from)
           F == Leaf(op.from)
           T == Leaf(op.to)
           w == Rename(r, v)
<1>1. IsRename(op) /\ IsRename(v) /\ v.from = op.to /\ v.to = op.from
  BY UndoingFacts
<1>2. IsBody(r)
  BY <1>1, RenameKeepsBody
<1>3. Parents(r, v.from) = Parents(b, op.from)
  BY UndoingFits
<1>4. /\ n \in Nat /\ n > 0 /\ Len(v.from) = n /\ Leaf(v.from) = T /\ Leaf(v.to) = F
      /\ F \in Names /\ T \in Names /\ F # T
  BY <1>1, RenamePaths
<1>5. \A q \in Landing(b, op) : q \in DOMAIN r /\ q \in Leaves(r, v)
  <2> TAKE q \in Landing(b, op)
  <2>1. PICK m \in Leaves(b, op) : q = Relabel(m, n, T)
    BY DEF Landing
  <2>2. /\ m \in Positions /\ n \in 1..Len(m) /\ Upto(m, n - 1) \in Parents(b, op.from)
    BY <1>1, MovedFacts
  <2>3. q \in Positions /\ Len(q) = Len(m) /\ q[n].name = T
    <3> HIDE DEF n, T
    <3> QED
      BY <1>4, <2>1, <2>2, RelabelFacts
  <2>4. n - 1 \in 0..Len(m) /\ n - 1 < n /\ Len(q) >= n
    BY <1>4, <2>2, <2>3, PositionFacts
  <2>5. Upto(q, n - 1) = Upto(m, n - 1)
    <3> HIDE DEF n, T
    <3>1. PICK k : k = n - 1
      OBVIOUS
    <3> QED
      BY <1>4, <2>1, <2>2, <2>4, <3>1, RelabelUpto
  <2>6. q \in DOMAIN r
    BY RenameAt
  <2> HIDE DEF r, v
  <2> QED
    BY <1>3, <1>4, <2>2, <2>3, <2>4, <2>5, <2>6 DEF Leaves, Moved
<1>6. \A q \in Staying(b, op) : q \in DOMAIN r /\ q \notin Leaves(r, v) /\ q \notin Landing(b, op)
  <2> TAKE q \in Staying(b, op)
  <2>1. q \in DOMAIN r /\ q \in DOMAIN b
    BY RenameAt DEF Staying
  <2>2. q \notin Leaves(r, v)
    <3> SUFFICES ASSUME q \in Leaves(r, v) PROVE FALSE
      OBVIOUS
    <3>1. n \in 1..Len(q) /\ Upto(q, n - 1) \in Parents(b, op.from) /\ q[n].name = T
      <4> HIDE DEF r, v
      <4> QED
        BY <1>1, <1>2, <1>3, <1>4, MovedFacts
    <3>2. ~ Absent(b, Upto(q, n - 1), T)
      BY <2>1, <3>1, LeafIsThere
    <3> QED
      BY <3>1, <3>2, RenamedParents
  <2>3. q \notin Landing(b, op)
    BY <1>1, <2>1, LandsFree DEF Landing
  <2> QED
    BY <2>1, <2>2, <2>3
<1>7. DOMAIN r = Staying(b, op) \cup Landing(b, op)
  BY RenameShape
<1>8. Leaves(r, v) = Landing(b, op)
  <2>1. Leaves(r, v) \subseteq DOMAIN r
    BY DEF Leaves
  <2> HIDE DEF r, v
  <2> QED
    BY <1>5, <1>6, <1>7, <2>1
<1>9. Staying(r, v) = Staying(b, op)
  <2> HIDE DEF r, v
  <2>1. Staying(r, v) = DOMAIN r \ Leaves(r, v)
    BY DEF Staying
  <2> QED
    BY <1>6, <1>7, <1>8, <2>1
<1>10. \A q : q \in Landing(r, v) <=> q \in Leaves(b, op)
  <2>1. ASSUME NEW m \in Leaves(b, op) PROVE Relabel(Relabel(m, n, T), n, F) = m
    <3>1. m \in Positions /\ n \in 1..Len(m) /\ m[n].name = F
      BY <1>1, MovedFacts
    <3> HIDE DEF n, T, F
    <3> QED
      BY <1>4, <3>1, RelabelBack
  <2>2. Landing(r, v) = {Relabel(q, n, F) : q \in Landing(b, op)}
    BY <1>4, <1>8 DEF Landing
  <2>3. Landing(b, op) = {Relabel(m, n, T) : m \in Leaves(b, op)}
    BY DEF Landing
  <2> HIDE DEF n, F, T, r, v
  <2> QED
    BY <2>1, <2>2, <2>3
<1>11. DOMAIN w = DOMAIN b
  <2>1. DOMAIN w = Staying(r, v) \cup Landing(r, v)
    BY RenameShape
  <2>2. DOMAIN b = Staying(b, op) \cup Leaves(b, op)
    BY DEF Staying, Leaves
  <2> HIDE DEF w, r, v
  <2> QED
    BY <1>9, <1>10, <2>1, <2>2
<1>12. \A q \in DOMAIN b : w[q] = b[q]
  <2> TAKE q \in DOMAIN b
  <2>1. CASE q \in Staying(b, op)
    <3>1. w[q] = r[q]
      BY <1>9, <2>1, RenameAt
    <3>2. r[q] = b[q]
      BY <2>1, RenameAt
    <3> QED
      BY <3>1, <3>2
  <2>2. CASE q \in Leaves(b, op)
    <3>1. q \in Landing(r, v) /\ q \notin Staying(r, v)
      BY <1>9, <1>10, <2>2 DEF Staying
    <3>2. w[q] = r[Relabel(q, n, T)]
      BY <1>4, <3>1, RenameAt
    <3>3. r[Relabel(q, n, T)] = b[q]
      BY <1>1, <2>2, LandedNode
    <3> QED
      BY <3>2, <3>3
  <2> QED
    BY <2>1, <2>2 DEF Staying
<1>13. w = [q \in DOMAIN w |-> w[q]] /\ b = [q \in DOMAIN b |-> b[q]]
  BY RenameShape DEF IsBody
<1> HIDE DEF w
<1>14. w = b
  BY <1>11, <1>12, <1>13
<1> QED
  BY <1>14 DEF w, r, v

-----------------------------------------------------------------------------
(* There and back *)

\* Every number is a float64, and the nearest one of itself.
Floats(b) ==
    \A q \in DOMAIN b : b[q].k \in NumberKinds =>
        b[q].k = "num" /\ b[q].v \in DOMAIN Float64 /\ Float64[b[q].v] = b[q].v

\* What a message is once it has been decoded.
Settled(b) == IsBody(b) /\ IsTree(b) /\ Floats(b)

LEMMA DecodedSettles ==
    ASSUME NEW b, IsJSON(b), IsObject(b)
    PROVE  Settled(Unmarshal(b))
<1> DEFINE u == Unmarshal(b)
<1>1. IsBody(u) /\ IsTree(u) /\ DOMAIN u = DOMAIN b
  BY UnmarshalFacts
<1>2. ASSUME NEW q \in DOMAIN u, u[q].k \in NumberKinds
      PROVE  u[q].k = "num" /\ u[q].v \in DOMAIN Float64 /\ Float64[u[q].v] = u[q].v
  <2>1. q \in DOMAIN b /\ (b[q].k \in NumberKinds => b[q].v \in DOMAIN Float64)
    BY <1>1, <1>2 DEF IsJSON, IsValue
  <2>2. u[q] = IF b[q].k \in NumberKinds THEN [k |-> "num", v |-> Float64[b[q].v]] ELSE b[q]
    BY <2>1 DEF Unmarshal
  <2> HIDE DEF u
  <2>3. b[q].k \in NumberKinds
    BY <1>2, <2>2
  <2>4. u[q] = [k |-> "num", v |-> Float64[b[q].v]]
    BY <2>2, <2>3
  <2>5. u[q].k = "num" /\ u[q].v = Float64[b[q].v]
    BY <2>4
  <2> QED
    BY <2>1, <2>3, <2>5, TextAssumption
<1>3. Floats(u)
  BY <1>2 DEF Floats
<1> QED
  BY <1>1, <1>3 DEF Settled

LEMMA SettledFacts ==
    ASSUME NEW b, Settled(b)
    PROVE  Unmarshal(b) = b /\ Encodable(b) /\ IsObject(b) /\ IsJSON(b)
<1>1. IsBody(b) /\ IsTree(b) /\ Floats(b)
  BY DEF Settled
<1>2. Encodable(b)
  BY <1>1, TextAssumption DEF Floats, Encodable, NonFinite, NumberKinds
<1>3. IsJSON(b) /\ IsObject(b)
  BY <1>1, <1>2, EncodableIsJSON DEF IsTree
<1>4. ASSUME NEW q \in DOMAIN b
      PROVE  (IF b[q].k \in NumberKinds THEN [k |-> "num", v |-> Float64[b[q].v]] ELSE b[q]) = b[q]
  <2>1. CASE b[q].k \notin NumberKinds
    BY <2>1
  <2>2. CASE b[q].k \in NumberKinds
    <3>1. b[q] \in [k : NodeKinds, v : Texts] /\ b[q].k = "num" /\ Float64[b[q].v] = b[q].v
      BY <1>1, <2>2 DEF IsBody, Floats, Nodes
    <3>2. [k |-> "num", v |-> Float64[b[q].v]] = b[q]
      BY <3>1
    <3> QED
      BY <2>2, <3>2
  <2> QED
    BY <2>1, <2>2
<1>5. b = [q \in DOMAIN b |-> b[q]]
  BY <1>1 DEF IsBody
<1>6. Unmarshal(b) = [q \in DOMAIN b |-> b[q]]
  BY <1>4 DEF Unmarshal
<1> QED
  BY <1>2, <1>3, <1>5, <1>6

LEMMA RenameSettles ==
    ASSUME NEW b, Settled(b), NEW op, IsRename(op), ~ RenameFails(b, op, {})
    PROVE  Settled(Rename(b, op))
<1> DEFINE r == Rename(b, op)
<1>1. IsBody(b) /\ IsTree(b) /\ Floats(b)
  BY DEF Settled
<1>2. IsBody(r) /\ IsTree(r)
  BY <1>1, RenameKeepsBody, RenameKeepsTree
<1>3. \A q \in DOMAIN r : \E p \in DOMAIN b : r[q] = b[p]
  BY <1>1, RenamedNodes
<1> HIDE DEF r
<1>4. Floats(r)
  BY <1>1, <1>3 DEF Floats
<1> QED
  BY <1>2, <1>4 DEF Settled, r

\* The list of the renames one way, and of those that undo them.
AreMirrored(there, back) ==
    /\ Len(there) = Len(back)
    /\ \A i \in DOMAIN there :
          /\ there[i].verb = "rename"
          /\ back[Len(back) + 1 - i] = Undoing(there[i])

LEMMA LinkMirrored ==
    ASSUME ChainInv, Serving, Mirrored, NEW k \in 1..Len(chain)
    PROVE  /\ AreMirrored(chain[k].request, chain[k].response)
           /\ IsStanzas(chain[k].request) /\ IsStanzas(chain[k].response)
<1>1. k \in DOMAIN chain
  BY DEF ChainInv, IsChain
<1> QED
  BY <1>1, LinkStanzas DEF Mirrored, AreMirrored

LEMMA MirroredStanza ==
    ASSUME NEW there, NEW back, IsStanzas(there), IsStanzas(back), AreMirrored(there, back)
    PROVE  /\ Len(there) \in Nat /\ Len(back) = Len(there)
           /\ \A i \in 1..Len(there) :
                 /\ PlainRename(there[i]) /\ PlainRename(Undoing(there[i]))
                 /\ back[Len(there) + 1 - i] = Undoing(there[i])
<1>1. /\ Len(there) \in Nat /\ DOMAIN there = 1..Len(there)
      /\ \A i \in 1..Len(there) : Stanza(there[i]) /\ IsStanza(there[i]) /\ there[i].verb = "rename"
  BY DEF IsStanzas, IsList, AreMirrored
<1>2. ASSUME NEW i \in 1..Len(there) PROVE PlainRename(there[i]) /\ PlainRename(Undoing(there[i]))
  <2>1. IsRename(there[i])
    BY <1>1, StanzaCases DEF IsRename
  <2>2. PlainRename(there[i])
    BY <1>1, <2>1 DEF PlainRename, IsStanza
  <2> QED
    BY <2>2, UndoingFacts
<1> QED
  BY <1>1, <1>2 DEF AreMirrored

\* What the body was, from the first decoding of message c to the point where i
\* stanzas of link l of chain ch have run: W[k][j] after j stanzas of link k.
Passed(l, i, k, j) == k < l \/ (k = l /\ j <= i)

Trail(c, ch, W, l, i) ==
    /\ W[1][0] = Unmarshal(c)
    /\ \A k \in 1..l : \A j \in 0..Len(ch[k].request) :
          Passed(l, i, k, j) => Settled(W[k][j])
    /\ \A k \in 1..l : \A j \in 1..Len(ch[k].request) :
          Passed(l, i, k, j) =>
              /\ ~ RenameFails(W[k][j - 1], ch[k].request[j], {})
              /\ W[k][j] = Rename(W[k][j - 1], ch[k].request[j])
    /\ \A k \in 1..l - 1 : W[k + 1][0] = W[k][Len(ch[k].request)]

\* The body is w, but for the decoding of a message that no stanza has touched.
Near(c, b, w) == b = w \/ (b = c /\ w = Unmarshal(c))

\* W with b in the place of W[k][j].
Extended(W, k, j, b) == [a \in Nat |-> [i \in Nat |-> IF a = k /\ i = j THEN b ELSE W[a][i]]]

LEMMA ExtendedAt ==
    ASSUME NEW W, NEW k \in Nat, NEW j \in Nat, NEW b
    PROVE  /\ Extended(W, k, j, b)[k][j] = b
           /\ \A a \in Nat : \A i \in Nat : ~ (a = k /\ i = j) => Extended(W, k, j, b)[a][i] = W[a][i]
  BY DEF Extended

\* A message is decoded.
LEMMA TrailBegins ==
    ASSUME NEW c, Settled(Unmarshal(c)), NEW ch
    PROVE  \E W : Trail(c, ch, W, 1, 0) /\ W[1][0] = Unmarshal(c)
<1> DEFINE W == [a \in Nat |-> [i \in Nat |-> Unmarshal(c)]]
<1>1. W[1][0] = Unmarshal(c)
  OBVIOUS
<1> HIDE DEF W
<1>2. \A k \in 1..1 : k = 1
  OBVIOUS
<1>3. \A k \in 1..1 : \A j \in 0..Len(ch[k].request) : Passed(1, 0, k, j) => Settled(W[k][j])
  <2> TAKE k \in 1..1
  <2> TAKE j \in 0..Len(ch[k].request)
  <2> HAVE Passed(1, 0, k, j)
  <2>1. k = 1 /\ j = 0
    BY <1>2 DEF Passed
  <2> QED
    BY <1>1, <2>1
<1>4. \A k \in 1..1 : \A j \in 1..Len(ch[k].request) : ~ Passed(1, 0, k, j)
  BY <1>2 DEF Passed
<1>5. 1..1 - 1 = {}
  OBVIOUS
<1>6. Trail(c, ch, W, 1, 0)
  BY <1>1, <1>3, <1>4, <1>5 DEF Trail
<1> QED
  BY <1>1, <1>6

\* One more stanza of link l.
LEMMA TrailGoesOn ==
    ASSUME NEW c, NEW ch, NEW W, NEW l \in Nat \ {0}, NEW i \in Nat,
           \A k \in 1..l : Len(ch[k].request) \in Nat, i < Len(ch[l].request),
           Trail(c, ch, W, l, i), ~ RenameFails(W[l][i], ch[l].request[i + 1], {}),
           IsRename(ch[l].request[i + 1])
    PROVE  \E V : Trail(c, ch, V, l, i + 1) /\ V[l][i + 1] = Rename(W[l][i], ch[l].request[i + 1])
<1> DEFINE b == Rename(W[l][i], ch[l].request[i + 1])
           V == Extended(W, l, i + 1, b)
<1>0. l \in 1..l /\ i + 1 \in Nat /\ l \in Nat /\ i \in 0..Len(ch[l].request) /\ 1 \in Nat /\ 0 \in Nat
  OBVIOUS
<1>1. V[l][i + 1] = b /\ \A a \in Nat : \A j \in Nat : ~ (a = l /\ j = i + 1) => V[a][j] = W[a][j]
  BY <1>0, ExtendedAt
<1>2. Settled(W[l][i])
  BY <1>0 DEF Trail, Passed
<1>3. Settled(b)
  BY <1>2, RenameSettles
<1> HIDE DEF V
<1>4. V[1][0] = Unmarshal(c)
  BY <1>0, <1>1 DEF Trail
<1>5. \A k \in 1..l : \A j \in 0..Len(ch[k].request) : Passed(l, i + 1, k, j) => Settled(V[k][j])
  <2> TAKE k \in 1..l
  <2> TAKE j \in 0..Len(ch[k].request)
  <2> HAVE Passed(l, i + 1, k, j)
  <2>0. k \in Nat /\ j \in Nat
    OBVIOUS
  <2>1. CASE k = l /\ j = i + 1
    BY <1>1, <1>3, <2>1
  <2>2. CASE ~ (k = l /\ j = i + 1)
    <3>1. Passed(l, i, k, j)
      BY <2>0, <2>2 DEF Passed
    <3>2. Settled(W[k][j])
      BY <3>1 DEF Trail
    <3> QED
      BY <1>1, <2>0, <2>2, <3>2
  <2> QED
    BY <2>1, <2>2
<1>6. \A k \in 1..l : \A j \in 1..Len(ch[k].request) :
          Passed(l, i + 1, k, j) =>
              /\ ~ RenameFails(V[k][j - 1], ch[k].request[j], {})
              /\ V[k][j] = Rename(V[k][j - 1], ch[k].request[j])
  <2> TAKE k \in 1..l
  <2> TAKE j \in 1..Len(ch[k].request)
  <2> HAVE Passed(l, i + 1, k, j)
  <2>0. k \in Nat /\ j \in Nat /\ j - 1 \in Nat
    OBVIOUS
  <2>1. CASE k = l /\ j = i + 1
    <3>1. V[k][j - 1] = W[l][i]
      BY <1>0, <1>1, <2>0, <2>1
    <3> QED
      BY <1>1, <2>1, <3>1
  <2>2. CASE ~ (k = l /\ j = i + 1)
    <3>1. Passed(l, i, k, j) /\ ~ (k = l /\ j - 1 = i + 1)
      BY <2>0, <2>2 DEF Passed
    <3>2. ~ RenameFails(W[k][j - 1], ch[k].request[j], {}) /\ W[k][j] = Rename(W[k][j - 1], ch[k].request[j])
      BY <3>1 DEF Trail
    <3>3. V[k][j] = W[k][j] /\ V[k][j - 1] = W[k][j - 1]
      BY <1>1, <2>0, <2>2, <3>1
    <3> QED
      BY <3>2, <3>3
  <2> QED
    BY <2>1, <2>2
<1>7. \A k \in 1..l - 1 : V[k + 1][0] = V[k][Len(ch[k].request)]
  <2> TAKE k \in 1..l - 1
  <2>1. k \in 1..l /\ k \in Nat /\ k + 1 \in Nat /\ Len(ch[k].request) \in Nat /\ k # l /\ 0 # i + 1
    OBVIOUS
  <2>2. W[k + 1][0] = W[k][Len(ch[k].request)]
    BY DEF Trail
  <2> QED
    BY <1>0, <1>1, <2>1, <2>2
<1>8. Trail(c, ch, V, l, i + 1)
  BY <1>4, <1>5, <1>6, <1>7 DEF Trail
<1> QED
  BY <1>1, <1>8

\* The next link begins with what the one before made.
LEMMA TrailNextLink ==
    ASSUME NEW c, NEW ch, NEW W, NEW l \in Nat \ {0}, NEW i,
           \A k \in 1..l + 1 : Len(ch[k].request) \in Nat, i = Len(ch[l].request),
           Trail(c, ch, W, l, i)
    PROVE  \E V : Trail(c, ch, V, l + 1, 0) /\ V[l + 1][0] = W[l][i]
<1> DEFINE b == W[l][i]
           m == l + 1
           V == Extended(W, m, 0, b)
<1>0. /\ l \in 1..l /\ m \in Nat /\ l \in Nat /\ i \in Nat /\ i \in 0..Len(ch[l].request)
      /\ 1 \in Nat /\ 0 \in Nat /\ m # 1 /\ l \in 1..l + 1
  OBVIOUS
<1>1. V[m][0] = b /\ \A a \in Nat : \A j \in Nat : ~ (a = m /\ j = 0) => V[a][j] = W[a][j]
  BY <1>0, ExtendedAt
<1>2. Settled(b)
  BY <1>0 DEF Trail, Passed
<1> HIDE DEF V
<1>4. V[1][0] = Unmarshal(c)
  BY <1>0, <1>1 DEF Trail
<1>5. \A k \in 1..m : \A j \in 0..Len(ch[k].request) : Passed(m, 0, k, j) => Settled(V[k][j])
  <2> TAKE k \in 1..m
  <2> TAKE j \in 0..Len(ch[k].request)
  <2> HAVE Passed(m, 0, k, j)
  <2>0. k \in Nat /\ j \in Nat /\ Len(ch[k].request) \in Nat
    OBVIOUS
  <2>1. CASE k = m
    <3>1. j = 0
      BY <2>0, <2>1 DEF Passed
    <3> QED
      BY <1>1, <1>2, <2>1, <3>1
  <2>2. CASE k # m
    <3>1. k \in 1..l /\ (k = l => j <= i) /\ (k = l \/ k < l)
      BY <2>0, <2>2
    <3>2. Settled(W[k][j])
      BY <3>1 DEF Trail, Passed
    <3> QED
      BY <1>1, <2>0, <2>2, <3>2
  <2> QED
    BY <2>1, <2>2
<1>6. \A k \in 1..m : \A j \in 1..Len(ch[k].request) :
          Passed(m, 0, k, j) =>
              /\ ~ RenameFails(V[k][j - 1], ch[k].request[j], {})
              /\ V[k][j] = Rename(V[k][j - 1], ch[k].request[j])
  <2> TAKE k \in 1..m
  <2> TAKE j \in 1..Len(ch[k].request)
  <2> HAVE Passed(m, 0, k, j)
  <2>0. k \in Nat /\ j \in Nat /\ j - 1 \in Nat /\ Len(ch[k].request) \in Nat
    OBVIOUS
  <2>1. k # m
    BY <2>0 DEF Passed
  <2>2. k \in 1..l /\ (k = l => j <= i) /\ (k = l \/ k < l)
    BY <2>0, <2>1
  <2>3. ~ RenameFails(W[k][j - 1], ch[k].request[j], {}) /\ W[k][j] = Rename(W[k][j - 1], ch[k].request[j])
    BY <2>2 DEF Trail, Passed
  <2>4. V[k][j] = W[k][j] /\ V[k][j - 1] = W[k][j - 1]
    BY <1>1, <2>0, <2>1
  <2> QED
    BY <2>3, <2>4
<1>7. \A k \in 1..m - 1 : V[k + 1][0] = V[k][Len(ch[k].request)]
  <2> TAKE k \in 1..m - 1
  <2>1. k \in 1..l + 1 /\ k \in Nat /\ k + 1 \in Nat /\ Len(ch[k].request) \in Nat /\ k # m
    OBVIOUS
  <2>2. V[k][Len(ch[k].request)] = W[k][Len(ch[k].request)]
    BY <1>0, <1>1, <2>1
  <2>3. CASE k = l
    BY <1>1, <2>2, <2>3
  <2>4. CASE k # l
    <3>1. k \in 1..l - 1 /\ k + 1 # m
      BY <2>1, <2>4
    <3>2. W[k + 1][0] = W[k][Len(ch[k].request)]
      BY <3>1 DEF Trail
    <3> QED
      BY <1>0, <1>1, <2>1, <2>2, <3>1, <3>2
  <2> QED
    BY <2>3, <2>4
<1>8. Trail(c, ch, V, m, 0)
  BY <1>4, <1>5, <1>6, <1>7 DEF Trail
<1> QED
  BY <1>1, <1>8

\* Where the body is, and what is applied to it.
PlaceInv ==
    /\ verdict = "idle" \/ leg.dir = "request" => ~ upstream.echo
    /\ verdict = "done" => next = Len(ops) + 1
    /\ verdict # "idle" =>
          /\ IsJSON(client) /\ (client # Nil => IsObject(client))
          /\ ops = IF leg.dir = "request" THEN chain[leg.link].request ELSE chain[leg.link].response
    /\ phase \in {"answered", "upstream_error"} =>
          leg.dir = "response" /\ leg.link = 1 /\ verdict = "done"
    /\ phase = "502" => verdict = "failed"

\* On the way to the upstream.
OnWay(W) ==
    /\ Trail(client, chain, W, leg.link, next - 1)
    /\ Near(client, body, W[leg.link][next - 1])
    /\ verdict = "running" => body = W[leg.link][next - 1]

ThereInv ==
    client # Nil /\ Mirrored /\ verdict \in {"running", "done"} /\ leg.dir = "request" =>
        opts = {} /\ \E W : OnWay(W)

\* On the way back, as many stanzas of the link are undone as have run.
OnReturn(W) ==
    /\ Trail(client, chain, W, Len(chain), Len(chain[Len(chain)].request))
    /\ Near(client, body, W[leg.link][Len(ops) - (next - 1)])
    /\ verdict = "running" => body = W[leg.link][Len(ops) - (next - 1)]

BackInv ==
    client # Nil /\ Mirrored /\ upstream.echo =>
        verdict \in {"running", "done"} /\ opts = {} /\ \E W : OnReturn(W)

\* Without a body nothing changes, and only links without stanzas let it pass.
NilInv ==
    client = Nil /\ verdict # "idle" =>
        /\ leg.dir = "request" =>
              /\ verdict # "running" /\ body = Nil
              /\ verdict = "done" => \A k \in 1..leg.link : chain[k].request = <<>>
              /\ verdict = "failed" => chain[leg.link].request # <<>>
        /\ leg.dir = "response" =>
              upstream.body = Nil /\ \A k \in 1..Len(chain) : chain[k].request = <<>>
        /\ Mirrored /\ upstream.echo => verdict = "done" /\ body = Nil

EInv == SInv /\ PlaceInv /\ ThereInv /\ BackInv /\ NilInv

\* What undoes no stanza has none.
LEMMA NothingMirrored ==
    ASSUME ChainInv, Serving, Mirrored, NEW k \in 1..Len(chain), chain[k].request = <<>>
    PROVE  chain[k].response = <<>>
<1>1. /\ AreMirrored(chain[k].request, chain[k].response)
      /\ IsStanzas(chain[k].response)
  BY LinkMirrored
<1>2. Len(chain[k].response) = 0
  BY <1>1 DEF AreMirrored
<1> QED
  BY <1>1, <1>2 DEF IsStanzas, IsList

LEMMA BeginNear ==
    ASSUME NEW list, IsStanzas(list), NEW c, IsObject(c), NEW b, NEW w, Settled(w), Near(c, b, w),
           Begin(list, b)
    PROVE  /\ ops' = list /\ next' = 1 /\ opts' = {}
           /\ Near(c, body', w)
           /\ verdict' \in {"running", "done"}
           /\ verdict' = "running" => body' = w
           /\ verdict' = "done" => Len(list) = 0
<1>1. ops' = list /\ next' = 1 /\ opts' = {}
  BY DEF Begin
<1>2. CASE list = <<>>
  <2>1. body' = b /\ verdict' = "done" /\ Len(list) = 0
    BY <1>2 DEF Begin
  <2> QED
    BY <1>1, <2>1
<1>3. CASE list # <<>>
  <2>1. Unmarshal(w) = w /\ IsObject(w)
    BY SettledFacts
  <2>2. Unmarshal(b) = w /\ IsObject(b)
    BY <2>1 DEF Near
  <2>3. body' = Unmarshal(b) /\ verdict' = "running"
    BY <1>3, <2>2 DEF Begin
  <2> QED
    BY <1>1, <2>2, <2>3 DEF Near
<1> QED
  BY <1>2, <1>3

LEMMA EInitHolds == Init => EInv
<1> SUFFICES ASSUME Init PROVE EInv
  OBVIOUS
<1>1. SInv
  BY SInitHolds
<1>2. verdict = "idle" /\ phase = "add" /\ upstream = [body |-> <<>>, echo |-> FALSE]
  BY DEF Init
<1>3. ~ upstream.echo
  BY <1>2
<1> QED
  BY <1>1, <1>2, <1>3 DEF EInv, PlaceInv, ThereInv, BackInv, NilInv

\* As long as nothing is applied there is nothing to say.
LEMMA PlaceIdle ==
    ASSUME EInv, verdict = "idle", UNCHANGED <<applyVars, leg, upstream>>,
           phase' \notin {"answered", "upstream_error", "502"}
    PROVE  PlaceInv' /\ ThereInv' /\ BackInv'
  BY DEF EInv, PlaceInv, ThereInv, BackInv, applyVars

LEMMA RequestPlace ==
    ASSUME EInv, NEW b \in JSONBodies \cup {Nil}, Request(b)
    PROVE  PlaceInv' /\ ThereInv' /\ BackInv'
<1>1. /\ phase = "serve" /\ phase' = phase /\ verdict = "idle" /\ chain' = chain
      /\ leg' = [dir |-> "request", link |-> 1] /\ client' = b /\ upstream' = upstream
      /\ Begin(chain[1].request, b) /\ (b # Nil => Emits(layers[1], RequestOf(layers[1]), b))
  BY DEF Request
<1>2. leg'.dir = "request" /\ leg'.link = 1
  BY <1>1
<1>3. IsJSON(b) /\ (b # Nil => IsObject(b))
  BY <1>1, NilFacts, ShimAssumption DEF Emits, Described, Fits
<1>4. ~ upstream.echo
  BY <1>1 DEF EInv, PlaceInv
<1>6. IsStanzas(chain[1].request)
  <2>1. ChainInv /\ Serving /\ 1 \in DOMAIN chain
    BY <1>1 DEF EInv, SInv, Serving, ChainInv, IsChain
  <2> QED
    BY <2>1, LinkStanzas
<1>7. /\ ops' = chain[1].request /\ next' = 1 /\ verdict' \in {"running", "done", "failed"}
      /\ verdict' = "done" => Len(chain[1].request) = 0
  BY <1>1 DEF Begin
<1>8. PlaceInv'
  BY <1>1, <1>2, <1>3, <1>4, <1>7 DEF PlaceInv
<1>9. ThereInv' /\ BackInv'
  <2>1. CASE b = Nil
    BY <1>1, <2>1 DEF ThereInv, BackInv
  <2>2. CASE b # Nil
    <3>1. IsObject(b) /\ Settled(Unmarshal(b)) /\ Near(b, b, Unmarshal(b))
      BY <1>3, <2>2, DecodedSettles DEF Near
    <3>2. /\ opts' = {} /\ Near(b, body', Unmarshal(b))
          /\ verdict' = "running" => body' = Unmarshal(b)
      BY <1>1, <1>6, <3>1, BeginNear
    <3>3. PICK W : Trail(b, chain, W, 1, 0) /\ W[1][0] = Unmarshal(b)
      BY <3>1, TrailBegins
    <3>4. next' - 1 = 0
      BY <1>7
    <3>5. OnWay(W)'
      BY <1>1, <1>2, <1>7, <3>2, <3>3, <3>4 DEF OnWay
    <3> QED
      BY <1>1, <1>2, <1>4, <3>2, <3>5 DEF ThereInv, BackInv
  <2> QED
    BY <2>1, <2>2
<1> QED
  BY <1>8, <1>9

\* A stanza on the way to the upstream.
LEMMA ApplyThere ==
    ASSUME EInv, Apply, UNCHANGED shimVars, verdict' = "running", Mirrored, leg.dir = "request",
           client # Nil
    PROVE  opts' = {} /\ \E W : OnWay(W)'
<1>1. /\ verdict = "running" /\ next <= Len(ops) /\ ops' = ops
      /\ ~ Fails(body, ops[next], opts) /\ body' = Applied(body, ops[next])
      /\ opts' = IF ops[next].verb = "optionalize" THEN opts \cup {ops[next].field} ELSE opts
      /\ next' = next + 1
  BY DEF Apply
<1>2. chain' = chain /\ leg' = leg /\ client' = client
  BY DEF shimVars
<1>3. /\ leg.link \in 1..Len(chain) /\ Len(chain) \in Nat /\ ChainInv /\ Serving
      /\ ops = chain[leg.link].request /\ next \in 1..Len(ops) + 1
  BY <1>1 DEF EInv, SInv, LegInv, ChainInv, IsChain, PlaceInv, TInv
<1>4. PICK l : l = leg.link
  OBVIOUS
<1>5. /\ l \in Nat \ {0} /\ l \in 1..Len(chain)
      /\ \A k \in 1..l : k \in 1..Len(chain)
  BY <1>3, <1>4
<1>6. \A k \in 1..l : Len(chain[k].request) \in Nat
  BY <1>3, <1>5 DEF ChainInv, IsChain, IsList
<1>7. /\ Len(ops) \in Nat /\ \A i \in 1..Len(ops) : PlainRename(ops[i])
  <2>1. /\ AreMirrored(chain[l].request, chain[l].response)
        /\ IsStanzas(chain[l].request) /\ IsStanzas(chain[l].response)
    BY <1>3, <1>5, LinkMirrored
  <2> QED
    BY <1>3, <1>4, <2>1, MirroredStanza
<1>8. opts = {} /\ \E W : OnWay(W)
  BY <1>1 DEF EInv, ThereInv
<1>9. PICK W : OnWay(W)
  BY <1>8
<1>10. PICK i : i = next - 1
  OBVIOUS
<1>11. i \in Nat /\ i < Len(ops) /\ next = i + 1 /\ next \in 1..Len(ops) /\ next' - 1 = i + 1
  BY <1>1, <1>3, <1>7, <1>10
<1>12. Trail(client, chain, W, l, i) /\ body = W[l][i]
  BY <1>1, <1>4, <1>9, <1>10 DEF OnWay
<1>13. PlainRename(ops[next]) /\ IsRename(ops[next]) /\ ops[next].verb = "rename"
  BY <1>7, <1>11 DEF PlainRename, IsRename
<1>14. ~ RenameFails(body, ops[next], {}) /\ body' = Rename(body, ops[next]) /\ opts' = {}
  BY <1>1, <1>8, <1>13 DEF Fails, Applied
<1>15. ops[next] = chain[l].request[i + 1] /\ i < Len(chain[l].request)
  BY <1>3, <1>4, <1>11
<1>16. PICK V : /\ Trail(client, chain, V, l, i + 1)
                /\ V[l][i + 1] = Rename(W[l][i], chain[l].request[i + 1])
  BY <1>5, <1>6, <1>11, <1>12, <1>13, <1>14, <1>15, TrailGoesOn
<1>17. body' = V[l][i + 1]
  BY <1>12, <1>14, <1>15, <1>16
<1>18. OnWay(V)'
  BY <1>2, <1>4, <1>11, <1>16, <1>17 DEF OnWay, Near
<1> QED
  BY <1>14, <1>18

\* A stanza on the way back undoes the last one that is not undone.
LEMMA ApplyBack ==
    ASSUME EInv, Apply, UNCHANGED shimVars, Mirrored, upstream.echo, client # Nil
    PROVE  verdict' = "running" /\ opts' = {} /\ \E W : OnReturn(W)'
<1>1. /\ verdict = "running" /\ next <= Len(ops) /\ ops' = ops
      /\ IF Fails(body, ops[next], opts) THEN verdict' = "failed"
         ELSE /\ body' = Applied(body, ops[next]) /\ verdict' = verdict /\ next' = next + 1
              /\ opts' = IF ops[next].verb = "optionalize" THEN opts \cup {ops[next].field} ELSE opts
  BY DEF Apply
<1>2. chain' = chain /\ leg' = leg /\ client' = client
  BY DEF shimVars
<1>3. /\ leg.link \in 1..Len(chain) /\ Len(chain) \in Nat /\ ChainInv /\ Serving
      /\ next \in 1..Len(ops) + 1 /\ leg \in [dir : {"request", "response"}, link : Nat]
  BY <1>1 DEF EInv, SInv, LegInv, ChainInv, IsChain, TInv
<1>4. leg.dir = "response" /\ ops = chain[leg.link].response
  BY <1>1, <1>3 DEF EInv, PlaceInv
<1>5. PICK l, m, there : l = leg.link /\ m = Len(chain) /\ there = chain[l].request
  OBVIOUS
<1>6. /\ Len(there) \in Nat /\ Len(ops) = Len(there)
      /\ \A j \in 1..Len(there) :
            /\ PlainRename(there[j]) /\ PlainRename(Undoing(there[j]))
            /\ ops[Len(there) + 1 - j] = Undoing(there[j])
  <2>1. /\ AreMirrored(chain[l].request, chain[l].response)
        /\ IsStanzas(chain[l].request) /\ IsStanzas(chain[l].response)
    BY <1>3, <1>5, LinkMirrored
  <2>2. AreMirrored(there, ops) /\ IsStanzas(there) /\ IsStanzas(ops)
    BY <1>4, <1>5, <2>1
  <2> QED
    BY <2>2, MirroredStanza
<1>7. PICK W : OnReturn(W)
  BY DEF EInv, BackInv
<1>8. opts = {}
  BY DEF EInv, BackInv
<1>9. PICK j : j = Len(ops) - (next - 1)
  OBVIOUS
<1>10. /\ j \in 1..Len(there) /\ Len(there) + 1 - j = next /\ j \in Nat /\ j - 1 \in 0..Len(there)
       /\ Len(ops) - (next + 1 - 1) = j - 1
  BY <1>1, <1>3, <1>6, <1>9
<1>11. /\ Trail(client, chain, W, m, Len(chain[m].request)) /\ body = W[l][j]
  BY <1>1, <1>5, <1>7, <1>9 DEF OnReturn
<1>12. /\ Passed(m, Len(chain[m].request), l, j) /\ Passed(m, Len(chain[m].request), l, j - 1)
       /\ l \in 1..m
  BY <1>3, <1>5, <1>6, <1>10 DEF Passed
<1>13. /\ Settled(W[l][j - 1])
       /\ ~ RenameFails(W[l][j - 1], there[j], {}) /\ W[l][j] = Rename(W[l][j - 1], there[j])
  BY <1>5, <1>10, <1>11, <1>12 DEF Trail
<1>14. PlainRename(there[j]) /\ PlainRename(Undoing(there[j])) /\ ops[next] = Undoing(there[j])
  BY <1>6, <1>10
<1>15. ~ RenameFails(body, ops[next], {}) /\ Rename(body, ops[next]) = W[l][j - 1]
  BY <1>11, <1>13, <1>14, UndoingFits, UndoingRestores DEF Settled
<1>16. ops[next].verb = "rename"
  BY <1>14 DEF PlainRename, IsRename
<1>17. /\ verdict' = "running" /\ body' = W[l][j - 1] /\ next' = next + 1 /\ opts' = {}
  BY <1>1, <1>8, <1>15, <1>16 DEF Fails, Applied
<1>18. Len(ops') - (next' - 1) = j - 1
  BY <1>1, <1>10, <1>17
<1>19. OnReturn(W)'
  BY <1>2, <1>5, <1>11, <1>17, <1>18 DEF OnReturn, Near
<1> QED
  BY <1>17, <1>19

LEMMA RunPlace ==
    ASSUME EInv, Run
    PROVE  PlaceInv' /\ ThereInv' /\ BackInv'
<1>1. /\ UNCHANGED shimVars /\ (Apply \/ Marshal) /\ phase = "serve" /\ phase' = phase
      /\ chain' = chain /\ leg' = leg /\ client' = client /\ upstream' = upstream
  BY DEF Run, shimVars
<1>2. verdict = "running" /\ ops' = ops /\ next \in 1..Len(ops) + 1 /\ Len(ops) \in Nat
  BY <1>1 DEF Apply, Marshal, EInv, SInv, TInv, IsStanzas, IsList
<1>3. Mirrored' <=> Mirrored
  BY <1>1 DEF Mirrored
<1>4. /\ leg.dir = "request" => ~ upstream.echo
      /\ IsJSON(client) /\ (client # Nil => IsObject(client))
      /\ ops = IF leg.dir = "request" THEN chain[leg.link].request ELSE chain[leg.link].response
  BY <1>2 DEF EInv, PlaceInv
<1>5. CASE Apply
  <2>1. verdict' \in {"running", "failed"}
    BY <1>5, ApplyStep DEF EInv, SInv
  <2>2. PlaceInv'
    BY <1>1, <1>2, <1>4, <2>1 DEF PlaceInv
  <2>3. ThereInv'
    BY <1>1, <1>3, <1>5, <2>1, ApplyThere DEF ThereInv
  <2>4. BackInv'
    BY <1>1, <1>3, <1>5, ApplyBack DEF BackInv
  <2> QED
    BY <2>2, <2>3, <2>4
<1>6. CASE Marshal
  <2>1. /\ next' = next /\ opts' = opts /\ body' = body
        /\ verdict' = IF Encodable(body) THEN "done" ELSE "failed"
        /\ next = Len(ops) + 1
    BY <1>2, <1>6 DEF Marshal
  <2>2. PlaceInv'
    BY <1>1, <1>2, <1>4, <2>1 DEF PlaceInv
  <2>3. ThereInv'
    <3>1. SUFFICES ASSUME client # Nil, Mirrored, leg.dir = "request", verdict' = "done"
                   PROVE  opts' = {} /\ \E W : OnWay(W)'
      BY <1>1, <1>3, <2>1 DEF ThereInv
    <3>2. opts = {} /\ \E W : OnWay(W)
      BY <1>2, <3>1 DEF EInv, ThereInv
    <3>3. PICK W : OnWay(W)
      BY <3>2
    <3>4. OnWay(W)'
      BY <1>1, <2>1, <3>1, <3>3 DEF OnWay
    <3> QED
      BY <2>1, <3>2, <3>4
  <2>4. BackInv'
    <3>1. SUFFICES ASSUME client # Nil, Mirrored, upstream.echo
                   PROVE  verdict' = "done" /\ opts' = {} /\ \E W : OnReturn(W)'
      BY <1>1, <1>3, <2>1 DEF BackInv
    <3>2. opts = {} /\ \E W : OnReturn(W)
      BY <3>1 DEF EInv, BackInv
    <3>3. PICK W : OnReturn(W)
      BY <3>2
    <3>4. Settled(body)
      <4>1. /\ leg.link \in 1..Len(chain) /\ Len(chain) \in Nat /\ ChainInv /\ Serving
        BY <1>2 DEF EInv, SInv, LegInv, ChainInv, IsChain
      <4>2. leg.dir = "response"
        BY <1>4, <3>1, <4>1 DEF EInv, SInv, LegInv
      <4>3. PICK l, m : l = leg.link /\ m = Len(chain)
        OBVIOUS
      <4>4. /\ AreMirrored(chain[l].request, chain[l].response)
            /\ IsStanzas(chain[l].request) /\ IsStanzas(chain[l].response)
        BY <3>1, <4>1, <4>3, LinkMirrored
      <4>5. Len(chain[l].request) \in Nat
        BY <4>4, MirroredStanza
      <4>6. 0 \in 0..Len(chain[l].request) /\ l \in 1..m /\ Len(ops) - (next - 1) = 0
        BY <1>2, <2>1, <4>1, <4>3, <4>5
      <4>7. Len(chain[m].request) \in Nat
        <5>1. m \in DOMAIN chain
          BY <4>1, <4>3 DEF ChainInv, IsChain
        <5> QED
          BY <4>1, <5>1 DEF ChainInv, IsChain, IsList
      <4>8. Passed(m, Len(chain[m].request), l, 0)
        BY <4>1, <4>3, <4>7 DEF Passed
      <4>9. Trail(client, chain, W, m, Len(chain[m].request)) /\ body = W[l][0]
        BY <1>2, <3>3, <4>3, <4>6 DEF OnReturn
      <4> QED
        BY <4>6, <4>8, <4>9 DEF Trail
    <3>5. verdict' = "done"
      BY <2>1, <3>4, SettledFacts
    <3>6. OnReturn(W)'
      BY <1>1, <1>2, <2>1, <3>3, <3>5 DEF OnReturn
    <3> QED
      BY <2>1, <3>2, <3>5, <3>6
  <2> QED
    BY <2>2, <2>3, <2>4
<1> QED
  BY <1>1, <1>5, <1>6

LEMMA NextLinkPlace ==
    ASSUME EInv, NextLink
    PROVE  PlaceInv' /\ ThereInv' /\ BackInv'
<1>1. /\ phase = "serve" /\ phase' = phase /\ verdict = "done"
      /\ leg.dir = "request" /\ leg.link < Len(chain)
      /\ leg' = [leg EXCEPT !.link = leg.link + 1]
      /\ Begin(chain[leg.link + 1].request, body)
      /\ chain' = chain /\ client' = client /\ upstream' = upstream
  BY DEF NextLink
<1>2. /\ leg \in [dir : {"request", "response"}, link : Nat] /\ leg.link \in 1..Len(chain)
      /\ Len(chain) \in Nat /\ ChainInv /\ Serving /\ IsJSON(body)
  BY <1>1 DEF EInv, SInv, LegInv, ChainInv, IsChain, TInv
<1>3. PICK l, i, m : l = leg.link /\ i = next - 1 /\ m = l + 1
  OBVIOUS
<1>4. l \in Nat \ {0} /\ l \in 1..Len(chain) /\ m \in 1..Len(chain) /\ m \in Nat /\ \A k \in 1..m : k \in 1..Len(chain)
  BY <1>1, <1>2, <1>3
<1>5. leg'.dir = "request" /\ leg'.link = m
  BY <1>1, <1>2, <1>3, <1>4
<1>6. /\ \A k \in 1..Len(chain) : IsStanzas(chain[k].request) /\ Len(chain[k].request) \in Nat
  BY <1>2 DEF ChainInv, IsChain, IsList
<1>7. /\ ~ upstream.echo /\ IsJSON(client) /\ (client # Nil => IsObject(client))
      /\ next = Len(ops) + 1 /\ ops = chain[l].request
  BY <1>1, <1>3 DEF EInv, PlaceInv
<1>8. i = Len(chain[l].request)
  BY <1>3, <1>4, <1>6, <1>7
<1>9. ops' = chain[m].request /\ next' = 1 /\ verdict' \in {"running", "done", "failed"}
      /\ (verdict' = "done" => Len(chain[m].request) = 0)
  <2>1. ops' = chain[m].request /\ next' = 1
    BY <1>1, <1>3 DEF Begin
  <2>2. verdict' \in {"running", "done", "failed"}
    BY <1>1, <1>3 DEF Begin
  <2>3. chain[m].request = <<>> => Len(chain[m].request) = 0
    OBVIOUS
  <2>4. verdict' = "done" => chain[m].request = <<>>
    BY <1>1, <1>3 DEF Begin
  <2> QED
    BY <2>1, <2>2, <2>3, <2>4
<1>10. PlaceInv'
  BY <1>1, <1>5, <1>7, <1>9 DEF PlaceInv
<1>11. ThereInv'
  <2>1. SUFFICES ASSUME client # Nil, Mirrored PROVE opts' = {} /\ \E W : OnWay(W)'
    BY <1>1 DEF ThereInv, Mirrored
  <2>2. \E W : OnWay(W)
    BY <1>1, <2>1 DEF EInv, ThereInv
  <2>3. PICK W : OnWay(W)
    BY <2>2
  <2>4. Trail(client, chain, W, l, i) /\ Near(client, body, W[l][i])
    BY <1>3, <2>3 DEF OnWay
  <2>5. PICK V : Trail(client, chain, V, m, 0) /\ V[m][0] = W[l][i]
    <3>1. \A k \in 1..l + 1 : Len(chain[k].request) \in Nat
      BY <1>3, <1>4, <1>6
    <3> QED
      BY <1>3, <1>4, <1>8, <2>4, <3>1, TrailNextLink
  <2>6. Settled(V[m][0]) /\ Near(client, body, V[m][0])
    <3>1. Settled(V[m][0])
      <4>1. 0 \in 0..Len(chain[m].request) /\ m \in 1..m
        BY <1>4, <1>6
      <4> QED
        BY <2>5, <4>1 DEF Trail, Passed
    <3> QED
      BY <2>4, <2>5, <3>1
  <2>7. /\ opts' = {} /\ Near(client, body', V[m][0])
        /\ verdict' = "running" => body' = V[m][0]
    <3>1. Begin(chain[m].request, body) /\ IsStanzas(chain[m].request)
      BY <1>1, <1>3, <1>4, <1>6
    <3> QED
      BY <1>7, <2>1, <2>6, <3>1, BeginNear
  <2>8. next' - 1 = 0
    BY <1>9
  <2>9. OnWay(V)'
    BY <1>1, <1>5, <2>5, <2>7, <2>8 DEF OnWay
  <2> QED
    BY <2>7, <2>9
<1>12. BackInv'
  BY <1>1, <1>7 DEF BackInv
<1> QED
  BY <1>10, <1>11, <1>12

\* The upstream replies; if it sends back what it got, the way back begins where
\* the way there ended.
LEMMA ReplyPlace ==
    ASSUME EInv, NEW b \in Replies \cup {body}, Reply(b)
    PROVE  PlaceInv' /\ ThereInv' /\ BackInv'
<1>1. /\ phase = "serve" /\ phase' = phase /\ verdict = "done"
      /\ leg = [dir |-> "request", link |-> Len(chain)]
      /\ upstream' = [body |-> body, echo |-> b = body]
      /\ leg' = [dir |-> "response", link |-> Len(chain)]
      /\ Begin(chain[Len(chain)].response, b)
      /\ chain' = chain /\ client' = client
  BY DEF Reply, Answers
<1>2. /\ leg.link \in 1..Len(chain) /\ Len(chain) \in Nat /\ ChainInv /\ Serving
  BY <1>1 DEF EInv, SInv, LegInv, ChainInv, IsChain
<1>3. PICK m, i : m = Len(chain) /\ i = next - 1
  OBVIOUS
<1>4. leg.dir = "request" /\ leg.link = m /\ leg'.dir = "response" /\ leg'.link = m
      /\ (upstream'.echo => b = body)
  BY <1>1, <1>3
<1>5. /\ m \in 1..Len(chain) /\ m \in Nat /\ m \in 1..m
      /\ IsStanzas(chain[m].request) /\ IsStanzas(chain[m].response)
      /\ Len(chain[m].request) \in Nat
  <2>1. m \in 1..Len(chain) /\ m \in Nat /\ m \in 1..m
    BY <1>2, <1>3, <1>4
  <2> QED
    BY <1>2, <2>1 DEF ChainInv, IsChain, IsList
<1>6. /\ IsJSON(client) /\ (client # Nil => IsObject(client)) /\ next = Len(ops) + 1 /\ ops = chain[m].request
  BY <1>1, <1>4 DEF EInv, PlaceInv
<1>7. i = Len(chain[m].request)
  BY <1>3, <1>5, <1>6
<1>8. Begin(chain[m].response, b)
  BY <1>1, <1>3
<1>9. ops' = chain[m].response /\ next' = 1 /\ verdict' \in {"running", "done", "failed"}
      /\ (verdict' = "done" => Len(chain[m].response) = 0)
  <2>1. ops' = chain[m].response /\ next' = 1
    BY <1>8 DEF Begin
  <2>2. verdict' \in {"running", "done", "failed"}
    BY <1>8 DEF Begin
  <2>3. chain[m].response = <<>> => Len(chain[m].response) = 0
    OBVIOUS
  <2>4. verdict' = "done" => chain[m].response = <<>>
    BY <1>8 DEF Begin
  <2> QED
    BY <2>1, <2>2, <2>3, <2>4
<1>10. PlaceInv'
  BY <1>1, <1>4, <1>6, <1>9 DEF PlaceInv
<1>11. ThereInv'
  BY <1>4 DEF ThereInv
<1>12. BackInv'
  <2>1. SUFFICES ASSUME client # Nil, Mirrored, b = body
                 PROVE  verdict' \in {"running", "done"} /\ opts' = {} /\ \E W : OnReturn(W)'
    BY <1>1, <1>4 DEF BackInv, Mirrored
  <2>2. \E W : OnWay(W)
    BY <1>1, <1>4, <2>1 DEF EInv, ThereInv
  <2>3. PICK W : OnWay(W)
    BY <2>2
  <2>4. Trail(client, chain, W, m, i) /\ Near(client, body, W[m][i])
    BY <1>3, <1>4, <2>3 DEF OnWay
  <2>5. Settled(W[m][i])
    <3>1. i \in 0..Len(chain[m].request) /\ Passed(m, i, m, i)
      BY <1>5, <1>7 DEF Passed
    <3> QED
      BY <1>5, <2>4, <3>1 DEF Trail
  <2>6. /\ opts' = {} /\ verdict' \in {"running", "done"} /\ Near(client, body', W[m][i])
        /\ verdict' = "running" => body' = W[m][i]
    BY <1>5, <1>6, <1>8, <2>1, <2>4, <2>5, BeginNear
  <2>7. Len(chain[m].response) = Len(chain[m].request)
    BY <1>2, <1>5, <2>1, LinkMirrored, MirroredStanza
  <2>8. Len(ops') - (next' - 1) = i
    BY <1>5, <1>7, <1>9, <2>7
  <2>9. OnReturn(W)'
    BY <1>1, <1>3, <1>4, <1>7, <2>4, <2>6, <2>8 DEF OnReturn
  <2> QED
    BY <2>6, <2>9
<1> QED
  BY <1>10, <1>11, <1>12

LEMMA PreviousLinkPlace ==
    ASSUME EInv, PreviousLink
    PROVE  PlaceInv' /\ ThereInv' /\ BackInv'
<1>1. /\ phase = "serve" /\ phase' = phase /\ verdict = "done"
      /\ leg.dir = "response" /\ leg.link > 1
      /\ leg' = [leg EXCEPT !.link = leg.link - 1]
      /\ Begin(chain[leg.link - 1].response, body)
      /\ chain' = chain /\ client' = client /\ upstream' = upstream
  BY DEF PreviousLink, Answers
<1>2. /\ leg \in [dir : {"request", "response"}, link : Nat] /\ leg.link \in 1..Len(chain)
      /\ Len(chain) \in Nat /\ ChainInv /\ Serving
  BY <1>1 DEF EInv, SInv, LegInv, ChainInv, IsChain
<1>3. PICK l, m, n : l = leg.link /\ m = l - 1 /\ n = Len(chain)
  OBVIOUS
<1>4. /\ l \in 1..n /\ m \in 1..n /\ m \in Nat /\ n \in Nat /\ m + 1 = l /\ m < n /\ m \in 1..n - 1
      /\ n \in 1..n
  BY <1>1, <1>2, <1>3
<1>5. leg'.dir = "response" /\ leg'.link = m
  BY <1>1, <1>2, <1>3, <1>4
<1>6. \A k \in 1..n : /\ IsStanzas(chain[k].request) /\ IsStanzas(chain[k].response)
                      /\ Len(chain[k].request) \in Nat
  BY <1>2, <1>3 DEF ChainInv, IsChain, IsList
<1>7. /\ IsJSON(client) /\ (client # Nil => IsObject(client)) /\ next = Len(ops) + 1
      /\ ops = chain[l].response
  BY <1>1, <1>3 DEF EInv, PlaceInv
<1>8. Begin(chain[m].response, body)
  BY <1>1, <1>3
<1>9. ops' = chain[m].response /\ next' = 1 /\ verdict' \in {"running", "done", "failed"}
      /\ (verdict' = "done" => Len(chain[m].response) = 0)
  <2>1. ops' = chain[m].response /\ next' = 1
    BY <1>8 DEF Begin
  <2>2. verdict' \in {"running", "done", "failed"}
    BY <1>8 DEF Begin
  <2>3. chain[m].response = <<>> => Len(chain[m].response) = 0
    OBVIOUS
  <2>4. verdict' = "done" => chain[m].response = <<>>
    BY <1>8 DEF Begin
  <2> QED
    BY <2>1, <2>2, <2>3, <2>4
<1>10. PlaceInv'
  BY <1>1, <1>5, <1>7, <1>9 DEF PlaceInv
<1>11. ThereInv'
  BY <1>5 DEF ThereInv
<1>12. BackInv'
  <2>1. SUFFICES ASSUME client # Nil, Mirrored, upstream.echo
                 PROVE  verdict' \in {"running", "done"} /\ opts' = {} /\ \E W : OnReturn(W)'
    BY <1>1 DEF BackInv, Mirrored
  <2>2. PICK W : OnReturn(W)
    BY <2>1 DEF EInv, BackInv
  <2>3. PICK i : i = Len(chain[m].request)
    OBVIOUS
  <2>4. Len(ops) \in Nat /\ Len(ops) - (next - 1) = 0
    BY <1>3, <1>4, <1>6, <1>7 DEF IsStanzas, IsList
  <2>5. Trail(client, chain, W, n, Len(chain[n].request)) /\ Near(client, body, W[l][0])
    BY <1>3, <2>2, <2>4 DEF OnReturn
  <2>6. W[l][0] = W[m][i]
    BY <1>4, <2>3, <2>5 DEF Trail
  <2>7. Settled(W[m][i])
    <3>1. i \in 0..Len(chain[m].request) /\ Passed(n, Len(chain[n].request), m, i)
      BY <1>4, <1>6, <2>3 DEF Passed
    <3> QED
      BY <1>4, <2>5, <3>1 DEF Trail
  <2>8. /\ opts' = {} /\ verdict' \in {"running", "done"} /\ Near(client, body', W[m][i])
        /\ verdict' = "running" => body' = W[m][i]
    BY <1>4, <1>6, <1>7, <1>8, <2>1, <2>5, <2>6, <2>7, BeginNear
  <2>9. Len(chain[m].response) = Len(chain[m].request)
    BY <1>2, <1>3, <1>4, <1>6, <2>1, LinkMirrored, MirroredStanza
  <2>10. Len(ops') - (next' - 1) = i
    BY <1>4, <1>6, <1>9, <2>3, <2>9
  <2>11. OnReturn(W)'
    BY <1>1, <1>3, <1>5, <2>5, <2>8, <2>10 DEF OnReturn
  <2> QED
    BY <2>8, <2>11
<1> QED
  BY <1>10, <1>11, <1>12

\* An outcome leaves the body where it is.
LEMMA OutcomeKept ==
    ASSUME EInv, UNCHANGED applyVars, UNCHANGED <<chain, leg, client, upstream>>
    PROVE  ThereInv' /\ BackInv'
<1>1. Mirrored' <=> Mirrored
  BY DEF Mirrored
<1>2. \A W : (OnWay(W)' <=> OnWay(W)) /\ (OnReturn(W)' <=> OnReturn(W))
  BY DEF OnWay, OnReturn, applyVars
<1>3. ThereInv'
  BY <1>1, <1>2 DEF EInv, ThereInv, applyVars
<1>4. BackInv'
  BY <1>1, <1>2 DEF EInv, BackInv, applyVars
<1> QED
  BY <1>3, <1>4

LEMMA OutcomePlace ==
    ASSUME EInv, Encode \/ TransformFailed
    PROVE  PlaceInv' /\ ThereInv' /\ BackInv'
<1>1. /\ phase = "serve" /\ UNCHANGED applyVars /\ UNCHANGED <<chain, leg, client, upstream>>
  BY DEF Encode, TransformFailed
<1>2. verdict' = verdict /\ ops' = ops /\ next' = next
  BY <1>1 DEF applyVars
<1>3. CASE Encode
  <2>1. verdict = "done" /\ leg = [dir |-> "response", link |-> 1] /\ phase' \in {"answered", "upstream_error"}
    BY <1>3 DEF Encode
  <2>2. leg.dir = "response" /\ leg.link = 1
    BY <2>1
  <2>3. PlaceInv'
    BY <1>1, <1>2, <2>1, <2>2 DEF EInv, PlaceInv
  <2> QED
    BY <1>1, <2>3, OutcomeKept
<1>4. CASE TransformFailed
  <2>1. verdict = "failed" /\ phase' \in {"422", "502"}
    BY <1>4 DEF TransformFailed
  <2>2. PlaceInv'
    BY <1>1, <1>2, <2>1 DEF EInv, PlaceInv
  <2> QED
    BY <1>1, <2>2, OutcomeKept
<1> QED
  BY <1>3, <1>4

LEMMA NilBegins ==
    ASSUME NEW list, Begin(list, Nil)
    PROVE  /\ body' = Nil /\ verdict' = IF list = <<>> THEN "done" ELSE "failed"
  BY NilFacts DEF Begin

\* A request without a body.
LEMMA NilStep ==
    ASSUME EInv, [Next]_vars
    PROVE  NilInv'
<1> SUFFICES ASSUME client' = Nil, verdict' # "idle"
             PROVE  /\ leg'.dir = "request" =>
                          /\ verdict' # "running" /\ body' = Nil
                          /\ verdict' = "done" => \A k \in 1..leg'.link : chain'[k].request = <<>>
                          /\ verdict' = "failed" => chain'[leg'.link].request # <<>>
                    /\ leg'.dir = "response" =>
                          /\ upstream'.body = Nil
                          /\ \A k \in 1..Len(chain') : chain'[k].request = <<>>
                    /\ Mirrored' /\ upstream'.echo => verdict' = "done" /\ body' = Nil
  BY DEF NilInv
<1>0. SInv /\ PlaceInv /\ NilInv
  BY DEF EInv
<1>1. CASE \/ Add \/ WriteLayer \/ WriteShim \/ Load
           \/ \E strict, corrected, optionA \in BOOLEAN : DraftShim(strict, corrected, optionA)
  <2>1. UNCHANGED applyVars /\ phase \in {"add", "shim"}
    BY <1>1 DEF Add, WriteLayer, WriteShim, Load, DraftShim
  <2>2. verdict = "idle"
    BY <1>0, <2>1 DEF SInv, ChainInv, Serving
  <2> QED
    BY <2>1, <2>2 DEF applyVars
<1>2. CASE \E b \in JSONBodies \cup {Nil} : Request(b)
  <2>1. /\ verdict = "idle" /\ client' = Nil /\ leg' = [dir |-> "request", link |-> 1]
        /\ Begin(chain[1].request, Nil) /\ chain' = chain /\ upstream' = upstream
    BY <1>2 DEF Request
  <2>2. leg'.dir = "request" /\ leg'.link = 1 /\ ~ upstream'.echo
    BY <1>0, <2>1 DEF PlaceInv
  <2>3. body' = Nil /\ verdict' = IF chain'[1].request = <<>> THEN "done" ELSE "failed"
    BY <2>1, NilBegins
  <2>4. \A k \in 1..leg'.link : k = 1
    BY <2>2
  <2> QED
    BY <2>2, <2>3, <2>4
<1>3. CASE UNCHANGED <<chain, leg, client, upstream>> /\ UNCHANGED applyVars
  <2>1. Mirrored' <=> Mirrored
    BY <1>3 DEF Mirrored
  <2> QED
    BY <1>0, <1>3, <2>1 DEF NilInv, applyVars
<1>4. CASE phase = "serve" /\ verdict \in {"running", "done"}
           /\ (Run \/ NextLink \/ PreviousLink \/ \E b \in Replies \cup {body} : Reply(b))
  <2>1. /\ leg \in [dir : {"request", "response"}, link : Nat] /\ leg.link \in 1..Len(chain)
        /\ Len(chain) \in Nat /\ DOMAIN chain = 1..Len(chain) /\ ChainInv /\ Serving
    BY <1>0, <1>4 DEF SInv, LegInv, ChainInv, IsChain, Serving
  <2>2. chain' = chain /\ client' = client /\ client = Nil
    BY <1>4 DEF Run, NextLink, PreviousLink, Reply, shimVars
  <2>3. Mirrored' <=> Mirrored
    BY <2>2 DEF Mirrored
  <2>4. /\ leg.dir = "request" =>
              /\ verdict = "done" /\ body = Nil
              /\ \A k \in 1..leg.link : chain[k].request = <<>>
        /\ leg.dir = "response" =>
              upstream.body = Nil /\ \A k \in 1..Len(chain) : chain[k].request = <<>>
        /\ Mirrored /\ upstream.echo => verdict = "done" /\ body = Nil
    BY <1>0, <1>4, <2>2 DEF NilInv
  <2>5. CASE Run
    <3>1. verdict = "running" /\ leg' = leg /\ upstream' = upstream
      BY <2>5 DEF Run, Apply, Marshal, shimVars
    <3> QED
      BY <2>1, <2>2, <2>3, <2>4, <3>1
  <2>6. CASE NextLink
    <3>1. /\ leg.dir = "request" /\ leg' = [leg EXCEPT !.link = leg.link + 1]
          /\ Begin(chain[leg.link + 1].request, body) /\ upstream' = upstream
      BY <2>6 DEF NextLink
    <3>2. leg'.dir = "request" /\ leg'.link = leg.link + 1
      BY <2>1, <3>1
    <3>3. body' = Nil /\ verdict' = IF chain[leg.link + 1].request = <<>> THEN "done" ELSE "failed"
      BY <2>4, <3>1, NilBegins
    <3>4. \A k \in 1..leg'.link : k \in 1..leg.link \/ k = leg.link + 1
      BY <2>1, <3>2
    <3>5. ~ upstream'.echo
      BY <1>0, <3>1 DEF PlaceInv
    <3>6. verdict' = "done" => \A k \in 1..leg'.link : chain'[k].request = <<>>
      <4>1. verdict' = "done" => chain[leg.link + 1].request = <<>>
        BY <3>3
      <4>2. \A k \in 1..leg.link : chain[k].request = <<>>
        BY <2>4, <3>1
      <4> QED
        BY <2>2, <3>4, <4>1, <4>2
    <3>7. verdict' # "running" /\ (verdict' = "failed" => chain'[leg'.link].request # <<>>)
      BY <2>2, <3>2, <3>3
    <3> QED
      BY <3>2, <3>3, <3>5, <3>6, <3>7
  <2>7. CASE PreviousLink
    <3>1. /\ leg.dir = "response" /\ leg.link > 1 /\ leg' = [leg EXCEPT !.link = leg.link - 1]
          /\ Begin(chain[leg.link - 1].response, body) /\ upstream' = upstream
      BY <2>7 DEF PreviousLink, Answers
    <3>2. leg'.dir = "response" /\ leg.link - 1 \in 1..Len(chain)
      BY <2>1, <3>1
    <3>3. ASSUME Mirrored, upstream.echo PROVE verdict' = "done" /\ body' = Nil
      <4>1. body = Nil /\ chain[leg.link - 1].response = <<>>
        BY <2>1, <2>4, <3>1, <3>2, <3>3, NothingMirrored
      <4> QED
        BY <3>1, <4>1, NilBegins
    <3> QED
      BY <2>2, <2>3, <2>4, <3>1, <3>2, <3>3
  <2>8. CASE \E b \in Replies \cup {body} : Reply(b)
    <3>1. PICK b : Reply(b)
      BY <2>8
    <3>2. /\ leg = [dir |-> "request", link |-> Len(chain)]
          /\ upstream' = [body |-> body, echo |-> b = body]
          /\ leg' = [dir |-> "response", link |-> Len(chain)]
          /\ Begin(chain[Len(chain)].response, b)
      BY <3>1 DEF Reply, Answers
    <3>3. /\ leg.dir = "request" /\ leg.link = Len(chain) /\ leg'.dir = "response"
          /\ upstream'.body = body /\ (upstream'.echo => b = body)
      BY <3>2
    <3>4. body = Nil /\ \A k \in 1..Len(chain) : chain[k].request = <<>>
      BY <2>4, <3>3
    <3>5. ASSUME Mirrored, upstream'.echo PROVE verdict' = "done" /\ body' = Nil
      <4>1. Begin(chain[Len(chain)].response, Nil) /\ Len(chain) \in 1..Len(chain)
        BY <2>1, <3>2, <3>3, <3>4, <3>5
      <4>2. chain[Len(chain)].response = <<>>
        BY <2>1, <3>4, <3>5, <4>1, NothingMirrored
      <4> QED
        BY <4>1, <4>2, NilBegins
    <3> QED
      BY <2>2, <2>3, <3>3, <3>4, <3>5
  <2> QED
    BY <1>4, <2>5, <2>6, <2>7, <2>8
<1> QED
  <2>1. CASE Run
    BY <1>4, <2>1 DEF Run, Apply, Marshal
  <2>2. CASE NextLink \/ PreviousLink \/ \E b \in Replies \cup {body} : Reply(b)
    BY <1>4, <2>2 DEF NextLink, PreviousLink, Reply
  <2>3. CASE Encode \/ TransformFailed \/ UNCHANGED vars
    BY <1>3, <2>3 DEF Encode, TransformFailed, vars, shimVars
  <2> QED
    BY <1>1, <1>2, <2>1, <2>2, <2>3 DEF Next

LEMMA EStepHolds == EInv /\ [Next]_vars => EInv'
<1> SUFFICES ASSUME EInv, [Next]_vars PROVE EInv'
  OBVIOUS
<1>0. SInv' /\ NilInv'
  BY SStepHolds, NilStep DEF EInv
<1>1. CASE Add \/ WriteLayer
  <2>1. /\ UNCHANGED <<applyVars, leg, upstream>> /\ phase = "add"
        /\ phase' \in {"add", "shim"}
    BY <1>1 DEF Add, WriteLayer, shimVars
  <2>2. verdict = "idle"
    BY <2>1 DEF EInv, SInv, ChainInv, Serving
  <2> QED
    BY <1>0, <2>1, <2>2, PlaceIdle DEF EInv
<1>2. CASE \/ \E strict, corrected, optionA \in BOOLEAN : DraftShim(strict, corrected, optionA)
           \/ WriteShim \/ Load
  <2>1. /\ UNCHANGED <<applyVars, leg, upstream>> /\ phase = "shim"
        /\ phase' \in {"shim", "serve", "refused"}
    BY <1>2 DEF DraftShim, WriteShim, Load
  <2>2. verdict = "idle"
    BY <2>1 DEF EInv, SInv, ChainInv, Serving
  <2> QED
    BY <1>0, <2>1, <2>2, PlaceIdle DEF EInv
<1>3. CASE \E b \in JSONBodies \cup {Nil} : Request(b)
  BY <1>0, <1>3, RequestPlace DEF EInv
<1>4. CASE Run
  BY <1>0, <1>4, RunPlace DEF EInv
<1>5. CASE NextLink
  BY <1>0, <1>5, NextLinkPlace DEF EInv
<1>6. CASE \E b \in Replies \cup {body} : Reply(b)
  BY <1>0, <1>6, ReplyPlace DEF EInv
<1>7. CASE PreviousLink
  BY <1>0, <1>7, PreviousLinkPlace DEF EInv
<1>8. CASE Encode \/ TransformFailed
  BY <1>0, <1>8, OutcomePlace DEF EInv
<1>9. CASE UNCHANGED vars
  <2>1. UNCHANGED applyVars /\ UNCHANGED <<chain, leg, client, upstream>> /\ phase' = phase
    BY <1>9 DEF vars, shimVars
  <2>2. PlaceInv'
    BY <2>1 DEF EInv, PlaceInv, applyVars
  <2> QED
    BY <1>0, <2>1, <2>2, OutcomeKept DEF EInv
<1> QED
  BY <1>1, <1>2, <1>3, <1>4, <1>5, <1>6, <1>7, <1>8, <1>9 DEF Next

LEMMA EchoInvariant == Spec => []EInv
  BY EInitHolds, EStepHolds, PTL DEF Spec

\* http.go:349-356, 504-510, transform.go:86-149: through a chain of any length,
\* with any renames that the responses undo in opposite order, and for any JSON
\* bodies, what the upstream sends back as it got it reaches the client as it
\* left, and the way back never fails.
THEOREM EchoRoundTripHolds == Spec => []EchoRoundTrip
<1>1. EInv => EchoRoundTrip
  <2> SUFFICES ASSUME EInv, Mirrored, upstream.echo
               PROVE  /\ phase # "502"
                      /\ phase \in {"answered", "upstream_error"} => body \in {client, Unmarshal(client)}
    BY DEF EchoRoundTrip
  <2>1. CASE client = Nil
    <3>1. verdict = "done" /\ body = Nil
      <4>1. verdict # "idle"
        BY DEF EInv, PlaceInv
      <4> QED
        BY <2>1, <4>1 DEF EInv, NilInv
    <3> QED
      BY <2>1, <3>1 DEF EInv, PlaceInv
  <2>2. CASE client # Nil
    <3>1. verdict \in {"running", "done"} /\ \E W : OnReturn(W)
      BY <2>2 DEF EInv, BackInv
    <3>2. phase # "502"
      BY <3>1 DEF EInv, PlaceInv
    <3>3. ASSUME phase \in {"answered", "upstream_error"}
          PROVE  body \in {client, Unmarshal(client)}
      <4>1. leg.link = 1 /\ verdict = "done" /\ next = Len(ops) + 1
        BY <3>3 DEF EInv, PlaceInv
      <4>2. Len(ops) \in Nat
        BY DEF EInv, SInv, TInv, IsStanzas, IsList
      <4>3. Len(ops) - (next - 1) = 0
        BY <4>1, <4>2
      <4>4. PICK W : OnReturn(W)
        BY <3>1
      <4>5. Near(client, body, W[1][0]) /\ W[1][0] = Unmarshal(client)
        BY <4>1, <4>3, <4>4 DEF OnReturn, Trail
      <4> QED
        BY <4>5 DEF Near
    <3> QED
      BY <3>2, <3>3
  <2> QED
    BY <2>1, <2>2
<1> QED
  BY <1>1, EchoInvariant, PTL

-----------------------------------------------------------------------------
(* The names of a draft *)

\* s lists the names of T, each of them once.
Lists(s, T) ==
    /\ s \in Seq(Ordered)
    /\ \A k \in 1..Len(s) : s[k] \in T
    /\ \A n \in T : \E k \in 1..Len(s) : s[k] = n
    /\ \A j, k \in 1..Len(s) : j # k => s[j] # s[k]

LEMMA ListsMore ==
    ASSUME NEW s, NEW T, Lists(s, T), NEW n \in Ordered, n \notin T
    PROVE  Lists(Append(s, n), T \cup {n})
<1> DEFINE a == Append(s, n)
<1>1. /\ s \in Seq(Ordered) /\ Len(s) \in Nat
      /\ \A k \in 1..Len(s) : s[k] \in T
      /\ \A m \in T : \E k \in 1..Len(s) : s[k] = m
      /\ \A j, k \in 1..Len(s) : j # k => s[j] # s[k]
  BY LenProperties DEF Lists
<1>2. /\ a \in Seq(Ordered) /\ Len(a) = Len(s) + 1
      /\ \A k \in 1..Len(s) : a[k] = s[k]
      /\ a[Len(s) + 1] = n
  BY <1>1, AppendProperties
<1> HIDE DEF a
<1>3. PICK l \in Nat : l = Len(s)
  BY <1>1
<1>4. Len(a) = l + 1 /\ a[l + 1] = n /\ \A k \in 1..l + 1 : k = l + 1 \/ (k \in 1..l /\ a[k] = s[k])
  BY <1>2, <1>3
<1>5. \A k \in 1..Len(a) : a[k] \in T \cup {n}
  BY <1>1, <1>3, <1>4
<1>6. \A m \in T \cup {n} : \E k \in 1..Len(a) : a[k] = m
  <2>1. \E k \in 1..Len(a) : a[k] = n
    BY <1>3, <1>4
  <2>2. ASSUME NEW m \in T PROVE \E k \in 1..Len(a) : a[k] = m
    <3>1. PICK k \in 1..l : s[k] = m
      BY <1>1, <1>3
    <3>2. k \in 1..Len(a) /\ a[k] = m
      BY <1>2, <1>3, <1>4, <3>1
    <3> QED
      BY <3>2
  <2> QED
    BY <2>1, <2>2
<1>7. \A j, k \in 1..Len(a) : j # k => a[j] # a[k]
  BY <1>1, <1>3, <1>4
<1> QED
  BY <1>2, <1>5, <1>6, <1>7 DEF Lists, a

\* The names of S that come first in the order.
Among(S, n) == {Order[j] : j \in 1..n} \cap S

\* Sorting lists the names of a set, each of them once.
LEMMA SortedLists ==
    ASSUME NEW S \in SUBSET Ordered
    PROVE  Lists(Sorted(S), S)
<1>1. /\ Len(Order) \in Nat /\ DOMAIN Order = 1..Len(Order)
      /\ \A i, j \in 1..Len(Order) : i # j => Order[i] # Order[j]
  BY OrderAssumption
<1> DEFINE at == CHOOSE g : SortedUpTo(S, g, Len(Order))
<1>2. SortedUpTo(S, at, Len(Order))
  BY <1>1, SortingExists
<1>3. Sorted(S) = at[Len(Order)]
  BY DEF Sorted, SortedUpTo, SortStep
<1> HIDE DEF at
<1>4. \A i \in 0..Len(Order) : at[i] = IF i = 0 THEN <<>> ELSE SortStep(S, at[i - 1], i)
  BY <1>2 DEF SortedUpTo
<1> DEFINE B == {i \in 0..Len(Order) : ~ Lists(at[i], Among(S, i))}
<1>5. B = {}
  <2> SUFFICES ASSUME B # {} PROVE FALSE
    OBVIOUS
  <2>1. PICK i \in B : \A j \in B : i <= j
    <3>1. B \in SUBSET Nat
      BY <1>1
    <3> HIDE DEF B
    <3> QED
      BY <3>1, LeastNumber
  <2>2. i \in 0..Len(Order) /\ ~ Lists(at[i], Among(S, i))
    OBVIOUS
  <2>3. i # 0
    <3> SUFFICES ASSUME i = 0 PROVE FALSE
      OBVIOUS
    <3>1. at[i] = <<>> /\ Among(S, i) = {}
      BY <1>4, <2>2 DEF Among
    <3>2. <<>> \in Seq(Ordered) /\ Len(<<>>) = 0 /\ 1..0 = {}
      BY EmptySeq
    <3>3. Lists(<<>>, {})
      BY <3>2 DEF Lists
    <3> QED
      BY <2>2, <3>1, <3>3
  <2>4. i - 1 \in 0..Len(Order) /\ i - 1 \notin B /\ i \in 1..Len(Order)
    BY <1>1, <2>1, <2>2, <2>3
  <2>5. Lists(at[i - 1], Among(S, i - 1))
    BY <2>4
  <2>6. at[i] = SortStep(S, at[i - 1], i) /\ Order[i] \in Ordered
    BY <1>1, <1>4, <2>2, <2>3, <2>4 DEF Ordered
  <2>7. 1..i = (1..i - 1) \cup {i}
    BY <1>1, <2>4
  <2>8. {Order[j] : j \in 1..i} = {Order[j] : j \in 1..i - 1} \cup {Order[i]}
    BY <2>7
  <2>9. CASE Order[i] \in S
    <3>1. Among(S, i) = Among(S, i - 1) \cup {Order[i]}
      BY <2>8, <2>9 DEF Among
    <3>2. Order[i] \notin Among(S, i - 1)
      <4>1. \A j \in 1..i - 1 : j \in 1..Len(Order) /\ j # i
        BY <1>1, <2>4
      <4> QED
        BY <1>1, <2>4, <4>1 DEF Among
    <3>3. at[i] = Append(at[i - 1], Order[i])
      BY <2>6, <2>9 DEF SortStep
    <3>4. PICK s, T, n : s = at[i - 1] /\ T = Among(S, i - 1) /\ n = Order[i]
      OBVIOUS
    <3>5. Lists(Append(s, n), T \cup {n})
      BY <2>5, <2>6, <3>2, <3>4, ListsMore
    <3> QED
      BY <2>2, <3>1, <3>3, <3>4, <3>5
  <2>10. CASE Order[i] \notin S
    <3>1. Among(S, i) = Among(S, i - 1)
      BY <2>8, <2>10 DEF Among
    <3>2. at[i] = at[i - 1]
      BY <2>6, <2>10 DEF SortStep
    <3> QED
      BY <2>2, <2>5, <3>1, <3>2
  <2> QED
    BY <2>9, <2>10
<1>6. Lists(at[Len(Order)], Among(S, Len(Order)))
  BY <1>1, <1>5
<1>7. Among(S, Len(Order)) = S
  BY <1>1 DEF Among, Ordered
<1> QED
  BY <1>3, <1>6, <1>7

\* A matching takes pairs of names that are alike, and a name once on either side.
Matching(P, alike) ==
    /\ P \subseteq alike
    /\ \A p \in P : p = <<p[1], p[2]>>
    /\ \A p, q \in P : p[1] = q[1] \/ p[2] = q[2] => p = q

\* What the next removed name adds to the pairs.
PairStep(rs, alike, P, i) ==
    IF Free(rs[i], alike, P) = {} THEN P ELSE P \cup {<<rs[i], First(Free(rs[i], alike, P))>>}

PairedUpTo(rs, alike, g, n) ==
    g = [i \in 0..n |-> IF i = 0 THEN {} ELSE PairStep(rs, alike, g[i - 1], i)]

LEMMA PairingExists ==
    ASSUME NEW rs, NEW alike
    PROVE  \A n \in Nat : \E g : PairedUpTo(rs, alike, g, n)
<1> DEFINE B == {n \in Nat : ~ \E g : PairedUpTo(rs, alike, g, n)}
<1> SUFFICES ASSUME B # {} PROVE FALSE
  OBVIOUS
<1>1. PICK n \in B : \A j \in B : n <= j
  <2>1. B \in SUBSET Nat
    OBVIOUS
  <2> HIDE DEF B
  <2> QED
    BY <2>1, LeastNumber
<1>2. n \in Nat /\ ~ \E g : PairedUpTo(rs, alike, g, n)
  OBVIOUS
<1>3. n # 0
  <2>1. PairedUpTo(rs, alike, [i \in 0..0 |-> {}], 0)
    BY DEF PairedUpTo
  <2> QED
    BY <1>2, <2>1
<1>4. n - 1 \in Nat /\ n - 1 \notin B
  BY <1>1, <1>2, <1>3
<1>5. PICK g : PairedUpTo(rs, alike, g, n - 1)
  BY <1>4
<1> DEFINE h == [i \in 0..n |-> IF i = n THEN PairStep(rs, alike, g[n - 1], n) ELSE g[i]]
<1>6. \A i \in 0..n - 1 : g[i] = IF i = 0 THEN {} ELSE PairStep(rs, alike, g[i - 1], i)
  BY <1>5 DEF PairedUpTo
<1>7. \A i \in 0..n : h[i] = IF i = 0 THEN {} ELSE PairStep(rs, alike, h[i - 1], i)
  <2> TAKE i \in 0..n
  <2>1. CASE i = n
    <3>1. h[n] = PairStep(rs, alike, g[n - 1], n) /\ h[n - 1] = g[n - 1]
      BY <1>2, <1>4
    <3> HIDE DEF h
    <3> QED
      BY <1>3, <2>1, <3>1
  <2>2. CASE i # n
    <3>1. i \in 0..n - 1 /\ h[i] = g[i] /\ (i # 0 => h[i - 1] = g[i - 1])
      BY <1>2, <2>2
    <3> HIDE DEF h
    <3> QED
      BY <1>6, <3>1
  <2> QED
    BY <2>1, <2>2
<1>8. h = [i \in 0..n |-> IF i = 0 THEN {} ELSE PairStep(rs, alike, h[i - 1], i)]
  <2>1. h = [i \in 0..n |-> h[i]]
    OBVIOUS
  <2> HIDE DEF h
  <2> QED
    BY <1>7, <2>1
<1> HIDE DEF h, B
<1> QED
  BY <1>2, <1>8 DEF PairedUpTo

\* Greedy as it is, drift.go's pairing is a matching.
LEMMA PairsMatch ==
    ASSUME NEW removed \in SUBSET Ordered, NEW added \in SUBSET Ordered,
           NEW alike \in SUBSET (removed \X added)
    PROVE  Matching(Pairs(removed, alike), alike)
<1> DEFINE rs == Sorted(removed)
           at == CHOOSE g : PairedUpTo(rs, alike, g, Len(rs))
<1>1. Lists(rs, removed)
  BY SortedLists
<1> HIDE DEF rs
<1>2. Len(rs) \in Nat /\ \A j, k \in 1..Len(rs) : j # k => rs[j] # rs[k]
  BY <1>1, LenProperties DEF Lists
<1>3. PairedUpTo(rs, alike, at, Len(rs))
  BY <1>2, PairingExists
<1>4. Pairs(removed, alike) = at[Len(rs)]
  BY DEF Pairs, PairedUpTo, PairStep, rs
<1> HIDE DEF at
<1>5. \A i \in 0..Len(rs) : at[i] = IF i = 0 THEN {} ELSE PairStep(rs, alike, at[i - 1], i)
  BY <1>3 DEF PairedUpTo
<1> DEFINE Good(i) == Matching(at[i], alike) /\ \A p \in at[i] : \E j \in 1..i : p[1] = rs[j]
           B == {i \in 0..Len(rs) : ~ Good(i)}
<1>6. B = {}
  <2> SUFFICES ASSUME B # {} PROVE FALSE
    OBVIOUS
  <2>1. PICK i \in B : \A j \in B : i <= j
    <3>1. B \in SUBSET Nat
      BY <1>2
    <3> HIDE DEF B
    <3> QED
      BY <3>1, LeastNumber
  <2>2. i \in 0..Len(rs) /\ ~ Good(i)
    OBVIOUS
  <2>3. i # 0
    <3> SUFFICES ASSUME i = 0 PROVE FALSE
      OBVIOUS
    <3>1. at[i] = {}
      BY <1>5, <2>2
    <3> QED
      BY <2>2, <3>1 DEF Matching
  <2>4. i - 1 \in 0..Len(rs) /\ i - 1 \notin B /\ i \in 1..Len(rs)
    BY <1>2, <2>1, <2>2, <2>3
  <2>5. Good(i - 1)
    BY <2>4
  <2>6. at[i] = PairStep(rs, alike, at[i - 1], i)
    BY <1>5, <2>2, <2>3
  <2>7. PICK P, r : P = at[i - 1] /\ r = rs[i]
    OBVIOUS
  <2>8. /\ Matching(P, alike) /\ \A p \in P : \E j \in 1..i - 1 : p[1] = rs[j]
    BY <2>5, <2>7
  <2>9. \A p \in P : p[1] # r
    <3>1. \A j \in 1..i - 1 : rs[j] # rs[i]
      BY <1>2, <2>4
    <3> QED
      BY <2>7, <2>8, <3>1
  <2> DEFINE free == Free(r, alike, P)
  <2>10. CASE free = {}
    <3>1. at[i] = P
      BY <2>6, <2>7, <2>10 DEF PairStep
    <3>2. \A j \in 1..i - 1 : j \in 1..i
      BY <2>4
    <3> QED
      BY <2>2, <2>8, <3>1, <3>2
  <2>11. CASE free # {}
    <3>1. free \in SUBSET Ordered
      BY DEF Free
    <3>2. First(free) \in free
      BY <2>11, <3>1, FirstIsIn
    <3>3. PICK a : a = First(free)
      OBVIOUS
    <3>4. at[i] = P \cup {<<r, a>>}
      BY <2>6, <2>7, <2>11, <3>3 DEF PairStep
    <3>5. \E x \in alike : x[1] = r /\ x[2] = a
      BY <3>2, <3>3 DEF Free
    <3>6. a \notin {p[2] : p \in P}
      BY <3>2, <3>3 DEF Free
    <3>7. <<r, a>> \in alike
      BY <3>5
    <3>8. Matching(P \cup {<<r, a>>}, alike)
      BY <2>8, <2>9, <3>6, <3>7 DEF Matching
    <3>9. \A p \in at[i] : \E j \in 1..i : p[1] = rs[j]
      BY <2>4, <2>7, <2>8, <3>4
    <3> QED
      BY <2>2, <3>4, <3>8, <3>9
  <2> QED
    BY <2>10, <2>11
<1>7. Len(rs) \in 0..Len(rs) /\ Good(Len(rs))
  BY <1>2, <1>6
<1> QED
  BY <1>4, <1>7

LEMMA MatchFacts ==
    ASSUME NEW removed \in SUBSET Ordered, NEW added \in SUBSET Ordered, NEW from, NEW to
    PROVE  /\ Matching(matchCaseRenames(removed, added, from, to), SameType(removed, added, from, to))
           /\ Matching(matchAmbiguousPairs(removed, added, from, to), SameType(removed, added, from, to))
<1> DEFINE all  == SameType(removed, added, from, to)
           some == {p \in all : Normalized(p[1]) # "" /\ Normalized(p[1]) = Normalized(p[2])}
<1>1. all \in SUBSET (removed \X added)
  BY DEF SameType
<1>2. some \in SUBSET (removed \X added) /\ some \subseteq all
  BY <1>1
<1> HIDE DEF all, some
<1>3. Matching(Pairs(removed, all), all) /\ Matching(Pairs(removed, some), some)
  BY <1>1, <1>2, PairsMatch
<1>4. Matching(Pairs(removed, some), all)
  BY <1>2, <1>3 DEF Matching
<1> QED
  BY <1>3, <1>4 DEF matchCaseRenames, matchAmbiguousPairs, all, some

-----------------------------------------------------------------------------
(* The stanzas of a draft *)

\* The field a stanza takes, and the one it leaves.
ReadBy(s) == IF s.verb = "rename" THEN Leaf(s.from) ELSE Leaf(s.field)

WrittenBy(s) == IF s.verb = "rename" THEN Leaf(s.to) ELSE Leaf(s.field)

\* The fields that keep their name and change their primitive type.
Retyped(from, to) ==
    {n \in DOMAIN from \cap DOMAIN to :
        /\ primitiveType(from[n]) # "" /\ primitiveType(to[n]) # ""
        /\ primitiveType(from[n]) # primitiveType(to[n])}

IsRenameOf(s, r, a, from, to) ==
    /\ r \in DOMAIN from \ DOMAIN to /\ a \in DOMAIN to \ DOMAIN from
    /\ primitiveType(from[r]) # "" /\ primitiveType(from[r]) = primitiveType(to[a])
    /\ s = RenameStanza(r, a)

IsDefaultOf(s, a, from, to) ==
    a \in DOMAIN to \ DOMAIN from /\ s = DefaultStanza(a, zeroForSchema(to[a]))

IsCoerceOf(s, n, from, to) ==
    n \in Retyped(from, to) /\ s = CoerceStanza(n, primitiveType(to[n]))

\* A stanza that has its reason in the two shapes.
Reasoned(s, from, to) ==
    \/ \E r, a : IsRenameOf(s, r, a, from, to)
    \/ \E a : IsDefaultOf(s, a, from, to)
    \/ \E n : IsCoerceOf(s, n, from, to)

LEMMA StanzaNames ==
    /\ \A r, a : LET s == RenameStanza(r, a)
                 IN  s.verb = "rename" /\ s.from = Bare(r) /\ s.to = Bare(a) /\ ReadBy(s) = r /\ WrittenBy(s) = a
    /\ \A a, v : LET s == DefaultStanza(a, v)
                 IN  s.verb = "default" /\ s.field = Bare(a) /\ s.value = v /\ ReadBy(s) = a /\ WrittenBy(s) = a
    /\ \A n, t : LET s == CoerceStanza(n, t)
                 IN  s.verb = "coerce" /\ s.field = Bare(n) /\ s.to = t /\ ReadBy(s) = n /\ WrittenBy(s) = n
    /\ \A n, t : LET s == Corrected(CoerceStanza(n, t))
                 IN  /\ s.verb = "coerce" /\ s.field = Bare(n) /\ ReadBy(s) = n /\ WrittenBy(s) = n
                     /\ s.to = IF t = "string" THEN "string" ELSE IF t = "boolean" THEN "bool" ELSE "number"
<1>1. \A n : Leaf(Bare(n)) = n
  BY DEF Leaf, Bare
<1>2. ASSUME NEW r, NEW a
      PROVE  LET s == RenameStanza(r, a)
             IN  s.verb = "rename" /\ s.from = Bare(r) /\ s.to = Bare(a) /\ ReadBy(s) = r /\ WrittenBy(s) = a
  BY <1>1 DEF RenameStanza, ReadBy, WrittenBy
<1>3. ASSUME NEW a, NEW v
      PROVE  LET s == DefaultStanza(a, v)
             IN  s.verb = "default" /\ s.field = Bare(a) /\ s.value = v /\ ReadBy(s) = a /\ WrittenBy(s) = a
  BY <1>1 DEF DefaultStanza, ReadBy, WrittenBy
<1>4. ASSUME NEW n, NEW t
      PROVE  LET s == CoerceStanza(n, t)
             IN  s.verb = "coerce" /\ s.field = Bare(n) /\ s.to = t /\ ReadBy(s) = n /\ WrittenBy(s) = n
  BY <1>1 DEF CoerceStanza, ReadBy, WrittenBy
<1>5. ASSUME NEW n, NEW t
      PROVE  LET s == Corrected(CoerceStanza(n, t))
             IN  /\ s.verb = "coerce" /\ s.field = Bare(n) /\ ReadBy(s) = n /\ WrittenBy(s) = n
                 /\ s.to = IF t = "string" THEN "string" ELSE IF t = "boolean" THEN "bool" ELSE "number"
  BY <1>1 DEF CoerceStanza, Corrected, ReadBy, WrittenBy
<1> QED
  BY <1>2, <1>3, <1>4, <1>5

\* Stanzas with a reason each, that leave the fields of T, none of them twice.
Accounts(list, from, to, T) ==
    /\ IsSeq(list)
    /\ \A i \in 1..Len(list) : Reasoned(list[i], from, to) /\ WrittenBy(list[i]) \in T
    /\ \A i, j \in 1..Len(list) : i # j => WrittenBy(list[i]) # WrittenBy(list[j])

Occurs(s, list) == \E i \in 1..Len(list) : list[i] = s

LEMMA ConcatAt ==
    ASSUME NEW s, IsSeq(s), NEW t, IsSeq(t)
    PROVE  /\ IsSeq(s \o t) /\ Len(s \o t) = Len(s) + Len(t)
           /\ \A i \in 1..Len(s) : (s \o t)[i] = s[i]
           /\ \A i \in 1..Len(t) : (s \o t)[Len(s) + i] = t[i]
           /\ \A i \in 1..Len(s) + Len(t) : i \in 1..Len(s) \/ (i - Len(s) \in 1..Len(t) /\ (s \o t)[i] = t[i - Len(s)])
<1> DEFINE R == {s[i] : i \in 1..Len(s)} \cup {t[i] : i \in 1..Len(t)}
           c == s \o t
<1>1. s \in Seq(R) /\ t \in Seq(R)
  <2>1. s \in [1..Len(s) -> R] /\ t \in [1..Len(t) -> R]
    BY DEF IsSeq, Listed
  <2> HIDE DEF R
  <2> QED
    BY <2>1, SeqDef DEF IsSeq, Listed
<1> HIDE DEF R
<1>2. /\ Len(c) = Len(s) + Len(t)
      /\ \A i \in 1..Len(s) + Len(t) : c[i] = IF i <= Len(s) THEN s[i] ELSE t[i - Len(s)]
  BY <1>1, ConcatProperties
<1>3. IsSeq(c)
  BY ConcatLists
<1> HIDE DEF c
<1>4. Len(s) \in Nat /\ Len(t) \in Nat
  BY DEF IsSeq
<1>5. \A i \in 1..Len(s) : c[i] = s[i]
  BY <1>2, <1>4
<1>6. \A i \in 1..Len(t) : c[Len(s) + i] = t[i]
  <2> TAKE i \in 1..Len(t)
  <2>1. Len(s) + i \in 1..Len(s) + Len(t) /\ ~ (Len(s) + i <= Len(s)) /\ Len(s) + i - Len(s) = i
    BY <1>4
  <2> QED
    BY <1>2, <2>1
<1>7. \A i \in 1..Len(s) + Len(t) : i \in 1..Len(s) \/ (i - Len(s) \in 1..Len(t) /\ c[i] = t[i - Len(s)])
  BY <1>2, <1>4
<1> QED
  BY <1>2, <1>3, <1>5, <1>6, <1>7 DEF c

LEMMA AccountsJoin ==
    ASSUME NEW s, NEW t, NEW from, NEW to, NEW S, NEW T,
           Accounts(s, from, to, S), Accounts(t, from, to, T), S \cap T = {}
    PROVE  /\ Accounts(s \o t, from, to, S \cup T)
           /\ \A x : Occurs(x, s) \/ Occurs(x, t) => Occurs(x, s \o t)
<1> DEFINE c == s \o t
<1>1. IsSeq(s) /\ IsSeq(t) /\ Len(s) \in Nat /\ Len(t) \in Nat
  BY DEF Accounts, IsSeq
<1>2. /\ IsSeq(c) /\ Len(c) = Len(s) + Len(t)
      /\ \A i \in 1..Len(s) : c[i] = s[i]
      /\ \A i \in 1..Len(t) : c[Len(s) + i] = t[i]
      /\ \A i \in 1..Len(s) + Len(t) : i \in 1..Len(s) \/ (i - Len(s) \in 1..Len(t) /\ c[i] = t[i - Len(s)])
  BY <1>1, ConcatAt
<1> HIDE DEF c
<1>3. \A i \in 1..Len(c) : Reasoned(c[i], from, to) /\ WrittenBy(c[i]) \in S \cup T
  BY <1>2 DEF Accounts
<1>4. ASSUME NEW i \in 1..Len(c), NEW j \in 1..Len(c), i # j
      PROVE  WrittenBy(c[i]) # WrittenBy(c[j])
  <2>1. CASE i \in 1..Len(s) /\ j \in 1..Len(s)
    BY <1>2, <1>4, <2>1 DEF Accounts
  <2>2. CASE i \notin 1..Len(s) /\ j \notin 1..Len(s)
    <3>1. /\ i - Len(s) \in 1..Len(t) /\ c[i] = t[i - Len(s)]
          /\ j - Len(s) \in 1..Len(t) /\ c[j] = t[j - Len(s)]
      BY <1>2, <2>2
    <3>2. i - Len(s) # j - Len(s)
      BY <1>1, <1>2, <1>4
    <3> QED
      BY <3>1, <3>2 DEF Accounts
  <2>3. CASE i \in 1..Len(s) /\ j \notin 1..Len(s)
    <3>1. WrittenBy(c[i]) \in S /\ WrittenBy(c[j]) \in T
      BY <1>2, <2>3 DEF Accounts
    <3> QED
      BY <3>1
  <2>4. CASE i \notin 1..Len(s) /\ j \in 1..Len(s)
    <3>1. WrittenBy(c[i]) \in T /\ WrittenBy(c[j]) \in S
      BY <1>2, <2>4 DEF Accounts
    <3> QED
      BY <3>1
  <2> QED
    BY <2>1, <2>2, <2>3, <2>4
<1>5. ASSUME NEW x, Occurs(x, s) \/ Occurs(x, t) PROVE Occurs(x, c)
  <2>1. CASE Occurs(x, s)
    <3>1. PICK i \in 1..Len(s) : s[i] = x
      BY <2>1 DEF Occurs
    <3>2. i \in 1..Len(c) /\ c[i] = x
      BY <1>1, <1>2, <3>1
    <3> QED
      BY <3>2 DEF Occurs
  <2>2. CASE Occurs(x, t)
    <3>1. PICK i \in 1..Len(t) : t[i] = x
      BY <2>2 DEF Occurs
    <3>2. Len(s) + i \in 1..Len(c) /\ c[Len(s) + i] = x
      BY <1>1, <1>2, <3>1
    <3> QED
      BY <3>2 DEF Occurs
  <2> QED
    BY <1>5, <2>1, <2>2
<1> QED
  BY <1>2, <1>3, <1>4, <1>5 DEF Accounts, c

\* A list with a stanza for each name of a set.
LEMMA StanzasListed ==
    ASSUME NEW S \in SUBSET Ordered, NEW f, f = [i \in DOMAIN Sorted(S) |-> f[i]]
    PROVE  /\ Lists(Sorted(S), S) /\ DOMAIN Sorted(S) = 1..Len(Sorted(S))
           /\ IsSeq(f) /\ Len(f) = Len(Sorted(S))
<1> DEFINE ns == Sorted(S)
<1>1. Lists(ns, S) /\ IsSeq(ns)
  BY SortedLists, SortedIsSeq
<1> HIDE DEF ns
<1>2. Len(ns) \in Nat /\ DOMAIN ns = 1..Len(ns)
  BY <1>1 DEF IsSeq
<1>3. Listed(f, Len(ns))
  BY <1>2 DEF Listed, ns
<1>4. IsSeq(f) /\ Len(f) = Len(ns)
  BY <1>2, <1>3, ListIsSeq
<1> QED
  BY <1>1, <1>2, <1>4 DEF ns

Lefts(pairs) == {p[1] : p \in pairs}

Rights(pairs) == {p[2] : p \in pairs}

LEMMA RenamesAccount ==
    ASSUME NEW from, NEW to, DOMAIN from \subseteq Ordered,
           NEW removed \in SUBSET (DOMAIN from \ DOMAIN to),
           NEW added \in SUBSET (DOMAIN to \ DOMAIN from),
           NEW pairs, Matching(pairs, SameType(removed, added, from, to))
    PROVE  /\ Accounts(RenameStanzas(pairs), from, to, Rights(pairs))
           /\ \A p \in pairs : Occurs(RenameStanza(p[1], p[2]), RenameStanzas(pairs))
           /\ Lefts(pairs) \subseteq removed /\ Rights(pairs) \subseteq added
<1> DEFINE S == Lefts(pairs)
           ns == Sorted(S)
           pairOf(n) == CHOOSE p \in pairs : p[1] = n
           f == RenameStanzas(pairs)
<1>1. \A p \in pairs :
          /\ p[1] \in removed /\ p[2] \in added
          /\ primitiveType(from[p[1]]) # "" /\ primitiveType(from[p[1]]) = primitiveType(to[p[2]])
  BY DEF Matching, SameType
<1>2. S \in SUBSET Ordered
  BY <1>1 DEF Lefts
<1>3. f = [i \in DOMAIN ns |-> RenameStanza(ns[i], pairOf(ns[i])[2])]
  BY DEF RenameStanzas, Lefts
<1> HIDE DEF f, S
<1>4. f = [i \in DOMAIN Sorted(S) |-> f[i]]
  BY <1>3
<1>5. Lists(ns, S) /\ DOMAIN ns = 1..Len(ns) /\ IsSeq(f) /\ Len(f) = Len(ns)
  BY <1>2, <1>4, StanzasListed
<1>6. \A n \in S : pairOf(n) \in pairs /\ pairOf(n)[1] = n
  BY DEF S, Lefts
<1>7. \A p \in pairs : pairOf(p[1]) = p
  <2> TAKE p \in pairs
  <2>1. p[1] \in S
    BY DEF S, Lefts
  <2>2. pairOf(p[1]) \in pairs /\ pairOf(p[1])[1] = p[1]
    BY <1>6, <2>1
  <2> HIDE DEF pairOf
  <2> QED
    BY <2>2 DEF Matching
<1> HIDE DEF ns, pairOf
<1>8. \A i \in 1..Len(ns) : ns[i] \in S /\ f[i] = RenameStanza(ns[i], pairOf(ns[i])[2])
  BY <1>3, <1>5 DEF Lists
<1>9. ASSUME NEW i \in 1..Len(f)
      PROVE  /\ Reasoned(f[i], from, to) /\ WrittenBy(f[i]) \in Rights(pairs)
             /\ WrittenBy(f[i]) = pairOf(ns[i])[2]
  <2>1. pairOf(ns[i]) \in pairs /\ pairOf(ns[i])[1] = ns[i] /\ f[i] = RenameStanza(ns[i], pairOf(ns[i])[2])
    BY <1>5, <1>6, <1>8
  <2>2. PICK r, a : r = ns[i] /\ a = pairOf(ns[i])[2]
    OBVIOUS
  <2>3. IsRenameOf(f[i], r, a, from, to)
    BY <1>1, <2>1, <2>2 DEF IsRenameOf
  <2>4. WrittenBy(f[i]) = a
    BY <2>1, <2>2, StanzaNames
  <2> QED
    BY <2>1, <2>2, <2>3, <2>4 DEF Reasoned, Rights
<1>10. ASSUME NEW i \in 1..Len(f), NEW j \in 1..Len(f), i # j
       PROVE  WrittenBy(f[i]) # WrittenBy(f[j])
  <2>1. ns[i] # ns[j]
    BY <1>5, <1>10 DEF Lists
  <2>2. pairOf(ns[i]) \in pairs /\ pairOf(ns[j]) \in pairs
        /\ pairOf(ns[i])[1] # pairOf(ns[j])[1]
    BY <1>5, <1>6, <1>8, <2>1
  <2>3. pairOf(ns[i])[2] # pairOf(ns[j])[2]
    BY <2>2 DEF Matching
  <2> QED
    BY <1>9, <2>3
<1>11. Accounts(f, from, to, Rights(pairs))
  BY <1>5, <1>9, <1>10 DEF Accounts
<1>12. ASSUME NEW p \in pairs PROVE Occurs(RenameStanza(p[1], p[2]), f)
  <2>1. p[1] \in S
    BY DEF S, Lefts
  <2>2. PICK i \in 1..Len(ns) : ns[i] = p[1]
    BY <1>5, <2>1 DEF Lists
  <2>3. f[i] = RenameStanza(p[1], p[2])
    BY <1>7, <1>8, <2>2
  <2> QED
    BY <1>5, <2>3 DEF Occurs
<1>13. Lefts(pairs) \subseteq removed /\ Rights(pairs) \subseteq added
  BY <1>1 DEF Lefts, Rights
<1> QED
  BY <1>11, <1>12, <1>13 DEF f

LEMMA DefaultsAccount ==
    ASSUME NEW from, NEW to, DOMAIN to \subseteq Ordered,
           NEW names \in SUBSET (DOMAIN to \ DOMAIN from)
    PROVE  /\ Accounts(DefaultStanzas(names, to), from, to, names)
           /\ \A a \in names :
                 Occurs(DefaultStanza(a, zeroForSchema(to[a])), DefaultStanzas(names, to))
<1> DEFINE ns == Sorted(names)
           f == DefaultStanzas(names, to)
<1>1. names \in SUBSET Ordered
  OBVIOUS
<1>2. f = [i \in DOMAIN ns |-> DefaultStanza(ns[i], zeroForSchema(to[ns[i]]))]
  BY DEF DefaultStanzas
<1> HIDE DEF f
<1>3. f = [i \in DOMAIN Sorted(names) |-> f[i]]
  BY <1>2
<1>4. Lists(ns, names) /\ DOMAIN ns = 1..Len(ns) /\ IsSeq(f) /\ Len(f) = Len(ns)
  BY <1>1, <1>3, StanzasListed
<1> HIDE DEF ns
<1>5. ASSUME NEW i \in 1..Len(f)
      PROVE  /\ Reasoned(f[i], from, to) /\ WrittenBy(f[i]) = ns[i] /\ ns[i] \in names
             /\ f[i] = DefaultStanza(ns[i], zeroForSchema(to[ns[i]]))
  <2>1. ns[i] \in names /\ f[i] = DefaultStanza(ns[i], zeroForSchema(to[ns[i]]))
    BY <1>2, <1>4 DEF Lists
  <2>2. PICK a : a = ns[i]
    OBVIOUS
  <2>3. IsDefaultOf(f[i], a, from, to)
    BY <2>1, <2>2 DEF IsDefaultOf
  <2>4. WrittenBy(f[i]) = ns[i]
    BY <2>1, StanzaNames
  <2> QED
    BY <2>1, <2>3, <2>4 DEF Reasoned
<1>6. \A i, j \in 1..Len(f) : i # j => WrittenBy(f[i]) # WrittenBy(f[j])
  BY <1>4, <1>5 DEF Lists
<1>7. Accounts(f, from, to, names)
  BY <1>4, <1>5, <1>6 DEF Accounts
<1>8. ASSUME NEW a \in names PROVE Occurs(DefaultStanza(a, zeroForSchema(to[a])), f)
  <2>1. PICK i \in 1..Len(ns) : ns[i] = a
    BY <1>4 DEF Lists
  <2> QED
    BY <1>4, <1>5, <2>1 DEF Occurs
<1> QED
  BY <1>7, <1>8 DEF f

LEMMA CoercesAccount ==
    ASSUME NEW from, NEW to, DOMAIN to \subseteq Ordered
    PROVE  /\ Accounts(CoerceStanzas(Retyped(from, to), to), from, to, Retyped(from, to))
           /\ \A n \in Retyped(from, to) :
                 Occurs(CoerceStanza(n, primitiveType(to[n])), CoerceStanzas(Retyped(from, to), to))
<1> DEFINE names == Retyped(from, to)
           ns == Sorted(names)
           f == CoerceStanzas(names, to)
<1>1. names \in SUBSET Ordered
  BY DEF Retyped
<1>2. f = [i \in DOMAIN ns |-> CoerceStanza(ns[i], primitiveType(to[ns[i]]))]
  BY DEF CoerceStanzas
<1> HIDE DEF f, names
<1>3. f = [i \in DOMAIN Sorted(names) |-> f[i]]
  BY <1>2
<1>4. Lists(ns, names) /\ DOMAIN ns = 1..Len(ns) /\ IsSeq(f) /\ Len(f) = Len(ns)
  BY <1>1, <1>3, StanzasListed
<1> HIDE DEF ns
<1>5. ASSUME NEW i \in 1..Len(f)
      PROVE  /\ Reasoned(f[i], from, to) /\ WrittenBy(f[i]) = ns[i] /\ ns[i] \in names
             /\ f[i] = CoerceStanza(ns[i], primitiveType(to[ns[i]]))
  <2>1. ns[i] \in names /\ f[i] = CoerceStanza(ns[i], primitiveType(to[ns[i]]))
    BY <1>2, <1>4 DEF Lists
  <2>2. PICK n : n = ns[i]
    OBVIOUS
  <2>3. IsCoerceOf(f[i], n, from, to)
    BY <2>1, <2>2 DEF IsCoerceOf, names
  <2>4. WrittenBy(f[i]) = ns[i]
    BY <2>1, StanzaNames
  <2> QED
    BY <2>1, <2>3, <2>4 DEF Reasoned
<1>6. \A i, j \in 1..Len(f) : i # j => WrittenBy(f[i]) # WrittenBy(f[j])
  BY <1>4, <1>5 DEF Lists
<1>7. Accounts(f, from, to, names)
  BY <1>4, <1>5, <1>6 DEF Accounts
<1>8. ASSUME NEW n \in names PROVE Occurs(CoerceStanza(n, primitiveType(to[n])), f)
  <2>1. PICK i \in 1..Len(ns) : ns[i] = n
    BY <1>4 DEF Lists
  <2> QED
    BY <1>4, <1>5, <2>1 DEF Occurs
<1> QED
  BY <1>7, <1>8 DEF f, names

\* The JSON type of a primitive type.
JSONType(k) == IF k = "string" THEN "string" ELSE IF k = "boolean" THEN "bool" ELSE "number"

\* A stanza of a draft that toOps accepts.
IsCoercion(s, n, from, to) ==
    /\ n \in Retyped(from, to)
    /\ s.verb = "coerce" /\ s.field = Bare(n) /\ s.to = JSONType(primitiveType(to[n]))

Bridging(s, from, to) ==
    \/ \E r, a : IsRenameOf(s, r, a, from, to)
    \/ \E a : IsDefaultOf(s, a, from, to)
    \/ \E n : IsCoercion(s, n, from, to)

\* A list of stanzas between two shapes: no field is left twice, and every field
\* that must go is taken, every one that must come left.
Bridge(list, from, to) ==
    /\ Len(list) \in Nat
    /\ \A i \in 1..Len(list) : Bridging(list[i], from, to)
    /\ \A i, j \in 1..Len(list) : i # j => WrittenBy(list[i]) # WrittenBy(list[j])
    /\ \A n \in (DOMAIN from \ DOMAIN to) \cup Retyped(from, to) :
          \E i \in 1..Len(list) : list[i].verb \in {"rename", "coerce"} /\ ReadBy(list[i]) = n
    /\ \A a \in DOMAIN to \ DOMAIN from : \E i \in 1..Len(list) : WrittenBy(list[i]) = a

\* A complete draft, its candidates taken for renames.
AllStanzas(d, optionA) == d.ops \o RenameStanzas(IF optionA THEN d.cands ELSE {})

LEMMA DraftAccounts ==
    ASSUME NEW from, NEW to, DOMAIN from \subseteq Ordered, DOMAIN to \subseteq Ordered,
           NEW strict, NEW optionA,
           draftDirection(from, to, strict).notes = {},
           optionA \/ draftDirection(from, to, strict).cands = {}
    PROVE  LET all == AllStanzas(draftDirection(from, to, strict), optionA)
           IN  /\ \E T : Accounts(all, from, to, T)
               /\ \A r \in DOMAIN from \ DOMAIN to : \E a : Occurs(RenameStanza(r, a), all)
               /\ \A n \in Retyped(from, to) : Occurs(CoerceStanza(n, primitiveType(to[n])), all)
               /\ \A a \in DOMAIN to \ DOMAIN from : \E x : Occurs(x, all) /\ WrittenBy(x) = a
<1> DEFINE removed  == DOMAIN from \ DOMAIN to
           added    == DOMAIN to \ DOMAIN from
           renames  == IF strict THEN {} ELSE matchCaseRenames(removed, added, from, to)
           removed2 == removed \ Lefts(renames)
           added2   == added \ Rights(renames)
           cands    == matchAmbiguousPairs(removed2, added2, from, to)
           missing  == added2 \ Rights(cands)
           d        == draftDirection(from, to, strict)
           taken    == IF optionA THEN cands ELSE {}
           one      == RenameStanzas(renames)
           two      == DefaultStanzas(missing, to)
           three    == CoerceStanzas(Retyped(from, to), to)
           four     == RenameStanzas(taken)
<1>1. /\ d.ops = one \o two \o three
      /\ d.cands = cands
      /\ d.notes = removed2 \ Lefts(cands)
  BY Zenon DEF draftDirection, Lefts, Rights, Retyped
<1>2. Matching(renames, SameType(removed, added, from, to))
  <2>1. removed \in SUBSET Ordered /\ added \in SUBSET Ordered
    OBVIOUS
  <2>2. Matching({}, SameType(removed, added, from, to))
    BY DEF Matching
  <2> HIDE DEF removed, added
  <2>3. Matching(matchCaseRenames(removed, added, from, to), SameType(removed, added, from, to))
    BY <2>1, MatchFacts
  <2> QED
    BY <2>2, <2>3
<1>3. Matching(cands, SameType(removed2, added2, from, to))
  <2>1. removed2 \in SUBSET Ordered /\ added2 \in SUBSET Ordered
    OBVIOUS
  <2> HIDE DEF removed2, added2
  <2> QED
    BY <2>1, MatchFacts
<1>4. Matching(taken, SameType(removed2, added2, from, to))
  BY <1>3 DEF Matching
<1>5. /\ removed \in SUBSET (DOMAIN from \ DOMAIN to) /\ added \in SUBSET (DOMAIN to \ DOMAIN from)
      /\ removed2 \in SUBSET removed /\ added2 \in SUBSET added
      /\ Rights(renames) \cap added2 = {} /\ missing \subseteq added2 /\ missing \cap Rights(cands) = {}
      /\ added \cap Retyped(from, to) = {}
  BY DEF Retyped
<1>6. removed2 = removed \ Lefts(renames)
  OBVIOUS
<1>7. /\ taken = IF optionA THEN cands ELSE {}
      /\ added = DOMAIN to \ DOMAIN from
      /\ added2 = added \ Rights(renames) /\ missing = added2 \ Rights(cands)
  OBVIOUS
<1> HIDE DEF renames, cands, missing, removed2, added2, taken, removed, added
<1>8. /\ Accounts(one, from, to, Rights(renames))
      /\ \A p \in renames : Occurs(RenameStanza(p[1], p[2]), one)
      /\ Rights(renames) \subseteq added
  BY <1>2, <1>5, RenamesAccount
<1>9. /\ Accounts(four, from, to, Rights(taken))
      /\ \A p \in taken : Occurs(RenameStanza(p[1], p[2]), four)
      /\ Rights(taken) \subseteq added2
  <2>1. removed2 \in SUBSET (DOMAIN from \ DOMAIN to) /\ added2 \in SUBSET (DOMAIN to \ DOMAIN from)
    BY <1>5
  <2> QED
    BY <1>4, <2>1, RenamesAccount
<1>10. /\ Accounts(two, from, to, missing)
       /\ \A a \in missing : Occurs(DefaultStanza(a, zeroForSchema(to[a])), two)
  <2>1. missing \in SUBSET (DOMAIN to \ DOMAIN from)
    BY <1>5
  <2> QED
    BY <2>1, DefaultsAccount
<1>11. /\ Accounts(three, from, to, Retyped(from, to))
       /\ \A n \in Retyped(from, to) : Occurs(CoerceStanza(n, primitiveType(to[n])), three)
  BY CoercesAccount
<1>12. Rights(taken) \cap missing = {}
  BY <1>5, <1>7 DEF Rights
<1> HIDE DEF one, two, three, four
<1>13. /\ Accounts(one \o two, from, to, Rights(renames) \cup missing)
       /\ \A x : Occurs(x, one) \/ Occurs(x, two) => Occurs(x, one \o two)
  <2>1. Rights(renames) \cap missing = {}
    BY <1>5
  <2> QED
    BY <1>8, <1>10, <2>1, AccountsJoin
<1>14. /\ Accounts(one \o two \o three, from, to, Rights(renames) \cup missing \cup Retyped(from, to))
       /\ \A x : Occurs(x, one \o two) \/ Occurs(x, three) => Occurs(x, one \o two \o three)
  <2>1. (Rights(renames) \cup missing) \cap Retyped(from, to) = {}
    BY <1>5, <1>8
  <2>2. PICK s, S : s = one \o two /\ S = Rights(renames) \cup missing
    OBVIOUS
  <2> QED
    BY <1>11, <1>13, <2>1, <2>2, AccountsJoin
<1>15. PICK s, S : s = one \o two \o three /\ S = Rights(renames) \cup missing \cup Retyped(from, to)
  OBVIOUS
<1>16. S \cap Rights(taken) = {}
  BY <1>5, <1>9, <1>12, <1>15
<1>17. /\ Accounts(s \o four, from, to, S \cup Rights(taken))
       /\ \A x : Occurs(x, s) \/ Occurs(x, four) => Occurs(x, s \o four)
  BY <1>9, <1>14, <1>15, <1>16, AccountsJoin
<1>18. AllStanzas(d, optionA) = s \o four
  BY <1>1, <1>7, <1>15 DEF AllStanzas, four
<1>19. ASSUME NEW r \in DOMAIN from \ DOMAIN to
       PROVE  \E a : Occurs(RenameStanza(r, a), s \o four)
  <2>1. r \in removed
    BY DEF removed
  <2>2. CASE r \in Lefts(renames)
    <3>1. PICK p \in renames : p[1] = r
      BY <2>2 DEF Lefts
    <3>2. Occurs(RenameStanza(r, p[2]), one)
      BY <1>8, <3>1
    <3>3. Occurs(RenameStanza(r, p[2]), s)
      BY <1>13, <1>14, <1>15, <3>2
    <3> QED
      BY <1>17, <3>3
  <2>3. CASE r \notin Lefts(renames)
    <3>1. r \in Lefts(cands)
      BY <1>1, <1>6, <2>1, <2>3
    <3>2. PICK p \in cands : p[1] = r
      BY <3>1 DEF Lefts
    <3>3. taken = cands
      BY <1>1, <1>7, <3>2
    <3>4. Occurs(RenameStanza(r, p[2]), four)
      BY <1>9, <3>2, <3>3
    <3> QED
      BY <1>17, <3>4
  <2> QED
    BY <2>2, <2>3
<1>20. ASSUME NEW n \in Retyped(from, to)
       PROVE  Occurs(CoerceStanza(n, primitiveType(to[n])), s \o four)
  BY <1>11, <1>14, <1>15, <1>17
<1>a. ASSUME NEW a \in DOMAIN to \ DOMAIN from
      PROVE  \E x : Occurs(x, s \o four) /\ WrittenBy(x) = a
  <2>1. CASE a \in Rights(renames)
    <3>1. PICK p \in renames : p[2] = a
      BY <2>1 DEF Rights
    <3>2. Occurs(RenameStanza(p[1], a), s \o four)
      BY <1>8, <1>13, <1>14, <1>15, <1>17, <3>1
    <3> QED
      BY <3>2, StanzaNames
  <2>2. CASE a \in Rights(cands)
    <3>1. PICK p \in cands : p[2] = a
      BY <2>2 DEF Rights
    <3>2. taken = cands
      BY <1>1, <1>7, <3>1
    <3>3. Occurs(RenameStanza(p[1], a), s \o four)
      BY <1>9, <1>17, <3>1, <3>2
    <3> QED
      BY <3>3, StanzaNames
  <2>3. CASE a \notin Rights(renames) /\ a \notin Rights(cands)
    <3>1. a \in missing
      BY <1>7, <2>3
    <3>2. Occurs(DefaultStanza(a, zeroForSchema(to[a])), s \o four)
      BY <1>10, <1>13, <1>14, <1>15, <1>17, <3>1
    <3> QED
      BY <3>2, StanzaNames
  <2> QED
    BY <2>1, <2>2, <2>3
<1> HIDE DEF d
<1>21. \E T : Accounts(AllStanzas(d, optionA), from, to, T)
  BY <1>17, <1>18
<1> QED
  BY <1>18, <1>19, <1>20, <1>a, <1>21 DEF d

\* What is pasted of a stanza: it, or it corrected.
LEMMA PastedStanza ==
    ASSUME NEW from, NEW to, NEW x, Reasoned(x, from, to), NEW s, s = x \/ s = Corrected(x),
           StanzaAccepted(s)
    PROVE  /\ Bridging(s, from, to) /\ WrittenBy(s) = WrittenBy(x)
           /\ s.verb = x.verb /\ ReadBy(s) = ReadBy(x)
<1>1. CASE \E r, a : IsRenameOf(x, r, a, from, to)
  <2>1. PICK r, a : IsRenameOf(x, r, a, from, to)
    BY <1>1
  <2>2. x.verb = "rename"
    BY <2>1, StanzaNames DEF IsRenameOf
  <2>3. s = x
    BY <2>2 DEF Corrected
  <2> QED
    BY <2>1, <2>3 DEF Bridging
<1>2. CASE \E a : IsDefaultOf(x, a, from, to)
  <2>1. PICK a : IsDefaultOf(x, a, from, to)
    BY <1>2
  <2>2. x.verb = "default"
    BY <2>1, StanzaNames DEF IsDefaultOf
  <2>3. s = x
    BY <2>2 DEF Corrected
  <2> QED
    BY <2>1, <2>3 DEF Bridging
<1>3. CASE \E n : IsCoerceOf(x, n, from, to)
  <2>1. PICK n : IsCoerceOf(x, n, from, to)
    BY <1>3
  <2>2. PICK t : t = primitiveType(to[n])
    OBVIOUS
  <2>3. x = CoerceStanza(n, t) /\ n \in Retyped(from, to) /\ t # ""
    BY <2>1, <2>2 DEF IsCoerceOf, Retyped
  <2>4. t \in Scalars
    BY <2>2, <2>3 DEF primitiveType
  <2>a. PICK z : z = CoerceStanza(n, t)
    OBVIOUS
  <2>b. z.verb = "coerce" /\ z.field = Bare(n) /\ z.to = t /\ ReadBy(z) = n /\ WrittenBy(z) = n
    BY <2>a, StanzaNames
  <2>c. PICK w : w = Corrected(z)
    OBVIOUS
  <2>d. /\ w.verb = "coerce" /\ w.field = Bare(n) /\ ReadBy(w) = n /\ WrittenBy(w) = n
        /\ w.to = IF t = "string" THEN "string" ELSE IF t = "boolean" THEN "bool" ELSE "number"
    BY <2>a, <2>c, StanzaNames
  <2>5. /\ x.verb = "coerce" /\ x.field = Bare(n) /\ x.to = t /\ ReadBy(x) = n /\ WrittenBy(x) = n
    BY <2>3, <2>a, <2>b
  <2>6. s.verb = "coerce" /\ s.field = Bare(n) /\ ReadBy(s) = n /\ WrittenBy(s) = n
    BY <2>3, <2>a, <2>b, <2>c, <2>d
  <2>7. s.to = JSONType(t)
    <3>1. CASE s = x
      <4>1. t \in {"string", "number", "bool"}
        BY <2>5, <3>1 DEF StanzaAccepted
      <4>2. t = "string"
        BY <2>4, <4>1 DEF Scalars
      <4> QED
        BY <2>5, <3>1, <4>2 DEF JSONType
    <3>2. CASE s = Corrected(x)
      BY <2>3, <3>2, <2>a, <2>c, <2>d DEF JSONType
    <3> QED
      BY <3>1, <3>2
  <2>8. IsCoercion(s, n, from, to)
    BY <2>2, <2>3, <2>6, <2>7 DEF IsCoercion
  <2> QED
    BY <2>5, <2>6, <2>8 DEF Bridging
<1> QED
  BY <1>1, <1>2, <1>3 DEF Reasoned

\* drift.go:298-397: a complete draft whose stanzas load is a bridge.
LEMMA PastedBridges ==
    ASSUME NEW from, NEW to, DOMAIN from \subseteq Ordered, DOMAIN to \subseteq Ordered,
           NEW strict, NEW optionA, NEW corrected,
           draftDirection(from, to, strict).notes = {},
           optionA \/ draftDirection(from, to, strict).cands = {},
           NEW list, list = Pasted(draftDirection(from, to, strict), corrected, optionA),
           \A i \in DOMAIN list : StanzaAccepted(list[i])
    PROVE  Bridge(list, from, to)
<1> DEFINE d   == draftDirection(from, to, strict)
           all == AllStanzas(d, optionA)
<1>1. /\ \E T : Accounts(all, from, to, T)
      /\ \A r \in DOMAIN from \ DOMAIN to : \E a : Occurs(RenameStanza(r, a), all)
      /\ \A n \in Retyped(from, to) : Occurs(CoerceStanza(n, primitiveType(to[n])), all)
      /\ \A a \in DOMAIN to \ DOMAIN from : \E x : Occurs(x, all) /\ WrittenBy(x) = a
  BY DraftAccounts
<1>2. list = [i \in DOMAIN all |-> IF corrected THEN Corrected(all[i]) ELSE all[i]]
  BY DEF Pasted, AllStanzas
<1> HIDE DEF all
<1>3. /\ IsSeq(all) /\ Len(all) \in Nat /\ DOMAIN all = 1..Len(all)
      /\ \A i \in 1..Len(all) : Reasoned(all[i], from, to)
      /\ \A i, j \in 1..Len(all) : i # j => WrittenBy(all[i]) # WrittenBy(all[j])
  BY <1>1 DEF Accounts, IsSeq
<1>4. Listed(list, Len(all))
  BY <1>2, <1>3 DEF Listed
<1>5. Len(list) = Len(all) /\ DOMAIN list = 1..Len(all)
  BY <1>3, <1>4, ListIsSeq DEF IsSeq
<1>6. ASSUME NEW i \in 1..Len(all)
      PROVE  /\ Bridging(list[i], from, to) /\ WrittenBy(list[i]) = WrittenBy(all[i])
             /\ list[i].verb = all[i].verb /\ ReadBy(list[i]) = ReadBy(all[i])
  <2>1. PICK x, s : x = all[i] /\ s = list[i]
    OBVIOUS
  <2>2. Reasoned(x, from, to) /\ (s = x \/ s = Corrected(x)) /\ StanzaAccepted(s)
    BY <1>2, <1>3, <1>5, <2>1
  <2> QED
    BY <2>1, <2>2, PastedStanza
<1>7. ASSUME NEW n \in (DOMAIN from \ DOMAIN to) \cup Retyped(from, to)
      PROVE  \E i \in 1..Len(list) : list[i].verb \in {"rename", "coerce"} /\ ReadBy(list[i]) = n
  <2>1. PICK s : s.verb \in {"rename", "coerce"} /\ ReadBy(s) = n /\ Occurs(s, all)
    <3>1. CASE n \in DOMAIN from \ DOMAIN to
      BY <1>1, <3>1, StanzaNames
    <3>2. CASE n \in Retyped(from, to)
      BY <1>1, <3>2, StanzaNames
    <3> QED
      BY <3>1, <3>2
  <2>2. PICK i \in 1..Len(all) : all[i] = s
    BY <2>1 DEF Occurs
  <2> QED
    BY <1>5, <1>6, <2>1, <2>2
<1>8. ASSUME NEW a \in DOMAIN to \ DOMAIN from
      PROVE  \E i \in 1..Len(list) : WrittenBy(list[i]) = a
  <2>1. PICK i \in 1..Len(all) : WrittenBy(all[i]) = a
    BY <1>1 DEF Occurs
  <2> QED
    BY <1>5, <1>6, <2>1
<1> QED
  BY <1>3, <1>5, <1>6, <1>7, <1>8 DEF Bridge

\* From a shape without fields: nothing to do is nothing to come.
LEMMA BridgeFromNothing ==
    ASSUME NEW list, NEW from, NEW to, Bridge(list, from, to), DOMAIN from = {}
    PROVE  Len(list) = 0 <=> DOMAIN to = {}
<1>1. ASSUME Len(list) = 0 PROVE DOMAIN to = {}
  <2>1. \A a \in DOMAIN to : \E i \in 1..Len(list) : WrittenBy(list[i]) = a
    BY DEF Bridge
  <2>2. 1..Len(list) = {}
    BY <1>1
  <2> QED
    BY <2>1, <2>2
<1>2. ASSUME Len(list) # 0 PROVE DOMAIN to # {}
  <2>1. 1 \in 1..Len(list)
    BY <1>2 DEF Bridge
  <2>2. Bridging(list[1], from, to)
    BY <2>1 DEF Bridge
  <2> QED
    BY <2>2 DEF Bridging, IsRenameOf, IsDefaultOf, IsCoercion, Retyped
<1> QED
  BY <1>1, <1>2

-----------------------------------------------------------------------------
(* Fields *)

\* A set that has 0, and of every number below N that it has also the next one.
LEMMA CountUp ==
    ASSUME NEW S, NEW N \in Nat, 0 \in S, \A k \in 0..N : k \in S /\ k < N => k + 1 \in S
    PROVE  \A k \in 0..N : k \in S
<1> DEFINE B == {k \in 0..N : k \notin S}
<1> SUFFICES ASSUME B # {} PROVE FALSE
  OBVIOUS
<1>1. PICK k \in B : \A j \in B : k <= j
  <2>1. B \in SUBSET Nat
    OBVIOUS
  <2> HIDE DEF B
  <2> QED
    BY <2>1, LeastNumber
<1>2. k \in 0..N /\ k \notin S
  OBVIOUS
<1>3. k # 0
  BY <1>2
<1>4. k - 1 \in 0..N /\ k - 1 < N /\ k - 1 \notin B
  BY <1>1, <1>2, <1>3
<1>5. k - 1 \in S
  BY <1>4
<1> HIDE DEF B
<1> QED
  BY <1>2, <1>4, <1>5

\* One alias less.
AliasStep(d, here) ==
    IF IsAlias(d, here.schema)
    THEN [schema |-> SchemaOf(d.schemas[here.schema.ref]),
          opt    |-> here.opt \/ here.schema.k = "nullable"]
    ELSE here

AliasStart(s) == [schema |-> SchemaOf(s), opt |-> FALSE]

AliasesUpTo(d, s, g, n) ==
    g = [i \in 0..n |-> IF i = 0 THEN AliasStart(s) ELSE AliasStep(d, g[i - 1])]

LEMMA AliasesExist ==
    ASSUME NEW d, NEW s
    PROVE  \A n \in Nat : \E g : AliasesUpTo(d, s, g, n)
<1> DEFINE B == {n \in Nat : ~ \E g : AliasesUpTo(d, s, g, n)}
<1> SUFFICES ASSUME B # {} PROVE FALSE
  OBVIOUS
<1>1. PICK n \in B : \A j \in B : n <= j
  <2>1. B \in SUBSET Nat
    OBVIOUS
  <2> HIDE DEF B
  <2> QED
    BY <2>1, LeastNumber
<1>2. n \in Nat /\ ~ \E g : AliasesUpTo(d, s, g, n)
  OBVIOUS
<1>3. n # 0
  <2>1. AliasesUpTo(d, s, [i \in 0..0 |-> AliasStart(s)], 0)
    BY DEF AliasesUpTo
  <2> QED
    BY <1>2, <2>1
<1>4. n - 1 \in Nat /\ n - 1 \notin B
  BY <1>1, <1>2, <1>3
<1>5. PICK g : AliasesUpTo(d, s, g, n - 1)
  BY <1>4
<1> DEFINE h == [i \in 0..n |-> IF i = n THEN AliasStep(d, g[n - 1]) ELSE g[i]]
<1>6. \A i \in 0..n - 1 : g[i] = IF i = 0 THEN AliasStart(s) ELSE AliasStep(d, g[i - 1])
  BY <1>5 DEF AliasesUpTo
<1>7. \A i \in 0..n : h[i] = IF i = 0 THEN AliasStart(s) ELSE AliasStep(d, h[i - 1])
  <2> TAKE i \in 0..n
  <2>1. CASE i = n
    <3>1. h[n] = AliasStep(d, g[n - 1]) /\ h[n - 1] = g[n - 1]
      BY <1>2, <1>4
    <3> HIDE DEF h
    <3> QED
      BY <1>3, <2>1, <3>1
  <2>2. CASE i # n
    <3>1. i \in 0..n - 1 /\ h[i] = g[i] /\ (i # 0 => h[i - 1] = g[i - 1])
      BY <1>2, <2>2
    <3> HIDE DEF h
    <3> QED
      BY <1>6, <3>1
  <2> QED
    BY <2>1, <2>2
<1>8. h = [i \in 0..n |-> IF i = 0 THEN AliasStart(s) ELSE AliasStep(d, h[i - 1])]
  <2>1. h = [i \in 0..n |-> h[i]]
    OBVIOUS
  <2> HIDE DEF h
  <2> QED
    BY <1>7, <2>1
<1> HIDE DEF h, B
<1> QED
  BY <1>2, <1>8 DEF AliasesUpTo

LEMMA ComponentsFinite == Cardinality(Components) \in Nat
<1>1. Components \in SUBSET Ordered
  BY OrderAssumption
<1> QED
  BY <1>1, OrderedFinite, FS_Subset, FS_CardinalityType

\* What going through the aliases comes to, as a function of the steps.
LEMMA UnaliasedIs ==
    ASSUME NEW d, NEW s
    PROVE  \E N, at :
              /\ N \in Nat /\ N = Cardinality(Components)
              /\ Unaliased(d, s) = at[N]
              /\ at[0] = AliasStart(s)
              /\ \A k \in 0..N : k < N => at[k + 1] = AliasStep(d, at[k])
<1>1. PICK N : N = Cardinality(Components)
  OBVIOUS
<1>2. N \in Nat
  BY <1>1, ComponentsFinite
<1> DEFINE at == CHOOSE g : AliasesUpTo(d, s, g, N)
<1>3. AliasesUpTo(d, s, at, N)
  BY <1>2, AliasesExist
<1>4. Unaliased(d, s) = at[N]
  BY <1>1, Zenon DEF Unaliased, AliasesUpTo, AliasStep, AliasStart
<1> HIDE DEF at
<1>5. \A i \in 0..N : at[i] = IF i = 0 THEN AliasStart(s) ELSE AliasStep(d, at[i - 1])
  BY <1>3 DEF AliasesUpTo
<1>6. at[0] = AliasStart(s)
  BY <1>2, <1>5
<1>7. \A k \in 0..N : k < N => at[k + 1] = AliasStep(d, at[k])
  <2> TAKE k \in 0..N
  <2> HAVE k < N
  <2>1. k + 1 \in 0..N /\ k + 1 # 0 /\ k + 1 - 1 = k
    BY <1>2
  <2>2. PICK j : j = k + 1
    OBVIOUS
  <2>3. at[j] = AliasStep(d, at[j - 1])
    BY <1>5, <2>1, <2>2
  <2> QED
    BY <2>1, <2>2, <2>3
<1> QED
  BY <1>1, <1>2, <1>4, <1>6, <1>7

\* Components that are the same in two documents, with everything below them.
Shared(d1, d2, S) ==
    /\ S \subseteq DOMAIN d1.schemas \cap DOMAIN d2.schemas
    /\ \A c \in S : d1.schemas[c] = d2.schemas[c] /\ RefsOf(d1, c) \subseteq S

LEMMA SharedComponent ==
    ASSUME NEW d1, NEW d2, NEW S, Shared(d1, d2, S), NEW c \in S
    PROVE  /\ IsMessage(d1, c) = IsMessage(d2, c)
           /\ d1.schemas[c] = d2.schemas[c]
           /\ ~ IsMessage(d1, c) => walkRefs(d1.schemas[c]) \subseteq S
           /\ IsMessage(d1, c) => \A p \in DOMAIN d1.schemas[c].props :
                                     walkRefs(d1.schemas[c].props[p]) \subseteq S
<1>1. c \in DOMAIN d1.schemas /\ d1.schemas[c] = d2.schemas[c] /\ RefsOf(d1, c) \subseteq S
  BY DEF Shared
<1>2. IsMessage(d1, c) = IsMessage(d2, c)
  BY <1>1 DEF IsMessage
<1>3. ~ IsMessage(d1, c) => walkRefs(d1.schemas[c]) \subseteq S
  BY <1>1 DEF RefsOf
<1>4. ASSUME IsMessage(d1, c), NEW p \in DOMAIN d1.schemas[c].props
      PROVE  walkRefs(d1.schemas[c].props[p]) \subseteq S
  <2> DEFINE U == {walkRefs(d1.schemas[c].props[x]) : x \in DOMAIN d1.schemas[c].props}
  <2>1. RefsOf(d1, c) = UNION U
    BY <1>1, <1>4 DEF RefsOf
  <2>2. walkRefs(d1.schemas[c].props[p]) \in U
    BY <1>4
  <2> HIDE DEF U
  <2> QED
    BY <1>1, <2>1, <2>2
<1> QED
  BY <1>1, <1>2, <1>3, <1>4

LEMMA SchemaRefs ==
    ASSUME NEW s
    PROVE  walkRefs(SchemaOf(s)) = walkRefs(s)
<1>1. SchemaOf(s).k = s.k /\ SchemaOf(s).item = s.item /\ SchemaOf(s).ref = s.ref
  BY DEF SchemaOf
<1> QED
  BY <1>1 DEF walkRefs

LEMMA SharedAlias ==
    ASSUME NEW d1, NEW d2, NEW S, Shared(d1, d2, S),
           NEW here, walkRefs(here.schema) \subseteq S
    PROVE  /\ AliasStep(d1, here) = AliasStep(d2, here)
           /\ walkRefs(AliasStep(d1, here).schema) \subseteq S
<1> DEFINE e == here.schema
           c == e.ref
<1>1. CASE e.k = "ref" \/ (e.k = "nullable" /\ e.item = "ref")
  <2>1. c \in S
    BY <1>1 DEF walkRefs
  <2>2. /\ IsMessage(d1, c) = IsMessage(d2, c)
        /\ d1.schemas[c] = d2.schemas[c]
        /\ ~ IsMessage(d1, c) => walkRefs(d1.schemas[c]) \subseteq S
    BY <2>1, SharedComponent
  <2>3. IsAlias(d1, e) = IsAlias(d2, e) /\ (IsAlias(d1, e) => ~ IsMessage(d1, c))
    BY <2>2 DEF IsAlias
  <2>4. AliasStep(d1, here) = AliasStep(d2, here)
    BY <2>2, <2>3 DEF AliasStep
  <2>5. CASE IsAlias(d1, e)
    <3>1. AliasStep(d1, here).schema = SchemaOf(d1.schemas[c])
      BY <2>5 DEF AliasStep
    <3> QED
      BY <2>2, <2>3, <2>4, <2>5, <3>1, SchemaRefs
  <2>6. CASE ~ IsAlias(d1, e)
    BY <2>4, <2>6 DEF AliasStep
  <2> QED
    BY <2>5, <2>6
<1>2. CASE ~ (e.k = "ref" \/ (e.k = "nullable" /\ e.item = "ref"))
  BY <1>2 DEF AliasStep, IsAlias
<1> QED
  BY <1>1, <1>2

LEMMA SharedUnaliased ==
    ASSUME NEW d1, NEW d2, NEW S, Shared(d1, d2, S), NEW s, walkRefs(s) \subseteq S
    PROVE  /\ Unaliased(d1, s) = Unaliased(d2, s)
           /\ walkRefs(Unaliased(d1, s).schema) \subseteq S
<1>1. PICK N, at : /\ N \in Nat /\ N = Cardinality(Components)
                           /\ Unaliased(d1, s) = at[N]
                           /\ at[0] = AliasStart(s)
                           /\ \A k \in 0..N : k < N => at[k + 1] = AliasStep(d1, at[k])
  BY UnaliasedIs
<1>2. PICK M, ta : /\ M \in Nat /\ M = Cardinality(Components)
                           /\ Unaliased(d2, s) = ta[M]
                           /\ ta[0] = AliasStart(s)
                           /\ \A k \in 0..M : k < M => ta[k + 1] = AliasStep(d2, ta[k])
  BY UnaliasedIs
<1>3. M = N
  BY <1>1, <1>2
<1> DEFINE G == {k \in 0..N : at[k] = ta[k] /\ walkRefs(at[k].schema) \subseteq S}
<1>4. 0 \in G
  <2>1. AliasStart(s).schema = SchemaOf(s)
    BY DEF AliasStart
  <2>2. walkRefs(at[0].schema) \subseteq S
    BY <1>1, <2>1, SchemaRefs
  <2> QED
    BY <1>1, <1>2, <2>2
<1>5. \A k \in 0..N : k \in G /\ k < N => k + 1 \in G
  <2> SUFFICES ASSUME NEW k \in 0..N, k \in G, k < N
               PROVE  k + 1 \in G
    OBVIOUS
  <2>1. PICK j : j = k + 1
    OBVIOUS
  <2>2. j \in 0..N /\ at[j] = AliasStep(d1, at[k]) /\ ta[j] = AliasStep(d2, ta[k])
    BY <1>1, <1>2, <1>3, <2>1
  <2>3. at[k] = ta[k] /\ walkRefs(at[k].schema) \subseteq S
    OBVIOUS
  <2>4. at[j] = ta[j] /\ walkRefs(at[j].schema) \subseteq S
    BY <2>2, <2>3, SharedAlias
  <2> QED
    BY <2>1, <2>2, <2>4
<1> HIDE DEF G
<1>6. N \in G
  <2>1. N \in 0..N
    BY <1>1
  <2> QED
    BY <1>1, <1>4, <1>5, <2>1, CountUp
<1> QED
  BY <1>1, <1>2, <1>3, <1>6 DEF G

\* Of what is shared, two documents make one field.
LEMMA SharedField ==
    ASSUME NEW d1, NEW d2, NEW S, Shared(d1, d2, S), NEW s, walkRefs(s) \subseteq S
    PROVE  /\ buildField(d1, s) = buildField(d2, s)
           /\ buildField(d1, s).type = "message" => buildField(d1, s).msg \in S
<1>1. PICK u : u = Unaliased(d1, s) /\ u = Unaliased(d2, s) /\ walkRefs(u.schema) \subseteq S
  BY SharedUnaliased
<1>2. PICK e : e = u.schema
  OBVIOUS
<1>3. walkRefs(e) \subseteq S
  BY <1>1, <1>2
<1>4. CASE e.k \in {"array", "map"}
  <2>0. ItemOf(d1, e) = ItemOf(d2, e) /\ (ItemOf(d1, e).k = "ref" => ItemOf(d1, e).ref \in S)
    <3>1. CASE e.item = "ref"
      <4>1. e.ref \in S
        BY <1>3, <1>4, <3>1 DEF walkRefs
      <4>2. /\ IsMessage(d1, e.ref) = IsMessage(d2, e.ref)
            /\ d1.schemas[e.ref] = d2.schemas[e.ref]
            /\ ~ IsMessage(d1, e.ref) => walkRefs(d1.schemas[e.ref]) \subseteq S
        BY <4>1, SharedComponent
      <4>3. ItemOf(d1, e) = ItemOf(d2, e)
        BY <3>1, <4>2 DEF ItemOf
      <4>4. CASE IsMessage(d1, e.ref)
        <5>1. ItemOf(d1, e).ref = e.ref
          BY <3>1, <4>4 DEF ItemOf
        <5> QED
          BY <4>1, <4>3, <5>1
      <4>5. CASE ~ IsMessage(d1, e.ref)
        <5>1. ItemOf(d1, e) = SchemaOf(d1.schemas[e.ref])
          BY <3>1, <4>5 DEF ItemOf
        <5>2. ItemOf(d1, e).k = "ref" => ItemOf(d1, e).ref \in walkRefs(d1.schemas[e.ref])
          BY <5>1 DEF SchemaOf, walkRefs
        <5> QED
          BY <4>2, <4>3, <4>5, <5>2
      <4> QED
        BY <4>4, <4>5
    <3>2. CASE e.item # "ref"
      <4>1. ItemOf(d1, e).k = e.item /\ ItemOf(d1, e) = ItemOf(d2, e)
        BY <3>2 DEF ItemOf
      <4> QED
        BY <3>2, <4>1
    <3> QED
      BY <3>1, <3>2
  <2>1. PICK it : it = ItemOf(d1, e) /\ it = ItemOf(d2, e) /\ (it.k = "ref" => it.ref \in S)
    BY <2>0
  <2>2. buildField(d1, s) = buildField(d2, s)
    BY <1>1, <1>2, <2>1, Zenon DEF buildField
  <2>3. buildField(d1, s).type = "message" => buildField(d1, s).msg \in S
    BY <1>1, <1>2, <1>4, <2>1 DEF buildField, Field, NoField, Scalars, Widened, wktMessageName
  <2> QED
    BY <2>2, <2>3
<1>5. CASE e.k \notin {"array", "map"}
  <2>1. e.k = "ref" \/ (e.k = "nullable" /\ e.item = "ref") => e.ref \in S
    BY <1>3 DEF walkRefs
  <2>2. buildField(d1, s) = buildField(d2, s)
    BY <1>1, <1>2, <1>5 DEF buildField
  <2>3. buildField(d1, s).type = "message" => buildField(d1, s).msg \in S
    BY <1>1, <1>2, <1>5, <2>1 DEF buildField, Field, NoField, Scalars, wktMessageName
  <2> QED
    BY <2>2, <2>3
<1> QED
  BY <1>4, <1>5

\* What is no alias stays as it is.
LEMMA NoAlias ==
    ASSUME NEW d, NEW s, NEW a, a = AliasStart(s), AliasStep(d, a) = a
    PROVE  Unaliased(d, s) = a
<1>1. PICK N, at : /\ N \in Nat /\ N = Cardinality(Components)
                           /\ Unaliased(d, s) = at[N]
                           /\ at[0] = AliasStart(s)
                           /\ \A k \in 0..N : k < N => at[k + 1] = AliasStep(d, at[k])
  BY UnaliasedIs
<1> DEFINE G == {k \in 0..N : at[k] = a}
<1>5. 0 \in G
  BY <1>1
<1>6. \A k \in 0..N : k \in G /\ k < N => k + 1 \in G
  <2> SUFFICES ASSUME NEW k \in 0..N, k \in G, k < N
               PROVE  k + 1 \in G
    OBVIOUS
  <2>1. PICK j : j = k + 1
    OBVIOUS
  <2>2. j \in 0..N /\ at[j] = AliasStep(d, at[k]) /\ at[k] = a
    BY <1>1, <2>1
  <2> QED
    BY <2>1, <2>2
<1> HIDE DEF G
<1>7. N \in G
  <2>1. N \in 0..N
    BY <1>1
  <2> QED
    BY <1>1, <1>5, <1>6, <2>1, CountUp
<1> QED
  BY <1>1, <1>7 DEF G

\* A property of a primitive type is a field of that type.
LEMMA ScalarField ==
    ASSUME NEW d, NEW s, s.k \in Scalars
    PROVE  buildField(d, s) = Field(s.k, None, "single", FALSE)
<1>2. PICK a : a = AliasStart(s)
  OBVIOUS
<1>3. a.schema.k = s.k /\ a.opt = FALSE
  BY <1>2 DEF AliasStart, SchemaOf
<1>4. AliasStep(d, a) = a
  BY <1>3 DEF AliasStep, IsAlias, Scalars
<1>8. Unaliased(d, s) = a
  BY <1>2, <1>4, NoAlias
<1>9. buildField(d, s) = Field(a.schema.k, None, "single", a.opt)
  <2>1. a.schema.k \in Scalars
    BY <1>3
  <2> QED
    BY <1>8, <2>1 DEF buildField, Field, NoField, Scalars
<1> QED
  BY <1>3, <1>9

-----------------------------------------------------------------------------
(* Where names lead *)

ReachStart(root) == [msg |-> root, prop |-> "", field |-> NoField]

ReachedUpTo(layer, root, ns, reader, g, n) ==
    g = [k \in 0..n |-> IF k = 0 THEN ReachStart(root)
                        ELSE Enter(layer, g[k - 1].msg, ns[k], reader)]

LEMMA ReachingExists ==
    ASSUME NEW layer, NEW root, NEW ns, NEW reader
    PROVE  \A n \in Nat : \E g : ReachedUpTo(layer, root, ns, reader, g, n)
<1> DEFINE B == {n \in Nat : ~ \E g : ReachedUpTo(layer, root, ns, reader, g, n)}
<1> SUFFICES ASSUME B # {} PROVE FALSE
  OBVIOUS
<1>1. PICK n \in B : \A j \in B : n <= j
  <2>1. B \in SUBSET Nat
    OBVIOUS
  <2> HIDE DEF B
  <2> QED
    BY <2>1, LeastNumber
<1>2. n \in Nat /\ ~ \E g : ReachedUpTo(layer, root, ns, reader, g, n)
  OBVIOUS
<1>3. n # 0
  <2>1. ReachedUpTo(layer, root, ns, reader, [i \in 0..0 |-> ReachStart(root)], 0)
    BY DEF ReachedUpTo
  <2> QED
    BY <1>2, <2>1
<1>4. n - 1 \in Nat /\ n - 1 \notin B
  BY <1>1, <1>2, <1>3
<1>5. PICK g : ReachedUpTo(layer, root, ns, reader, g, n - 1)
  BY <1>4
<1> DEFINE h == [i \in 0..n |-> IF i = n THEN Enter(layer, g[n - 1].msg, ns[n], reader) ELSE g[i]]
<1>6. \A i \in 0..n - 1 : g[i] = IF i = 0 THEN ReachStart(root) ELSE Enter(layer, g[i - 1].msg, ns[i], reader)
  BY <1>5 DEF ReachedUpTo
<1>7. \A i \in 0..n : h[i] = IF i = 0 THEN ReachStart(root) ELSE Enter(layer, h[i - 1].msg, ns[i], reader)
  <2> TAKE i \in 0..n
  <2>1. CASE i = n
    <3>1. h[n] = Enter(layer, g[n - 1].msg, ns[n], reader) /\ h[n - 1] = g[n - 1]
      BY <1>2, <1>4
    <3> HIDE DEF h
    <3> QED
      BY <1>3, <2>1, <3>1
  <2>2. CASE i # n
    <3>1. i \in 0..n - 1 /\ h[i] = g[i] /\ (i # 0 => h[i - 1] = g[i - 1])
      BY <1>2, <2>2
    <3> HIDE DEF h
    <3> QED
      BY <1>6, <3>1
  <2> QED
    BY <2>1, <2>2
<1>8. h = [i \in 0..n |-> IF i = 0 THEN ReachStart(root) ELSE Enter(layer, h[i - 1].msg, ns[i], reader)]
  <2>1. h = [i \in 0..n |-> h[i]]
    OBVIOUS
  <2> HIDE DEF h
  <2> QED
    BY <1>7, <2>1
<1> HIDE DEF h, B
<1> QED
  BY <1>2, <1>8 DEF ReachedUpTo

\* at is what names ns lead to, a name at a time.
Leads(layer, root, ns, reader, at) ==
    /\ Reached(layer, root, ns, reader) = at[Len(ns)]
    /\ at[0] = ReachStart(root)
    /\ \A k \in 0..Len(ns) : k < Len(ns) => at[k + 1] = Enter(layer, at[k].msg, ns[k + 1], reader)

LEMMA ReachedIs ==
    ASSUME NEW layer, NEW root, NEW ns, Len(ns) \in Nat, NEW reader
    PROVE  \E at : Leads(layer, root, ns, reader, at)
<1> DEFINE at == CHOOSE g : ReachedUpTo(layer, root, ns, reader, g, Len(ns))
<1>1. ReachedUpTo(layer, root, ns, reader, at, Len(ns))
  BY ReachingExists
<1>2. Reached(layer, root, ns, reader) = at[Len(ns)]
  BY Zenon DEF Reached, ReachedUpTo, ReachStart
<1> HIDE DEF at
<1>3. PICK N \in Nat : N = Len(ns)
  OBVIOUS
<1>4. \A i \in 0..N : at[i] = IF i = 0 THEN ReachStart(root) ELSE Enter(layer, at[i - 1].msg, ns[i], reader)
  BY <1>1, <1>3 DEF ReachedUpTo
<1>5. at[0] = ReachStart(root)
  BY <1>3, <1>4
<1>6. \A k \in 0..N : k < N => at[k + 1] = Enter(layer, at[k].msg, ns[k + 1], reader)
  <2> TAKE k \in 0..N
  <2> HAVE k < N
  <2>1. PICK j : j = k + 1
    OBVIOUS
  <2>2. j \in 0..N /\ j # 0 /\ j - 1 = k
    BY <1>3, <2>1
  <2>3. at[j] = Enter(layer, at[j - 1].msg, ns[j], reader)
    BY <1>4, <2>2
  <2> QED
    BY <2>1, <2>2, <2>3
<1> QED
  BY <1>2, <1>3, <1>5, <1>6 DEF Leads

\* A name the document has means the same to protojson.
LEMMA EnterDocumented ==
    ASSUME NEW layer, NEW msg, NEW n, NEW e, e = Enter(layer, msg, n, "documented")
    PROVE  /\ e.field # NoField => Enter(layer, msg, n, "protojson") = e
           /\ e.field = NoField => e.msg = None \/ Enter(layer, msg, n, "protojson") = e
           /\ e.prop = n
<1>1. Lookup(layer, msg, n, "documented") = n
  BY DEF Lookup
<1>2. CASE msg = "any"
  BY <1>2 DEF Enter
<1>3. CASE msg = None \/ n \notin DOMAIN layer.messages[msg]
  BY <1>1, <1>3 DEF Enter
<1>4. CASE msg # "any" /\ msg # None /\ n \in DOMAIN layer.messages[msg]
  <2>1. Lookup(layer, msg, n, "protojson") = n
    BY <1>4 DEF Lookup
  <2>2. Enter(layer, msg, n, "protojson") = e
    BY <1>1, <1>4, <2>1 DEF Enter, Into
  <2>3. e.prop = n
    BY <1>1, <1>4 DEF Enter
  <2> QED
    BY <2>2, <2>3
<1> QED
  BY <1>2, <1>3, <1>4

\* Behind a field that is not there, or a scalar, there is nothing.
LEMMA NothingBehind ==
    ASSUME NEW layer, NEW n, NEW reader
    PROVE  Enter(layer, None, n, reader).msg = None /\ Enter(layer, None, n, reader).field = NoField
<1>1. None # "any"
  BY ShimAssumption
<1> QED
  BY <1>1 DEF Enter

\* protojson takes the names of the document for what the document means.
LEMMA DocumentedAsSent ==
    ASSUME NEW layer, NEW root, NEW ns, Len(ns) \in Nat \ {0},
           FieldOf(layer, root, ns, "documented") # NoField
    PROVE  /\ Reached(layer, root, ns, "protojson") = Reached(layer, root, ns, "documented")
           /\ Reached(layer, root, ns, "documented").prop = ns[Len(ns)]
<1>1. PICK N \in Nat : N = Len(ns) /\ N # 0
  OBVIOUS
<1>2. PICK at : Leads(layer, root, ns, "documented", at)
  BY <1>1, ReachedIs
<1>3. PICK ta : Leads(layer, root, ns, "protojson", ta)
  BY <1>1, ReachedIs
<1> DEFINE G == {k \in 0..N : at[k] = ta[k] \/ (at[k].msg = None /\ at[k].field = NoField)}
<1>4. 0 \in G
  BY <1>1, <1>2, <1>3 DEF Leads
<1>5. \A k \in 0..N : k \in G /\ k < N => k + 1 \in G
  <2> SUFFICES ASSUME NEW k \in 0..N, k \in G, k < N
               PROVE  k + 1 \in G
    OBVIOUS
  <2>1. PICK j, n : j = k + 1 /\ n = ns[k + 1]
    OBVIOUS
  <2>2. /\ j \in 0..N
        /\ at[j] = Enter(layer, at[k].msg, n, "documented")
        /\ ta[j] = Enter(layer, ta[k].msg, n, "protojson")
    BY <1>1, <1>2, <1>3, <2>1 DEF Leads
  <2>3. CASE at[k] = ta[k]
    <3>1. at[j] = ta[j] \/ (at[j].msg = None /\ at[j].field = NoField)
      BY <2>2, <2>3, EnterDocumented
    <3> QED
      BY <2>1, <2>2, <3>1
  <2>4. CASE at[k].msg = None
    <3>1. at[j].msg = None /\ at[j].field = NoField
      BY <2>2, <2>4, NothingBehind
    <3> QED
      BY <2>1, <2>2, <3>1
  <2> QED
    BY <2>3, <2>4
<1>6. N \in G
  <2> HIDE DEF G
  <2>1. N \in 0..N
    OBVIOUS
  <2> QED
    BY <1>4, <1>5, <2>1, CountUp
<1>7. at[N] = Reached(layer, root, ns, "documented") /\ ta[N] = Reached(layer, root, ns, "protojson")
  BY <1>1, <1>2, <1>3 DEF Leads
<1>8. at[N].field # NoField
  BY <1>7 DEF FieldOf
<1>9. at[N].prop = ns[N]
  <2>1. N - 1 \in 0..N /\ N - 1 < N /\ N - 1 + 1 = N
    BY <1>1
  <2>2. PICK j : j = N - 1
    OBVIOUS
  <2>3. at[N] = Enter(layer, at[j].msg, ns[N], "documented")
    BY <1>1, <1>2, <2>1, <2>2 DEF Leads
  <2> QED
    BY <2>3, EnterDocumented
<1> QED
  BY <1>1, <1>6, <1>7, <1>8, <1>9

\* adapter.go:118-124: JSON that a layer's document describes is JSON that
\* protojson.Unmarshal takes for the layer's message, whatever proto names the
\* fields were given: no name of the document is read as another field's.
THEOREM DescribedConforms ==
    ASSUME NEW layer, NEW root, NEW b, DOMAIN b \subseteq Positions, Described(layer, root, b)
    PROVE  Conforms(layer, root, b)
<1>1. ASSUME NEW q \in DOMAIN b \ {<<>>}
      PROVE  /\ Len(q) \in Nat \ {0} /\ Len(NamesOf(q)) = Len(q)
             /\ NamesOf(q)[Len(q)] = q[Len(q)].name
  <2>1. q \in Positions /\ q # <<>>
    OBVIOUS
  <2>2. Len(q) \in Nat \ {0} /\ DOMAIN q = 1..Len(q)
    BY <2>1, PositionFacts
  <2>3. PICK n \in Nat : n = Len(q)
    BY <2>2
  <2>4. NamesOf(q) = [i \in 1..n |-> q[i].name]
    BY <2>2, <2>3 DEF NamesOf
  <2>5. Len(NamesOf(q)) = n
    BY <2>3, <2>4, ListIsSeq DEF Listed, IsSeq
  <2>6. n \in 1..n
    BY <2>2, <2>3
  <2>7. NamesOf(q)[n] = q[n].name
    BY <2>4, <2>6
  <2> QED
    BY <2>2, <2>3, <2>5, <2>7
<1>2. ASSUME NEW q \in DOMAIN b \ {<<>>}
      PROVE  /\ Reached(layer, root, NamesOf(q), "protojson") = Reached(layer, root, NamesOf(q), "documented")
             /\ Reached(layer, root, NamesOf(q), "protojson").prop = q[Len(q)].name
  <2>1. PICK ns : ns = NamesOf(q)
    OBVIOUS
  <2>2. FieldOf(layer, root, ns, "documented") # NoField
    BY <2>1 DEF Described, Fits
  <2>3. Len(ns) \in Nat \ {0} /\ ns[Len(ns)] = q[Len(q)].name
    BY <1>1, <2>1
  <2> QED
    BY <2>1, <2>2, <2>3, DocumentedAsSent
<1>3. Fits(layer, root, b, "protojson")
  BY <1>2 DEF Described, Fits, FieldOf
<1>4. ASSUME NEW p \in DOMAIN b \ {<<>>}, NEW q \in DOMAIN b \ {<<>>},
             p # q, Above(p) = Above(q), p[Len(p)].idx = q[Len(q)].idx
      PROVE  p[Len(p)].name # q[Len(q)].name
  <2> SUFFICES ASSUME p[Len(p)].name = q[Len(q)].name PROVE FALSE
    OBVIOUS
  <2>1. PICK m, n : m = Len(p) /\ n = Len(q)
    OBVIOUS
  <2>2. p \in Positions /\ q \in Positions /\ m \in Nat \ {0} /\ n \in Nat \ {0}
    BY <1>1, <2>1
  <2>3. m - 1 \in 0..m /\ n - 1 \in 0..n
    BY <2>2
  <2>4. /\ Len(Above(p)) = m - 1 /\ \A i \in 1..m - 1 : Above(p)[i] = p[i]
        /\ Len(Above(q)) = n - 1 /\ \A i \in 1..n - 1 : Above(q)[i] = q[i]
    BY <2>1, <2>2, <2>3, UptoFacts DEF Above
  <2>5. m = n
    BY <1>4, <2>2, <2>4
  <2>6. p[m] \in Step /\ q[m] \in Step
    <3>1. m \in 1..m
      BY <2>2
    <3> QED
      BY <2>1, <2>2, <2>5, <3>1, PositionFacts
  <2>7. p[m] = q[m]
    BY <1>4, <2>1, <2>5, <2>6 DEF Step
  <2>8. \A i \in 1..m : p[i] = q[i]
    <3> TAKE i \in 1..m
    <3>1. CASE i = m
      BY <2>7, <3>1
    <3>2. CASE i # m
      <4>1. i \in 1..m - 1
        BY <2>2, <3>2
      <4> QED
        BY <1>4, <2>4, <2>5, <4>1
    <3> QED
      BY <3>1, <3>2
  <2>9. p = q
    BY <2>1, <2>2, <2>5, <2>8, SamePosition
  <2> QED
    BY <1>4, <2>9
<1> QED
  BY <1>2, <1>3, <1>4 DEF Conforms

-----------------------------------------------------------------------------
(* Layers *)

\* What add writes: the messages of the components, whose fields are of messages
\* of the layer, and among them what every side binds.
IsLayer(L) ==
    /\ L.doc \in Documents
    /\ DOMAIN L.messages \subseteq DOMAIN L.doc.schemas \cup {Empty}
    /\ \A m \in DOMAIN L.messages \ {Empty} :
          IsMessage(L.doc, m) /\ L.messages[m] = buildMessage(L.doc, m)
    /\ Empty \in DOMAIN L.messages \ DOMAIN L.doc.schemas => L.messages[Empty] = <<>>
    /\ \A m \in DOMAIN L.messages : \A p \in DOMAIN L.messages[m] :
          L.messages[m][p].type = "message" => L.messages[m][p].msg \in DOMAIN L.messages
    /\ \A op \in L.doc.ops : \A side \in Sides(op) : BoundTo(side) \in DOMAIN L.messages

\* The message root has a field for each of props.
HasShape(L, root, props) ==
    /\ root \in DOMAIN L.messages /\ root \notin {None, "any"}
    /\ DOMAIN L.messages[root] = DOMAIN props
    /\ \A n \in DOMAIN props : L.messages[root][n] = buildField(L.doc, props[n])

LEMMA TheOperation ==
    ASSUME NEW d, Cardinality(d.ops) = 1
    PROVE  (CHOOSE op \in d.ops : TRUE) \in d.ops
<1>1. d.ops # {}
  <2>1. Cardinality({}) = 0
    BY FS_EmptySet
  <2> QED
    BY <2>1
<1> QED
  BY <1>1

LEMMA SidesOfLayer ==
    ASSUME NEW L, Cardinality(L.doc.ops) = 1, NEW side, side \in {RequestSide(L), ResponseSide(L)}
    PROVE  \E op \in L.doc.ops : side \in Sides(op)
<1>1. PICK op : op = CHOOSE x \in L.doc.ops : TRUE
  OBVIOUS
<1>2. op \in L.doc.ops
  BY <1>1, TheOperation
<1>3. side \in {op.request, successResponse(op)}
  BY <1>1 DEF RequestSide, ResponseSide
<1> QED
  BY <1>2, <1>3 DEF Sides

\* The message of a side has the properties of the side.
LEMMA ShapeOfSide ==
    ASSUME NEW L, IsLayer(L), Cardinality(L.doc.ops) = 1, Empty \notin DOMAIN L.doc.schemas,
           NEW side, side \in {RequestSide(L), ResponseSide(L)}
    PROVE  /\ HasShape(L, BoundTo(side), PropertiesOf(L.doc, side))
           /\ DOMAIN PropertiesOf(L.doc, side) \subseteq Ordered
           /\ \A n \in DOMAIN PropertiesOf(L.doc, side) :
                 walkRefs(PropertiesOf(L.doc, side)[n]) \subseteq Below(L.doc)
<1>1. PICK root, props : root = BoundTo(side) /\ props = PropertiesOf(L.doc, side)
  OBVIOUS
<1>2. root \in DOMAIN L.messages
  BY <1>1, SidesOfLayer DEF IsLayer
<1>3. DOMAIN L.doc.schemas \subseteq Components
  BY OrderAssumption DEF IsLayer
<1>4. root \notin {None, "any"}
  BY <1>2, <1>3, ShimAssumption DEF IsLayer
<1>5. CASE root = Empty
  <2>1. props = <<>> /\ L.messages[root] = <<>> /\ DOMAIN <<>> = {}
    BY <1>1, <1>2, <1>5 DEF PropertiesOf, IsLayer
  <2> QED
    BY <1>1, <1>2, <1>4, <2>1 DEF HasShape
<1>6. CASE root # Empty
  <2>1. /\ root \in DOMAIN L.doc.schemas /\ IsMessage(L.doc, root)
        /\ L.messages[root] = buildMessage(L.doc, root)
        /\ props = L.doc.schemas[root].props
    BY <1>1, <1>2, <1>6 DEF IsLayer, PropertiesOf
  <2>2. L.messages[root] = [n \in DOMAIN props |-> buildField(L.doc, props[n])]
    BY <2>1 DEF buildMessage
  <2>3. DOMAIN props \subseteq Ordered
    BY <2>1, OrderAssumption DEF IsMessage, IsLayer
  <2>4. ASSUME NEW n \in DOMAIN props
        PROVE  walkRefs(props[n]) \subseteq Below(L.doc)
    <3>1. walkRefs(props[n]) \subseteq RefsOf(L.doc, root)
      BY <2>1 DEF RefsOf
    <3>2. RefsOf(L.doc, root) \subseteq Below(L.doc)
      BY <2>1 DEF Below
    <3> QED
      BY <3>1, <3>2
  <2> QED
    BY <1>1, <1>2, <1>4, <2>2, <2>3, <2>4 DEF HasShape
<1> QED
  BY <1>5, <1>6

\* Once nothing is behind, nothing comes.
LEMMA DeadEnd ==
    ASSUME NEW layer, NEW root, NEW ns, Len(ns) \in Nat, NEW reader, NEW at,
           Leads(layer, root, ns, reader, at), at[1].msg = None, NEW m \in 2..Len(ns)
    PROVE  at[m].msg = None /\ at[m].field = NoField
<1>1. PICK N \in Nat : N = Len(ns)
  OBVIOUS
<1> DEFINE G == {k \in 0..N : k >= 2 => at[k].msg = None /\ at[k].field = NoField}
<1>2. 0 \in G
  OBVIOUS
<1>3. \A k \in 0..N : k \in G /\ k < N => k + 1 \in G
  <2> SUFFICES ASSUME NEW k \in 0..N, k \in G, k < N, k + 1 >= 2
               PROVE  k + 1 \in G
    OBVIOUS
  <2>1. PICK j, n : j = k + 1 /\ n = ns[k + 1]
    OBVIOUS
  <2>2. j \in 0..N /\ at[j] = Enter(layer, at[k].msg, n, reader)
    BY <1>1, <2>1 DEF Leads
  <2>3. at[k].msg = None
    <3>1. CASE k = 1
      BY <3>1
    <3>2. CASE k # 1
      BY <3>2
    <3> QED
      BY <3>1, <3>2
  <2>4. at[j].msg = None /\ at[j].field = NoField
    BY <2>2, <2>3, NothingBehind
  <2> QED
    BY <2>1, <2>2, <2>4
<1>4. \A k \in 0..N : k \in G
  <2> HIDE DEF G
  <2> QED
    BY <1>2, <1>3, CountUp
<1> QED
  BY <1>1, <1>4

LEMMA StartMessage == \A root : ReachStart(root).msg = root
  BY DEF ReachStart

\* Of what the document does not have, and below a scalar, it has nothing.
LEMMA LeadsInto ==
    ASSUME NEW L, NEW root, NEW props, HasShape(L, root, props),
           NEW ns, Len(ns) \in Nat \ {0}
    PROVE  /\ ns[1] \notin DOMAIN props => FieldOf(L, root, ns, "documented") = NoField
           /\ ns[1] \in DOMAIN props /\ primitiveType(props[ns[1]]) # "" =>
                 FieldOf(L, root, ns, "documented") =
                     IF Len(ns) = 1 THEN Field(props[ns[1]].k, None, "single", FALSE) ELSE NoField
<1>1. PICK N \in Nat : N = Len(ns) /\ N # 0
  OBVIOUS
<1>2. PICK at : Leads(L, root, ns, "documented", at)
  BY <1>1, ReachedIs
<1>3. PICK n : n = ns[1]
  OBVIOUS
<1>4. PICK e : e = at[1] /\ e = Enter(L, root, n, "documented")
  <2>1. PICK z : z = 0
    OBVIOUS
  <2>2. at[z] = ReachStart(root)
    BY <1>2, <2>1 DEF Leads
  <2>3. at[z].msg = root
    BY <2>2, StartMessage
  <2>4. z \in 0..N /\ z < N /\ z + 1 = 1
    BY <1>1, <2>1
  <2>5. at[z + 1] = Enter(L, at[z].msg, ns[z + 1], "documented")
    BY <1>1, <1>2, <2>4 DEF Leads
  <2> QED
    BY <1>3, <2>3, <2>4, <2>5
<1>5. FieldOf(L, root, ns, "documented") = at[N].field
  BY <1>1, <1>2 DEF Leads, FieldOf
<1>6. Lookup(L, root, n, "documented") = n /\ root # "any" /\ root # None
  BY DEF Lookup, HasShape
<1>7. at[N].field = IF N = 1 THEN e.field ELSE at[N].field
  BY <1>4
<1>8. e.msg = None /\ N # 1 => at[N].field = NoField
  <2> SUFFICES ASSUME e.msg = None, N # 1
               PROVE  at[N].field = NoField
    OBVIOUS
  <2>1. N \in 2..N
    BY <1>1
  <2>2. at[1].msg = None
    BY <1>4
  <2> QED
    <3>1. Len(ns) \in Nat
      OBVIOUS
    <3>2. PICK m, reader : m = N /\ reader = "documented"
      OBVIOUS
    <3>3. Leads(L, root, ns, reader, at) /\ m \in 2..Len(ns)
      BY <1>1, <1>2, <2>1, <3>2
    <3>4. at[m].msg = None /\ at[m].field = NoField
      BY <2>2, <3>1, <3>3, DeadEnd
    <3> QED
      BY <3>2, <3>4
<1>9. ASSUME n \notin DOMAIN props
      PROVE  at[N].field = NoField
  <2>1. n \notin DOMAIN L.messages[root]
    BY <1>9 DEF HasShape
  <2>2. e.msg = None /\ e.field = NoField
    BY <1>4, <1>6, <2>1 DEF Enter
  <2> QED
    BY <1>7, <1>8, <2>2
<1>10. ASSUME n \in DOMAIN props, primitiveType(props[n]) # ""
       PROVE  at[N].field = IF N = 1 THEN Field(props[n].k, None, "single", FALSE) ELSE NoField
  <2>1. PICK k, f : k = props[n].k /\ f = Field(k, None, "single", FALSE)
    OBVIOUS
  <2>2. k \in Scalars
    BY <1>10, <2>1 DEF primitiveType
  <2>3. n \in DOMAIN L.messages[root] /\ L.messages[root][n] = f
    BY <1>10, <2>1, <2>2, ScalarField DEF HasShape
  <2>4. f.type = k /\ f.shape = "single"
    BY <2>1 DEF Field
  <2>5. Into(f) = None
    BY <2>2, <2>4 DEF Into, Scalars
  <2>6. e.field = f /\ e.msg = Into(f)
    BY <1>4, <1>6, <2>3 DEF Enter
  <2> QED
    BY <1>7, <1>8, <2>1, <2>5, <2>6
<1> QED
  BY <1>1, <1>3, <1>5, <1>9, <1>10

\* What two layers have in common, and all below it.
InBoth(F, T, S) ==
    /\ Empty \notin S
    /\ Shared(F.doc, T.doc, S)

Common(F, T, S, m) == m \in {"any", None} \/ m \in S \cap DOMAIN F.messages \cap DOMAIN T.messages

LEMMA CommonField ==
    ASSUME NEW F, NEW T, NEW S, NEW f,
           f.type = "message" => f.msg \in S \cap DOMAIN F.messages \cap DOMAIN T.messages
    PROVE  Common(F, T, S, Into(f))
  BY DEF Into, Common

LEMMA CommonEnter ==
    ASSUME NEW F, IsLayer(F), NEW T, IsLayer(T), NEW S, InBoth(F, T, S),
           NEW m, Common(F, T, S, m), NEW n
    PROVE  /\ Enter(F, m, n, "documented") = Enter(T, m, n, "documented")
           /\ Common(F, T, S, Enter(F, m, n, "documented").msg)
<1>1. CASE m = "any"
  <2>1. PICK e : e = Enter(F, m, n, "documented")
    OBVIOUS
  <2>2. e = [msg |-> "any", prop |-> n, field |-> Field("any", None, "single", TRUE)]
    BY <1>1, <2>1 DEF Enter
  <2>3. e.msg = "any"
    BY <2>2
  <2>4. Enter(T, m, n, "documented") = e
    BY <1>1, <2>2 DEF Enter
  <2> QED
    BY <2>1, <2>3, <2>4 DEF Common
<1>2. CASE m = None
  <2>1. Enter(F, m, n, "documented") = Enter(T, m, n, "documented")
    BY <1>2, ShimAssumption DEF Enter
  <2>2. Enter(F, m, n, "documented").msg = None
    BY <1>2, NothingBehind
  <2> QED
    BY <2>1, <2>2 DEF Common
<1>3. CASE m \notin {"any", None}
  <2>1. m \in S /\ m \in DOMAIN F.messages /\ m \in DOMAIN T.messages /\ m # Empty
    BY <1>3 DEF Common, InBoth
  <2>2. /\ IsMessage(F.doc, m) /\ F.messages[m] = buildMessage(F.doc, m)
        /\ IsMessage(T.doc, m) /\ T.messages[m] = buildMessage(T.doc, m)
    BY <2>1 DEF IsLayer
  <2>3. PICK props : /\ props = F.doc.schemas[m].props /\ props = T.doc.schemas[m].props
                     /\ \A p \in DOMAIN props : walkRefs(props[p]) \subseteq S
    BY <2>1, <2>2, SharedComponent DEF InBoth
  <2>4. m \in DOMAIN F.doc.schemas /\ m \in DOMAIN T.doc.schemas
    BY <2>1 DEF InBoth, Shared
  <2>5. /\ DOMAIN F.messages[m] = DOMAIN props /\ DOMAIN T.messages[m] = DOMAIN props
        /\ \A p \in DOMAIN props : /\ F.messages[m][p] = buildField(F.doc, props[p])
                                   /\ T.messages[m][p] = buildField(T.doc, props[p])
    BY <2>2, <2>3, <2>4 DEF buildMessage
  <2>6. /\ Lookup(F, m, n, "documented") = n
        /\ Lookup(T, m, n, "documented") = n
    BY DEF Lookup
  <2>7. CASE n \notin DOMAIN props
    <3>1. PICK e : e = Enter(F, m, n, "documented")
      OBVIOUS
    <3>2. e = [msg |-> None, prop |-> n, field |-> NoField]
      BY <1>3, <2>5, <2>6, <2>7, <3>1 DEF Enter
    <3>3. Enter(T, m, n, "documented") = e
      BY <1>3, <2>5, <2>6, <2>7, <3>2 DEF Enter
    <3>4. e.msg = None
      BY <3>2
    <3> QED
      BY <3>1, <3>3, <3>4 DEF Common
  <2>8. CASE n \in DOMAIN props
    <3>1. PICK f : f = F.messages[m][n]
      OBVIOUS
    <3>2. f = T.messages[m][n] /\ (f.type = "message" => f.msg \in S)
      BY <2>3, <2>5, <2>8, <3>1, SharedField DEF InBoth
    <3>3. f.type = "message" => f.msg \in S \cap DOMAIN F.messages \cap DOMAIN T.messages
      BY <2>1, <2>5, <2>8, <3>1, <3>2 DEF IsLayer
    <3>4. PICK e : e = Enter(F, m, n, "documented")
      OBVIOUS
    <3>5. e = [msg |-> Into(f), prop |-> n, field |-> f]
      BY <1>3, <2>5, <2>6, <2>8, <3>1, <3>4 DEF Enter
    <3>6. Enter(T, m, n, "documented") = e
      BY <1>3, <2>5, <2>6, <2>8, <3>2, <3>5 DEF Enter
    <3>7. e.msg = Into(f)
      BY <3>5
    <3> QED
      BY <3>3, <3>4, <3>6, <3>7, CommonField
  <2> QED
    BY <2>7, <2>8
<1> QED
  BY <1>1, <1>2, <1>3

\* Below a property that both have, names lead to the same.
LEMMA SameBelow ==
    ASSUME NEW F, IsLayer(F), NEW T, IsLayer(T), NEW S, InBoth(F, T, S),
           NEW rf, NEW from, HasShape(F, rf, from), NEW rt, NEW to, HasShape(T, rt, to),
           NEW ns, Len(ns) \in Nat \ {0}, ns[1] \in DOMAIN from \cap DOMAIN to,
           from[ns[1]] = to[ns[1]], walkRefs(from[ns[1]]) \subseteq S
    PROVE  FieldOf(F, rf, ns, "documented") = FieldOf(T, rt, ns, "documented")
<1>1. PICK N \in Nat : N = Len(ns) /\ N # 0
  OBVIOUS
<1>2. PICK at : Leads(F, rf, ns, "documented", at)
  BY <1>1, ReachedIs
<1>3. PICK ta : Leads(T, rt, ns, "documented", ta)
  BY <1>1, ReachedIs
<1>4. PICK n : n = ns[1]
  OBVIOUS
<1>5. /\ Enter(F, rf, n, "documented") = Enter(T, rt, n, "documented")
      /\ Common(F, T, S, Enter(F, rf, n, "documented").msg)
  <2>1. PICK f : f = F.messages[rf][n]
    OBVIOUS
  <2>2. f = T.messages[rt][n] /\ (f.type = "message" => f.msg \in S)
    BY <1>4, <2>1, SharedField DEF HasShape, InBoth
  <2>3. /\ rf \in DOMAIN F.messages /\ n \in DOMAIN F.messages[rf] /\ rf # "any" /\ rf # None
        /\ rt \in DOMAIN T.messages /\ n \in DOMAIN T.messages[rt] /\ rt # "any" /\ rt # None
    BY <1>4 DEF HasShape
  <2>4. f.type = "message" => f.msg \in S \cap DOMAIN F.messages \cap DOMAIN T.messages
    BY <2>1, <2>2, <2>3 DEF IsLayer
  <2>5. Lookup(F, rf, n, "documented") = n /\ Lookup(T, rt, n, "documented") = n
    BY DEF Lookup
  <2>6. PICK e : e = Enter(F, rf, n, "documented")
    OBVIOUS
  <2>7. e = [msg |-> Into(f), prop |-> n, field |-> f]
    BY <2>1, <2>3, <2>5, <2>6 DEF Enter
  <2>8. Enter(T, rt, n, "documented") = e
    BY <2>2, <2>3, <2>5, <2>7 DEF Enter
  <2>9. e.msg = Into(f)
    BY <2>7
  <2> QED
    BY <2>4, <2>6, <2>8, <2>9, CommonField
<1> DEFINE G == {k \in 0..N : k # 0 => at[k] = ta[k] /\ Common(F, T, S, at[k].msg)}
<1>6. 0 \in G
  OBVIOUS
<1>7. \A k \in 0..N : k \in G /\ k < N => k + 1 \in G
  <2> SUFFICES ASSUME NEW k \in 0..N, k \in G, k < N
               PROVE  k + 1 \in G
    OBVIOUS
  <2>1. PICK j, x : j = k + 1 /\ x = ns[k + 1]
    OBVIOUS
  <2>2. /\ j \in 0..N
        /\ at[j] = Enter(F, at[k].msg, x, "documented")
        /\ ta[j] = Enter(T, ta[k].msg, x, "documented")
    BY <1>1, <1>2, <1>3, <2>1 DEF Leads
  <2>3. CASE k = 0
    <3>1. at[k] = ReachStart(rf) /\ ta[k] = ReachStart(rt) /\ x = n
      BY <1>2, <1>3, <1>4, <2>1, <2>3 DEF Leads
    <3>2. at[k].msg = rf /\ ta[k].msg = rt
      BY <3>1, StartMessage
    <3>3. at[j] = ta[j] /\ Common(F, T, S, at[j].msg)
      BY <1>5, <2>2, <3>1, <3>2
    <3> QED
      BY <2>1, <2>2, <3>3
  <2>4. CASE k # 0
    <3>1. at[k] = ta[k] /\ Common(F, T, S, at[k].msg)
      BY <2>4
    <3>2. at[j] = ta[j] /\ Common(F, T, S, at[j].msg)
      BY <2>2, <3>1, CommonEnter
    <3> QED
      BY <2>1, <2>2, <3>2
  <2> QED
    BY <2>3, <2>4
<1>8. N \in G
  <2> HIDE DEF G
  <2>1. N \in 0..N
    OBVIOUS
  <2> QED
    BY <1>6, <1>7, <2>1, CountUp
<1> QED
  BY <1>1, <1>2, <1>3, <1>8 DEF Leads, FieldOf

-----------------------------------------------------------------------------
(* From one layer to another *)

\* What comes, goes or changes is primitive.
Plain(from, to) ==
    \A n \in DOMAIN from \cup DOMAIN to :
        \/ n \in DOMAIN from \cap DOMAIN to /\ from[n] = to[n]
        \/ /\ n \in DOMAIN from => primitiveType(from[n]) # ""
           /\ n \in DOMAIN to   => primitiveType(to[n]) # ""

\* A layer has the properties of props at the top of root, and below the
\* primitive ones nothing.
Tops(L, root, props) ==
    \A q \in Positions \ {<<>>} :
        LET n == q[1].name
            f == FieldOf(L, root, NamesOf(q), "documented")
        IN  /\ n \notin DOMAIN props => f = NoField
            /\ n \in DOMAIN props /\ primitiveType(props[n]) # "" =>
                  f = IF Len(q) = 1 THEN Field(props[n].k, None, "single", FALSE) ELSE NoField

\* What a body meets on its way from one to the other.
Route(F, rf, from, T, rt, to) ==
    /\ Plain(from, to)
    /\ Tops(F, rf, from) /\ Tops(T, rt, to)
    /\ \A q \in Positions \ {<<>>} :
          q[1].name \in DOMAIN from \cap DOMAIN to /\ from[q[1].name] = to[q[1].name] =>
              FieldOf(F, rf, NamesOf(q), "documented") = FieldOf(T, rt, NamesOf(q), "documented")

LEMMA NamesFacts ==
    ASSUME NEW q \in Positions, q # <<>>
    PROVE  /\ Len(q) \in Nat \ {0} /\ Len(NamesOf(q)) = Len(q)
           /\ NamesOf(q)[1] = q[1].name
<1>1. Len(q) \in Nat \ {0} /\ DOMAIN q = 1..Len(q)
  BY PositionFacts
<1>2. PICK n \in Nat : n = Len(q)
  BY <1>1
<1>3. NamesOf(q) = [i \in 1..n |-> q[i].name]
  BY <1>1, <1>2 DEF NamesOf
<1>4. Len(NamesOf(q)) = n
  BY <1>2, <1>3, ListIsSeq DEF Listed, IsSeq
<1>5. PICK o : o = 1
  OBVIOUS
<1>6. o \in 1..n
  BY <1>1, <1>2, <1>5
<1>7. NamesOf(q)[o] = q[o].name
  BY <1>3, <1>6
<1> QED
  BY <1>1, <1>2, <1>4, <1>5, <1>7

LEMMA TopsFollow ==
    ASSUME NEW L, NEW root, NEW props, HasShape(L, root, props)
    PROVE  Tops(L, root, props)
<1> SUFFICES ASSUME NEW q \in Positions \ {<<>>}
             PROVE  LET n == q[1].name
                        f == FieldOf(L, root, NamesOf(q), "documented")
                    IN  /\ n \notin DOMAIN props => f = NoField
                        /\ n \in DOMAIN props /\ primitiveType(props[n]) # "" =>
                              f = IF Len(q) = 1 THEN Field(props[n].k, None, "single", FALSE) ELSE NoField
  BY DEF Tops
<1>1. PICK ns, n : ns = NamesOf(q) /\ n = q[1].name
  OBVIOUS
<1>2. Len(ns) = Len(q) /\ Len(ns) \in Nat \ {0} /\ ns[1] = n
  BY <1>1, NamesFacts
<1>3. /\ ns[1] \notin DOMAIN props => FieldOf(L, root, ns, "documented") = NoField
      /\ ns[1] \in DOMAIN props /\ primitiveType(props[ns[1]]) # "" =>
            FieldOf(L, root, ns, "documented") =
                IF Len(ns) = 1 THEN Field(props[ns[1]].k, None, "single", FALSE) ELSE NoField
  BY <1>2, LeadsInto
<1> QED
  BY <1>1, <1>2, <1>3

LEMMA RouteFollows ==
    ASSUME NEW F, IsLayer(F), NEW T, IsLayer(T), NEW S, InBoth(F, T, S),
           NEW rf, NEW from, HasShape(F, rf, from), NEW rt, NEW to, HasShape(T, rt, to),
           Plain(from, to),
           \A n \in DOMAIN from \cap DOMAIN to : from[n] = to[n] => walkRefs(from[n]) \subseteq S
    PROVE  Route(F, rf, from, T, rt, to)
<1>1. Tops(F, rf, from) /\ Tops(T, rt, to)
  BY TopsFollow
<1>2. ASSUME NEW q \in Positions \ {<<>>},
             q[1].name \in DOMAIN from \cap DOMAIN to, from[q[1].name] = to[q[1].name]
      PROVE  FieldOf(F, rf, NamesOf(q), "documented") = FieldOf(T, rt, NamesOf(q), "documented")
  <2>1. PICK ns, n : ns = NamesOf(q) /\ n = q[1].name
    OBVIOUS
  <2>2. Len(ns) \in Nat \ {0} /\ ns[1] = n
    BY <2>1, NamesFacts
  <2>3. n \in DOMAIN from \cap DOMAIN to /\ from[n] = to[n] /\ walkRefs(from[n]) \subseteq S
    BY <1>2, <2>1
  <2>4. FieldOf(F, rf, ns, "documented") = FieldOf(T, rt, ns, "documented")
    BY <2>2, <2>3, SameBelow
  <2> QED
    BY <2>1, <2>4
<1> QED
  BY <1>1, <1>2 DEF Route

\* What PlainDrift says of one side.
DriftsPlainly(old, new, was, is) ==
    /\ Plain(was, is)
    /\ \A c \in Below(old.doc) :
          /\ c \in DOMAIN old.doc.schemas \cap DOMAIN new.doc.schemas
          /\ old.doc.schemas[c] = new.doc.schemas[c]
    /\ Empty \notin DOMAIN old.doc.schemas \cup DOMAIN new.doc.schemas

LEMMA BelowIsShared ==
    ASSUME NEW old, NEW new, NEW was, NEW is, DriftsPlainly(old, new, was, is)
    PROVE  InBoth(old, new, Below(old.doc)) /\ InBoth(new, old, Below(old.doc))
<1> DEFINE S == Below(old.doc)
<1>1. \A c \in S : /\ c \in DOMAIN old.doc.schemas /\ c \in DOMAIN new.doc.schemas
                   /\ old.doc.schemas[c] = new.doc.schemas[c]
  BY DEF DriftsPlainly
<1>2. \A c \in S : RefsOf(old.doc, c) \subseteq S
  BY <1>1 DEF Below
<1>3. \A c \in S : RefsOf(new.doc, c) = RefsOf(old.doc, c)
  BY <1>1 DEF RefsOf, IsMessage
<1>4. Empty \notin S
  BY <1>1 DEF DriftsPlainly
<1> HIDE DEF S
<1> QED
  BY <1>1, <1>2, <1>3, <1>4 DEF InBoth, Shared, S

\* Both directions between two layers.
LEMMA RoutesFollow ==
    ASSUME NEW old, IsLayer(old), Cardinality(old.doc.ops) = 1,
           NEW new, IsLayer(new), Cardinality(new.doc.ops) = 1,
           NEW sideO, sideO \in {RequestSide(old), ResponseSide(old)},
           NEW sideN, sideN \in {RequestSide(new), ResponseSide(new)},
           NEW was, was = PropertiesOf(old.doc, sideO),
           NEW is, is = PropertiesOf(new.doc, sideN),
           DriftsPlainly(old, new, was, is)
    PROVE  /\ DOMAIN was \subseteq Ordered /\ DOMAIN is \subseteq Ordered
           /\ Route(old, BoundTo(sideO), was, new, BoundTo(sideN), is)
           /\ Route(new, BoundTo(sideN), is, old, BoundTo(sideO), was)
<1>1. Empty \notin DOMAIN old.doc.schemas /\ Empty \notin DOMAIN new.doc.schemas
  BY DEF DriftsPlainly
<1>2. PICK ro, rn : ro = BoundTo(sideO) /\ rn = BoundTo(sideN)
  OBVIOUS
<1>3. /\ HasShape(old, ro, was) /\ DOMAIN was \subseteq Ordered
      /\ \A n \in DOMAIN was : walkRefs(was[n]) \subseteq Below(old.doc)
  BY <1>1, <1>2, ShapeOfSide
<1>4. HasShape(new, rn, is) /\ DOMAIN is \subseteq Ordered
  BY <1>1, <1>2, ShapeOfSide
<1>5. PICK S : S = Below(old.doc) /\ InBoth(old, new, S) /\ InBoth(new, old, S)
  BY BelowIsShared
<1>6. Plain(was, is) /\ Plain(is, was)
  BY DEF DriftsPlainly, Plain
<1>7. Route(old, ro, was, new, rn, is)
  BY <1>3, <1>4, <1>5, <1>6, RouteFollows
<1>8. Route(new, rn, is, old, ro, was)
  <2>1. \A n \in DOMAIN is \cap DOMAIN was : is[n] = was[n] => walkRefs(is[n]) \subseteq S
    BY <1>3, <1>5
  <2> QED
    BY <1>3, <1>4, <1>5, <1>6, <2>1, RouteFollows
<1> QED
  BY <1>2, <1>3, <1>4, <1>7, <1>8

-----------------------------------------------------------------------------
(* A stanza on a field at the top *)

LEMMA RootPosition == <<>> \in Positions /\ Len(<<>>) = 0
  BY DEF Positions

LEMMA EmptyPosition ==
    ASSUME NEW q \in Positions, Len(q) = 0
    PROVE  q = <<>>
  BY RootPosition, SamePosition

LEMMA TopFacts ==
    ASSUME NEW n \in Names
    PROVE  /\ At(<<>>, n) \in Positions /\ Len(At(<<>>, n)) = 1 /\ At(<<>>, n) # <<>>
           /\ At(<<>>, n)[1] = [name |-> n, idx |-> 0]
           /\ At(<<>>, n)[1].name = n
<1>1. PICK q, t : q = <<>> /\ t = At(<<>>, n) /\ q \in Positions /\ Len(q) = 0
  BY RootPosition
<1>2. t \in Positions /\ Len(t) = Len(q) + 1 /\ t[Len(q) + 1] = [name |-> n, idx |-> 0]
  BY <1>1, AtFacts
<1>3. Len(t) = 1 /\ t[1] = [name |-> n, idx |-> 0]
  BY <1>1, <1>2
<1> QED
  BY <1>1, <1>2, <1>3

LEMMA IsTop ==
    ASSUME NEW q \in Positions, Len(q) = 1, q[1].idx = 0
    PROVE  q[1].name \in Names /\ q = At(<<>>, q[1].name)
<1>1. PICK o : o = 1
  OBVIOUS
<1>2. q[o] \in Step /\ q[o].idx = 0
  BY <1>1, PositionFacts
<1>3. PICK n, t : n = q[1].name /\ t = At(<<>>, n)
  OBVIOUS
<1>4. n \in Names /\ q[o] = [name |-> n, idx |-> 0]
  BY <1>1, <1>2, <1>3 DEF Step
<1>5. t \in Positions /\ Len(t) = 1 /\ t[1] = [name |-> n, idx |-> 0]
  BY <1>3, <1>4, TopFacts
<1>6. \A i \in 1..1 : q[i] = t[i]
  BY <1>1, <1>4, <1>5
<1>7. q = t
  BY <1>5, <1>6, SamePosition
<1> QED
  BY <1>3, <1>4, <1>7

LEMMA BareFacts ==
    ASSUME NEW n
    PROVE  Len(Bare(n)) = 1 /\ Leaf(Bare(n)) = n /\ Bare(n)[1] = [name |-> n, array |-> FALSE]
           /\ Bare(n)[1].name = n
  BY DEF Bare, Leaf

LEMMA BareParents ==
    ASSUME NEW b, IsBody(b), IsObject(b), NEW n
    PROVE  Parents(b, Bare(n)) = {<<>>}
<1>1. PICK p : p = Bare(n) /\ Len(p) = 1
  BY BareFacts
<1>2. Parents(b, p) = Met(b, p, 0)
  BY <1>1 DEF Parents
<1>3. ASSUME NEW q \in Met(b, p, 0) PROVE q = <<>>
  <2>1. q \in Positions /\ Len(q) = 0
    BY DEF Met, IsBody
  <2> QED
    BY <2>1, EmptyPosition
<1>4. <<>> \in Met(b, p, 0)
  <2>1. PICK e : e = <<>> /\ Len(e) = 0
    OBVIOUS
  <2>2. e \in DOMAIN b /\ b[e].k = "obj"
    BY <2>1 DEF IsObject
  <2>3. Along(e, p)
    BY <1>1, <2>1 DEF Along
  <2> QED
    BY <2>1, <2>2, <2>3 DEF Met
<1> QED
  BY <1>1, <1>2, <1>3, <1>4

\* There is no way to the field that could fail.
LEMMA BareWalks ==
    ASSUME NEW b, NEW n, NEW optional
    PROVE  ~ walkLeavesFails(b, Bare(n), optional) /\ ~ ensureObjectsFails(b, Bare(n))
<1>1. Len(Bare(n)) = 1
  BY BareFacts
<1>2. 1..1 - 1 = {}
  OBVIOUS
<1> QED
  BY <1>1, <1>2 DEF walkLeavesFails, ensureObjectsFails

\* What stands under a name.
LEMMA MovedUnder ==
    ASSUME NEW b, IsBody(b), IsObject(b), NEW op, IsRename(op), NEW r, op.from = Bare(r),
           NEW q \in DOMAIN b, q # <<>>
    PROVE  q \in Leaves(b, op) <=> q[1].name = r
<1>1. q \in Positions /\ Len(q) \in Nat
  BY PositionFacts DEF IsBody
<1>2. Len(q) # 0
  BY <1>1, EmptyPosition
<1>3. Len(op.from) = 1 /\ Leaf(op.from) = r /\ Parents(b, op.from) = {<<>>}
  <2>1. Len(op.from) = 1 /\ Leaf(op.from) = r
    BY BareFacts
  <2>2. Parents(b, Bare(r)) = {<<>>}
    BY BareParents
  <2> QED
    BY <2>1, <2>2
<1>4. PICK z : z = 0
  OBVIOUS
<1>5. Upto(q, z) \in Positions /\ Len(Upto(q, z)) = z
  <2>1. z \in 0..Len(q)
    BY <1>1, <1>4
  <2> QED
    BY <1>1, <2>1, UptoFacts
<1>6. Upto(q, 0) = <<>>
  BY <1>4, <1>5, EmptyPosition
<1>7. Moved(b, q, op) <=> q[1].name = r
  BY <1>1, <1>2, <1>3, <1>6 DEF Moved
<1> QED
  BY <1>7 DEF Leaves

-----------------------------------------------------------------------------
(* A body on its way *)

\* A value for a field of primitive type k.
Holds(k, node) == Takes(Field(k, None, "single", FALSE), node, 0)

LEMMA HoldsMeans ==
    ASSUME NEW k \in Scalars, NEW node
    PROVE  Holds(k, node) <=>
              \/ node.k = "null"
              \/ k = "string" /\ node.k = "str"
              \/ k = "boolean" /\ node.k = "bool"
              \/ k \in {"int32", "int64"} /\
                    (node.k \in NumberKinds \/ (node.k = "str" /\ node.v \in DOMAIN ParseFloat \ NonFinite))
              \/ k \in {"float", "double"} /\
                    (node.k \in NumberKinds \/ (node.k = "str" /\ node.v \in DOMAIN ParseFloat))
<1>1. PICK f : f = Field(k, None, "single", FALSE)
  OBVIOUS
<1>2. f.type = k /\ f.shape = "single"
  BY <1>1 DEF Field
<1> QED
  BY <1>1, <1>2 DEF Holds, Takes, Scalars

LEMMA ZeroHolds ==
    ASSUME NEW s, primitiveType(s) # ""
    PROVE  primitiveType(s) \in Scalars /\ Holds(primitiveType(s), zeroForSchema(s))
<1>1. s.k \in Scalars /\ primitiveType(s) = s.k
  BY DEF primitiveType
<1>2. PICK k, z : k = s.k /\ z = zeroForSchema(s)
  OBVIOUS
<1>3. CASE k = "boolean"
  <2>1. z = [k |-> "bool", v |-> "false"]
    BY <1>2, <1>3 DEF zeroForSchema
  <2>2. z.k = "bool"
    BY <2>1
  <2> QED
    BY <1>1, <1>2, <1>3, <2>2, HoldsMeans
<1>4. CASE k = "string"
  <2>1. z = [k |-> "str", v |-> ""]
    BY <1>2, <1>4 DEF zeroForSchema, Scalars
  <2>2. z.k = "str"
    BY <2>1
  <2> QED
    BY <1>1, <1>2, <1>4, <2>2, HoldsMeans
<1>5. CASE k \in Scalars \ {"string", "boolean"}
  <2>1. z = [k |-> "int", v |-> "0"]
    BY <1>2, <1>5 DEF zeroForSchema, Scalars
  <2>2. z.k \in NumberKinds
    BY <2>1 DEF NumberKinds
  <2>3. k \in {"int32", "int64"} \/ k \in {"float", "double"}
    BY <1>5 DEF Scalars
  <2> QED
    BY <1>1, <1>2, <2>2, <2>3, HoldsMeans
<1> QED
  BY <1>1, <1>2, <1>3, <1>4, <1>5

LEMMA CoercedHolds ==
    ASSUME NEW k \in Scalars, NEW node, Coercible(node, JSONType(k))
    PROVE  Holds(k, coerce(node, JSONType(k)))
<1>1. PICK c : c = coerce(node, JSONType(k))
  OBVIOUS
<1>2. CASE k = "string"
  <2>1. c = [k |-> "str", v |-> node.v]
    BY <1>1, <1>2 DEF coerce, JSONType
  <2>2. c.k = "str"
    BY <2>1
  <2> QED
    BY <1>1, <1>2, <2>2, HoldsMeans
<1>3. CASE k = "boolean"
  <2>1. c = [k |-> "bool", v |-> node.v]
    BY <1>1, <1>3 DEF coerce, JSONType
  <2>2. c.k = "bool"
    BY <2>1
  <2> QED
    BY <1>1, <1>3, <2>2, HoldsMeans
<1>4. CASE k \notin {"string", "boolean"}
  <2>1. c = [k |-> "num", v |-> IF node.k = "num" THEN node.v ELSE ParseFloat[node.v]]
    BY <1>1, <1>4 DEF coerce, JSONType
  <2>2. c.k \in NumberKinds
    BY <2>1 DEF NumberKinds
  <2>3. k \in {"int32", "int64"} \/ k \in {"float", "double"}
    BY <1>4 DEF Scalars
  <2> QED
    BY <1>1, <2>2, <2>3, HoldsMeans
<1> QED
  BY <1>2, <1>3, <1>4

\* A scalar is no array: at its place there is nothing but a value.
LEMMA HoldsNoArray ==
    ASSUME NEW k \in Scalars, NEW node, Holds(k, node)
    PROVE  node.k \notin {"arr", "obj"}
  BY HoldsMeans DEF NumberKinds

\* json.Unmarshal gives no value another type.
LEMMA UnmarshalTakes ==
    ASSUME NEW b, IsJSON(b), NEW q \in DOMAIN b, NEW f, NEW i, Takes(f, b[q], i)
    PROVE  Takes(f, Unmarshal(b)[q], i)
<1>1. CASE b[q].k \notin NumberKinds
  <2>1. Unmarshal(b)[q] = b[q]
    BY <1>1 DEF Unmarshal
  <2> QED
    BY <2>1
<1>2. CASE b[q].k \in NumberKinds
  <2>1. PICK u : u = Unmarshal(b)[q]
    OBVIOUS
  <2>2. u.k \in NumberKinds
    BY <1>2, <2>1 DEF Unmarshal, NumberKinds
  <2>3. Takes(f, u, i)
    BY <1>2, <2>2 DEF Takes, NumberKinds
  <2> QED
    BY <2>1, <2>3
<1> QED
  BY <1>1, <1>2

\* A stanza to come takes the field of that name; a stanza before has left it.
ToCome(list, i, n) == \E j \in i..Len(list) : list[j].verb \in {"rename", "coerce"} /\ ReadBy(list[j]) = n

Behind(list, i, n) == \E j \in 1..i - 1 : WrittenBy(list[j]) = n

\* What a field of a primitive type is, when stanza i is next.
Due(list, from, to, i, n, k) ==
    /\ k \in Scalars
    /\ \/ n \in DOMAIN from /\ k = primitiveType(from[n]) /\ ToCome(list, i, n)
       \/ n \in DOMAIN to /\ k = primitiveType(to[n]) /\ Behind(list, i, n)
       \/ n \in DOMAIN from \cap DOMAIN to /\ k = primitiveType(from[n]) /\ k = primitiveType(to[n])

\* What nobody touches is as it came, what somebody does is of the old type
\* before and of the new one behind.
Stays(b, F, rf, from, to, q) ==
    /\ q[1].name \in DOMAIN from \cap DOMAIN to /\ from[q[1].name] = to[q[1].name]
    /\ LET f == FieldOf(F, rf, NamesOf(q), "documented")
       IN  f # NoField /\ Takes(f, b[q], q[Len(q)].idx)

Passes(b, list, from, to, i, q) ==
    q[1].idx = 0 /\ Len(q) = 1 /\ \E k : Due(list, from, to, i, q[1].name, k) /\ Holds(k, b[q])

Underway(b, list, F, rf, from, to, i) ==
    \A q \in DOMAIN b \ {<<>>} : Stays(b, F, rf, from, to, q) \/ Passes(b, list, from, to, i, q)

Taken(s, n) == s.verb \in {"rename", "coerce"} /\ ReadBy(s) = n

LEMMA DueGoesOn ==
    ASSUME NEW list, Len(list) \in Nat, NEW from, NEW to, NEW i \in 1..Len(list), NEW n, NEW k,
           Due(list, from, to, i, n, k), ~ Taken(list[i], n)
    PROVE  Due(list, from, to, i + 1, n, k)
<1>1. ToCome(list, i, n) => ToCome(list, i + 1, n)
  <2> SUFFICES ASSUME NEW j \in i..Len(list), list[j].verb \in {"rename", "coerce"}, ReadBy(list[j]) = n
               PROVE  ToCome(list, i + 1, n)
    BY DEF ToCome
  <2>1. j # i
    BY DEF Taken
  <2>2. j \in i + 1..Len(list)
    BY <2>1
  <2> QED
    BY <2>2 DEF ToCome
<1>2. Behind(list, i, n) => Behind(list, i + 1, n)
  BY DEF Behind
<1> QED
  BY <1>1, <1>2 DEF Due

\* What a stanza leaves alone goes on.
LEMMA GoesOn ==
    ASSUME NEW list, Len(list) \in Nat, NEW from, NEW to, NEW F, NEW rf, NEW i \in 1..Len(list),
           NEW b, NEW c, NEW q, c[q] = b[q], ~ Taken(list[i], q[1].name),
           Stays(b, F, rf, from, to, q) \/ Passes(b, list, from, to, i, q)
    PROVE  Stays(c, F, rf, from, to, q) \/ Passes(c, list, from, to, i + 1, q)
<1>1. CASE Stays(b, F, rf, from, to, q)
  BY <1>1 DEF Stays
<1>2. CASE Passes(b, list, from, to, i, q)
  <2>1. PICK k : Due(list, from, to, i, q[1].name, k) /\ Holds(k, b[q])
    BY <1>2 DEF Passes
  <2>2. Due(list, from, to, i + 1, q[1].name, k)
    BY <2>1, DueGoesOn
  <2> QED
    BY <1>2, <2>1, <2>2 DEF Passes
<1> QED
  BY <1>1, <1>2

LEMMA DueBehind ==
    ASSUME NEW list, NEW from, NEW to, Len(list) \in Nat, NEW i \in 1..Len(list), NEW n,
           WrittenBy(list[i]) = n, n \in DOMAIN to, primitiveType(to[n]) \in Scalars
    PROVE  Due(list, from, to, i + 1, n, primitiveType(to[n]))
<1>1. i \in 1..(i + 1) - 1
  OBVIOUS
<1>2. Behind(list, i + 1, n)
  BY <1>1 DEF Behind
<1> QED
  BY <1>2 DEF Due

LEMMA RenameGoesOn ==
    ASSUME NEW list, Len(list) \in Nat, NEW from, NEW to, NEW F, NEW rf, NEW i \in 1..Len(list),
           NEW b, IsBody(b), IsObject(b), Underway(b, list, F, rf, from, to, i),
           NEW r, NEW a, NEW s, s = list[i], IsRenameOf(s, r, a, from, to), Stanza(s)
    PROVE  Underway(Rename(b, s), list, F, rf, from, to, i + 1)
<1> DEFINE c == Rename(b, s)
<1>1. /\ s.verb = "rename" /\ s.from = Bare(r) /\ s.to = Bare(a) /\ ReadBy(s) = r /\ WrittenBy(s) = a
  <2>1. s = RenameStanza(r, a)
    BY DEF IsRenameOf
  <2> QED
    BY <2>1, StanzaNames
<1>2. /\ r \in DOMAIN from \ DOMAIN to /\ a \in DOMAIN to \ DOMAIN from /\ r # a
      /\ primitiveType(from[r]) = primitiveType(to[a])
  BY DEF IsRenameOf
<1>3. IsRename(s)
  BY <1>1, StanzaCases DEF IsRename
<1>4. /\ Len(s.from) = 1 /\ Leaf(s.from) = r /\ Leaf(s.to) = a
  BY <1>1, BareFacts
<1>5. r \in Names /\ a \in Names
  BY <1>3, <1>4, RenamePaths
<1>6. DOMAIN b \subseteq Positions
  BY DEF IsBody
<1> SUFFICES ASSUME NEW q \in DOMAIN c \ {<<>>}
             PROVE  Stays(c, F, rf, from, to, q) \/ Passes(c, list, from, to, i + 1, q)
  BY DEF Underway
<1>7. CASE q \in Staying(b, s)
  <2>1. q \in DOMAIN b /\ q # <<>> /\ q \notin Leaves(b, s) /\ c[q] = b[q]
    BY <1>7, RenameAt DEF Staying
  <2>2. q[1].name # r
    BY <1>1, <1>3, <2>1, MovedUnder
  <2>3. ~ Taken(list[i], q[1].name)
    BY <1>1, <2>2 DEF Taken
  <2>4. Stays(b, F, rf, from, to, q) \/ Passes(b, list, from, to, i, q)
    BY <2>1 DEF Underway
  <2> HIDE DEF c
  <2> QED
    BY <2>1, <2>3, <2>4, GoesOn
<1>8. CASE q \in Landing(b, s) /\ q \notin Staying(b, s)
  <2>1. PICK m : m = Relabel(q, 1, r)
    OBVIOUS
  <2>2. /\ q \in Positions /\ m \in Leaves(b, s) /\ Relabel(m, 1, a) = q /\ q[1].name = a
    BY <1>3, <1>4, <1>8, <2>1, LandedFacts
  <2>3. m \in DOMAIN b /\ m \in Positions /\ 1 \in 1..Len(m) /\ m[1].name = r
    BY <1>3, <1>4, <2>2, MovedFacts
  <2>4. m # <<>>
    BY <2>3, RootPosition
  <2>5. c[q] = b[m]
    <3>1. Rename(b, s)[q] = b[Relabel(q, Len(s.from), Leaf(s.from))]
      BY <1>8, RenameAt
    <3> QED
      BY <1>4, <2>1, <3>1
  <2>6. ~ Stays(b, F, rf, from, to, m)
    BY <1>2, <2>3 DEF Stays
  <2>7. Passes(b, list, from, to, i, m)
    BY <2>3, <2>4, <2>6 DEF Underway
  <2>8. PICK k : Due(list, from, to, i, r, k) /\ Holds(k, b[m])
    BY <2>3, <2>7 DEF Passes
  <2>9. k = primitiveType(to[a]) /\ k \in Scalars
    BY <1>2, <2>8 DEF Due
  <2>10. Due(list, from, to, i + 1, a, k)
    BY <1>1, <1>2, <2>9, DueBehind
  <2>11. m[1].idx = 0 /\ Len(m) = 1
    BY <2>7 DEF Passes
  <2>12. q[1].idx = 0 /\ Len(q) = 1
    <3>1. PICK o : o = 1 /\ o \in 1..Len(m) /\ Relabel(m, o, a) = q
      BY <2>2, <2>3
    <3>2. Len(q) = Len(m) /\ q[o].idx = m[o].idx
      BY <1>5, <2>3, <3>1, RelabelFacts
    <3> QED
      BY <2>11, <3>1, <3>2
  <2> HIDE DEF c
  <2> QED
    BY <2>2, <2>5, <2>8, <2>10, <2>12 DEF Passes
<1> QED
  BY <1>7, <1>8, RenameAt

LEMMA CoerceGoesOn ==
    ASSUME NEW list, Len(list) \in Nat, NEW from, NEW to, NEW F, NEW rf, NEW i \in 1..Len(list),
           NEW b, IsBody(b), IsObject(b), Underway(b, list, F, rf, from, to, i),
           NEW n, NEW s, s = list[i], IsCoercion(s, n, from, to), Stanza(s),
           NEW optional, ~ CoerceFails(b, s, optional)
    PROVE  Underway(Coerce(b, s), list, F, rf, from, to, i + 1)
<1> DEFINE c == Coerce(b, s)
<1>1. /\ s.verb = "coerce" /\ s.field = Bare(n) /\ s.to = JSONType(primitiveType(to[n]))
      /\ n \in DOMAIN from \cap DOMAIN to
      /\ primitiveType(from[n]) # primitiveType(to[n]) /\ primitiveType(to[n]) \in Scalars
  BY DEF IsCoercion, Retyped, primitiveType
<1>2. IsCoerce(s)
  BY <1>1, StanzaCases DEF IsCoerce
<1>3. Len(s.field) = 1 /\ Leaf(s.field) = n
  BY <1>1, BareFacts
<1>4. ReadBy(s) = n /\ WrittenBy(s) = n
  BY <1>1, <1>3 DEF ReadBy, WrittenBy
<1>5. Coerced(b, s) = {At(<<>>, n)}
  <2>1. Parents(b, s.field) = {<<>>}
    BY <1>1, BareParents
  <2> QED
    BY <1>3, <2>1 DEF Coerced
<1>6. n \in Names
  BY <1>2, <1>3, PathFacts DEF IsCoerce
<1> SUFFICES ASSUME NEW q \in DOMAIN c \ {<<>>}
             PROVE  Stays(c, F, rf, from, to, q) \/ Passes(c, list, from, to, i + 1, q)
  BY DEF Underway
<1>7. q \in DOMAIN b /\ q # <<>> /\ q \in Positions
  BY CoerceShape DEF IsBody
<1>8. Stays(b, F, rf, from, to, q) \/ Passes(b, list, from, to, i, q)
  BY <1>7 DEF Underway
<1>9. CASE q = At(<<>>, n)
  <2>1. q[1].name = n /\ q[1].idx = 0 /\ Len(q) = 1
    <3>1. PICK t : t = At(<<>>, n) /\ Len(t) = 1 /\ t[1] = [name |-> n, idx |-> 0]
      BY <1>6, TopFacts
    <3> QED
      BY <1>9, <3>1
  <2>2. Coercible(b[q], s.to)
    BY <1>2, <1>5, <1>7, <1>9, CoercedFacts
  <2>3. c[q] = coerce(b[q], s.to)
    BY <1>5, <1>7, <1>9, CoerceShape
  <2>4. PICK k : k = primitiveType(to[n]) /\ k \in Scalars
    BY <1>1
  <2>5. Holds(k, coerce(b[q], JSONType(k)))
    BY <1>1, <2>2, <2>4, CoercedHolds
  <2>6. Due(list, from, to, i + 1, n, k)
    BY <1>1, <1>4, <2>4, DueBehind
  <2> HIDE DEF c
  <2> QED
    BY <1>1, <2>1, <2>3, <2>4, <2>5, <2>6 DEF Passes
<1>10. CASE q # At(<<>>, n)
  <2>1. c[q] = b[q]
    BY <1>5, <1>7, <1>10, CoerceShape
  <2>2. q[1].name # n
    <3> SUFFICES ASSUME q[1].name = n PROVE FALSE
      OBVIOUS
    <3>1. ~ Stays(b, F, rf, from, to, q)
      BY <1>1 DEF Stays
    <3>2. q[1].idx = 0 /\ Len(q) = 1
      BY <1>8, <3>1 DEF Passes
    <3> QED
      BY <1>7, <1>10, <3>2, IsTop
  <2>3. ~ Taken(list[i], q[1].name)
    BY <1>4, <2>2 DEF Taken
  <2> HIDE DEF c
  <2> QED
    BY <1>8, <2>1, <2>3, GoesOn
<1> QED
  BY <1>9, <1>10

LEMMA DefaultGoesOn ==
    ASSUME NEW list, Len(list) \in Nat, NEW from, NEW to, NEW F, NEW rf, NEW i \in 1..Len(list),
           NEW b, IsBody(b), IsObject(b), Underway(b, list, F, rf, from, to, i), Plain(from, to),
           NEW a, NEW s, s = list[i], IsDefaultOf(s, a, from, to), Stanza(s)
    PROVE  Underway(Default(b, s), list, F, rf, from, to, i + 1)
<1> DEFINE c == Default(b, s)
<1>1. /\ s.verb = "default" /\ s.field = Bare(a) /\ s.value = zeroForSchema(to[a]) /\ WrittenBy(s) = a
      /\ a \in DOMAIN to \ DOMAIN from
  BY StanzaNames DEF IsDefaultOf
<1>2. IsDefault(s)
  BY <1>1, StanzaCases DEF IsDefault
<1>3. Len(s.field) = 1 /\ s.field[1].name = a
  BY <1>1, BareFacts
<1>4. primitiveType(to[a]) # ""
  BY <1>1 DEF Plain
<1> SUFFICES ASSUME NEW q \in DOMAIN c \ {<<>>}
             PROVE  Stays(c, F, rf, from, to, q) \/ Passes(c, list, from, to, i + 1, q)
  BY DEF Underway
<1>5. CASE q \in Created(b, s)
  <2>1. PICK k, m, p : Hangs(b, s.field, q, p, k, m)
    BY <1>5, CreatedMeans
  <2>2. s.field \in Path
    BY <1>2 DEF IsDefault
  <2>3. /\ Len(q) = m /\ m \in Nat /\ k \in Nat /\ k > 0 /\ k <= m /\ m <= 1
        /\ \A j \in k..m : q[j] = [name |-> s.field[j].name, idx |-> 0]
    BY <1>3, <2>1, <2>2, HangsFacts
  <2>4. PICK o : o = 1 /\ k = o /\ m = o
    BY <2>3
  <2>5. q[o] = [name |-> a, idx |-> 0]
    BY <1>3, <2>3, <2>4
  <2>6. Len(q) = 1 /\ q[1].name = a /\ q[1].idx = 0
    BY <2>3, <2>4, <2>5
  <2>7. c[q] = s.value
    BY <1>3, <1>5, <2>6, DefaultAt
  <2>8. PICK t : t = primitiveType(to[a]) /\ t \in Scalars /\ Holds(t, zeroForSchema(to[a]))
    BY <1>4, ZeroHolds
  <2>9. Due(list, from, to, i + 1, a, t)
    BY <1>1, <2>8, DueBehind
  <2> HIDE DEF c
  <2> QED
    BY <1>1, <2>6, <2>7, <2>8, <2>9 DEF Passes
<1>6. CASE q \notin Created(b, s)
  <2>1. q \in DOMAIN b /\ q # <<>> /\ c[q] = b[q]
    BY <1>6, DefaultAt
  <2>2. ~ Taken(list[i], q[1].name)
    BY <1>1 DEF Taken
  <2>3. Stays(b, F, rf, from, to, q) \/ Passes(b, list, from, to, i, q)
    BY <2>1 DEF Underway
  <2> HIDE DEF c
  <2> QED
    BY <2>1, <2>2, <2>3, GoesOn
<1> QED
  BY <1>5, <1>6

LEMMA ScalarIsField ==
    ASSUME NEW k \in Scalars
    PROVE  Field(k, None, "single", FALSE) # NoField
<1>1. /\ Field(k, None, "single", FALSE).type = k
      /\ NoField.type = "refused"
  BY DEF Field, NoField
<1> QED
  BY <1>1 DEF Scalars

LEMMA PrimitiveIs ==
    ASSUME NEW s, primitiveType(s) # ""
    PROVE  primitiveType(s) = s.k /\ s.k \in Scalars
  BY DEF primitiveType

\* A body as the old document describes it sets out.
LEMMA SetsOut ==
    ASSUME NEW F, NEW rf, NEW from, NEW T, NEW rt, NEW to, Route(F, rf, from, T, rt, to),
           NEW list, Bridge(list, from, to),
           NEW b, DOMAIN b \subseteq Positions, IsTree(b), Described(F, rf, b)
    PROVE  Underway(b, list, F, rf, from, to, 1)
<1> SUFFICES ASSUME NEW q \in DOMAIN b \ {<<>>}
             PROVE  Stays(b, F, rf, from, to, q) \/ Passes(b, list, from, to, 1, q)
  BY DEF Underway
<1>1. PICK n : n = q[1].name
  OBVIOUS
<1>2. q \in Positions \ {<<>>} /\ Len(q) \in Nat /\ Len(q) > 0
  BY PositionFacts, EmptyPosition
<1>3. PICK f : f = FieldOf(F, rf, NamesOf(q), "documented")
  OBVIOUS
<1>4. f # NoField /\ Takes(f, b[q], q[Len(q)].idx)
  BY <1>3 DEF Described, Fits
<1>5. n \in DOMAIN from
  BY <1>1, <1>2, <1>3, <1>4 DEF Route, Tops
<1>6. CASE n \in DOMAIN to /\ from[n] = to[n]
  BY <1>1, <1>3, <1>4, <1>5, <1>6 DEF Stays
<1>7. CASE ~ (n \in DOMAIN to /\ from[n] = to[n])
  <2>1. /\ primitiveType(from[n]) # ""
        /\ n \in DOMAIN to => primitiveType(to[n]) # ""
    BY <1>5, <1>7 DEF Route, Plain
  <2>2. PICK k : k = from[n].k /\ k = primitiveType(from[n]) /\ k \in Scalars
    BY <2>1, PrimitiveIs
  <2>3. \A p \in Positions \ {<<>>} : p[1].name = n =>
            FieldOf(F, rf, NamesOf(p), "documented") =
                IF Len(p) = 1 THEN Field(k, None, "single", FALSE) ELSE NoField
    BY <1>5, <2>1, <2>2 DEF Route, Tops
  <2>4. Len(q) = 1 /\ f = Field(k, None, "single", FALSE)
    BY <1>1, <1>2, <1>3, <1>4, <2>3
  <2>5. PICK o : o = 1 /\ o = Len(q)
    BY <2>4
  <2>6. q[o].idx = 0
    <3> SUFFICES ASSUME q[o].idx # 0 PROVE FALSE
      OBVIOUS
    <3>1. q[o] \in Step
      BY <1>2, <2>5, PositionFacts
    <3>2. q[o].idx > 0
      BY <3>1 DEF Step
    <3>3. PICK a : a = ArrayOf(q)
      OBVIOUS
    <3>4. a \in DOMAIN b /\ b[a].k = "arr"
      BY <1>2, <2>5, <3>2, <3>3 DEF IsTree
    <3>5. a \in Positions /\ Len(a) = Len(q) /\ a[o].name = n /\ a[o].idx = 0
      BY <1>1, <1>2, <2>5, <3>3, ArrayOfFacts
    <3>6. a # <<>>
      BY <2>5, <3>5, RootPosition
    <3>7. Takes(FieldOf(F, rf, NamesOf(a), "documented"), b[a], a[Len(a)].idx)
      BY <3>4, <3>6 DEF Described, Fits
    <3>8. FieldOf(F, rf, NamesOf(a), "documented") = Field(k, None, "single", FALSE)
      BY <2>3, <2>5, <3>5, <3>6
    <3>9. Holds(k, b[a])
      BY <2>5, <3>5, <3>7, <3>8 DEF Holds
    <3> QED
      BY <2>2, <3>4, <3>9, HoldsNoArray
  <2>7. Holds(k, b[q])
    BY <1>4, <2>4, <2>5, <2>6 DEF Holds
  <2>8. Due(list, from, to, 1, n, k)
    <3>1. CASE n \in (DOMAIN from \ DOMAIN to) \cup Retyped(from, to)
      <4>1. ToCome(list, 1, n)
        BY <3>1 DEF Bridge, ToCome
      <4> QED
        BY <1>5, <2>2, <4>1 DEF Due
    <3>2. CASE n \in DOMAIN to /\ n \notin Retyped(from, to)
      <4>1. k = primitiveType(to[n])
        BY <1>5, <2>1, <2>2, <3>2 DEF Retyped
      <4> QED
        BY <1>5, <2>2, <3>2, <4>1 DEF Due
    <3> QED
      BY <1>5, <3>1, <3>2
  <2> QED
    BY <1>1, <2>4, <2>5, <2>6, <2>7, <2>8 DEF Passes
<1> QED
  BY <1>6, <1>7

\* json.Unmarshal changes nothing about it.
LEMMA UnmarshalUnderway ==
    ASSUME NEW F, NEW rf, NEW from, NEW to, NEW list, NEW i,
           NEW b, IsJSON(b), Underway(b, list, F, rf, from, to, i)
    PROVE  Underway(Unmarshal(b), list, F, rf, from, to, i)
<1> DEFINE u == Unmarshal(b)
<1>1. DOMAIN u = DOMAIN b
  BY UnmarshalFacts
<1> SUFFICES ASSUME NEW q \in DOMAIN b \ {<<>>}
             PROVE  Stays(u, F, rf, from, to, q) \/ Passes(u, list, from, to, i, q)
  BY <1>1 DEF Underway
<1>2. CASE Stays(b, F, rf, from, to, q)
  BY <1>2, UnmarshalTakes DEF Stays
<1>3. CASE Passes(b, list, from, to, i, q)
  <2>1. PICK k : Due(list, from, to, i, q[1].name, k) /\ Holds(k, b[q])
    BY <1>3 DEF Passes
  <2>2. Holds(k, u[q])
    BY <2>1, UnmarshalTakes DEF Holds
  <2> HIDE DEF u
  <2> QED
    BY <1>3, <2>1, <2>2 DEF Passes
<1> QED
  BY <1>2, <1>3 DEF Underway

\* Behind the last stanza it is as the new document describes it.
LEMMA Arrives ==
    ASSUME NEW F, NEW rf, NEW from, NEW T, NEW rt, NEW to, Route(F, rf, from, T, rt, to),
           NEW list, Len(list) \in Nat, NEW i, i = Len(list) + 1,
           NEW b, DOMAIN b \subseteq Positions, IsObject(b), Underway(b, list, F, rf, from, to, i)
    PROVE  Described(T, rt, b)
<1> SUFFICES ASSUME NEW q \in DOMAIN b \ {<<>>}
             PROVE  /\ FieldOf(T, rt, NamesOf(q), "documented") # NoField
                    /\ Takes(FieldOf(T, rt, NamesOf(q), "documented"), b[q], q[Len(q)].idx)
  BY DEF Described, Fits
<1>1. PICK n : n = q[1].name
  OBVIOUS
<1>2. q \in Positions \ {<<>>}
  OBVIOUS
<1>3. CASE Stays(b, F, rf, from, to, q)
  <2>1. FieldOf(F, rf, NamesOf(q), "documented") = FieldOf(T, rt, NamesOf(q), "documented")
    BY <1>2, <1>3 DEF Stays, Route
  <2> QED
    BY <1>3, <2>1 DEF Stays
<1>4. CASE Passes(b, list, from, to, i, q)
  <2>1. PICK k : Due(list, from, to, i, n, k) /\ Holds(k, b[q]) /\ q[1].idx = 0 /\ Len(q) = 1
    BY <1>1, <1>4 DEF Passes
  <2>2. ~ ToCome(list, i, n)
    BY DEF ToCome
  <2>3. n \in DOMAIN to /\ k = primitiveType(to[n]) /\ k \in Scalars
    BY <2>1, <2>2 DEF Due
  <2>4. k # "" /\ k = to[n].k
    BY <2>3 DEF primitiveType, Scalars
  <2>5. FieldOf(T, rt, NamesOf(q), "documented") = Field(k, None, "single", FALSE)
    BY <1>1, <1>2, <2>1, <2>3, <2>4 DEF Route, Tops
  <2> QED
    BY <2>1, <2>3, <2>5, ScalarIsField DEF Holds
<1> QED
  BY <1>3, <1>4 DEF Underway

\* A stanza of a bridge takes the body further, or the body is to blame.
LEMMA StanzaOnTheWay ==
    ASSUME NEW F, NEW rf, NEW from, NEW T, NEW rt, NEW to, Route(F, rf, from, T, rt, to),
           NEW list, Bridge(list, from, to), NEW i \in 1..Len(list), NEW s, s = list[i], Stanza(s),
           NEW b, IsBody(b), IsObject(b), Underway(b, list, F, rf, from, to, i), NEW optional
    PROVE  IF Fails(b, s, optional) THEN Unusable(b, s)
           ELSE Underway(Applied(b, s), list, F, rf, from, to, i + 1)
<1>1. Len(list) \in Nat /\ Bridging(s, from, to) /\ Plain(from, to)
  BY DEF Bridge, Route
<1>2. CASE \E r, a : IsRenameOf(s, r, a, from, to)
  <2>1. PICK r, a : IsRenameOf(s, r, a, from, to)
    BY <1>2
  <2>2. s = RenameStanza(r, a) /\ r \in DOMAIN from \ DOMAIN to /\ a \in DOMAIN to \ DOMAIN from
    BY <2>1 DEF IsRenameOf
  <2>3. /\ s.verb = "rename" /\ s.from = Bare(r) /\ s.to = Bare(a) /\ ReadBy(s) = r /\ WrittenBy(s) = a
        /\ Leaf(s.from) = r /\ Leaf(s.to) = a
    <3>1. s.verb = "rename" /\ s.from = Bare(r) /\ s.to = Bare(a) /\ ReadBy(s) = r /\ WrittenBy(s) = a
      BY <2>2, StanzaNames
    <3> QED
      BY <3>1, BareFacts
  <2>4. CASE ~ Fails(b, s, optional)
    <3>1. Applied(b, s) = Rename(b, s)
      BY <2>3, VerbFacts
    <3>2. Underway(Rename(b, s), list, F, rf, from, to, i + 1)
      BY <1>1, <2>1, RenameGoesOn
    <3> QED
      BY <2>4, <3>1, <3>2
  <2>5. CASE Fails(b, s, optional)
    <3>1. RenameFails(b, s, optional)
      BY <2>3, <2>5, VerbFacts
    <3>2. Absent(b, <<>>, r) \/ ~ Absent(b, <<>>, a)
      <4>1. Parents(b, s.from) = {<<>>} /\ ~ walkLeavesFails(b, s.from, optional)
        BY <2>3, BareParents, BareWalks
      <4> QED
        BY <2>3, <3>1, <4>1 DEF RenameFails
    <3>3. CASE Absent(b, <<>>, r)
      BY <2>3, <2>5, <3>3 DEF Unusable
    <3>4. CASE ~ Absent(b, <<>>, a)
      <4>1. PICK q : q = At(<<>>, a) /\ q \in DOMAIN b
        BY <3>4 DEF Absent
      <4>2. a \in Names
        <5>1. s.to \in Path
          BY <2>3, StanzaCases
        <5> QED
          BY <2>3, <5>1, PathFacts
      <4>3. q # <<>> /\ q[1].name = a
        BY <4>1, <4>2, TopFacts
      <4>4. Passes(b, list, from, to, i, q)
        BY <2>2, <4>1, <4>3 DEF Underway, Stays
      <4>5. PICK k : Due(list, from, to, i, a, k)
        BY <4>3, <4>4 DEF Passes
      <4>6. Behind(list, i, a)
        BY <2>2, <4>5 DEF Due
      <4>7. PICK j \in 1..i - 1 : WrittenBy(list[j]) = a
        BY <4>6 DEF Behind
      <4>8. j \in 1..Len(list) /\ j # i
        BY <1>1
      <4> QED
        BY <2>3, <4>7, <4>8 DEF Bridge
    <3> QED
      BY <3>2, <3>3, <3>4
  <2> QED
    BY <2>4, <2>5
<1>3. CASE \E a : IsDefaultOf(s, a, from, to)
  <2>1. PICK a : IsDefaultOf(s, a, from, to)
    BY <1>3
  <2>2. s.verb = "default" /\ s.field = Bare(a)
    BY <2>1, StanzaNames DEF IsDefaultOf
  <2>3. ~ Fails(b, s, optional) /\ Applied(b, s) = Default(b, s)
    BY <2>2, VerbFacts, BareWalks
  <2> QED
    BY <1>1, <2>1, <2>3, DefaultGoesOn
<1>4. CASE \E n : IsCoercion(s, n, from, to)
  <2>1. PICK n : IsCoercion(s, n, from, to)
    BY <1>4
  <2>2. s.verb = "coerce" /\ s.field = Bare(n) /\ Leaf(s.field) = n
    BY <2>1, BareFacts DEF IsCoercion
  <2>3. CASE ~ Fails(b, s, optional)
    <3>1. Applied(b, s) = Coerce(b, s) /\ ~ CoerceFails(b, s, optional)
      BY <2>2, <2>3, VerbFacts
    <3>2. Underway(Coerce(b, s), list, F, rf, from, to, i + 1)
      BY <1>1, <2>1, <3>1, CoerceGoesOn
    <3> QED
      BY <2>3, <3>1, <3>2
  <2>4. CASE Fails(b, s, optional)
    <3>1. CoerceFails(b, s, optional)
      BY <2>2, <2>4, VerbFacts
    <3>2. Absent(b, <<>>, n) \/ ~ Coercible(b[At(<<>>, n)], s.to)
      <4>1. Parents(b, s.field) = {<<>>} /\ ~ walkLeavesFails(b, s.field, optional)
        BY <2>2, BareParents, BareWalks
      <4> QED
        BY <2>2, <3>1, <4>1 DEF CoerceFails
    <3> QED
      BY <2>2, <2>4, <3>2 DEF Unusable
  <2> QED
    BY <2>3, <2>4
<1> QED
  BY <1>1, <1>2, <1>3, <1>4 DEF Bridging

-----------------------------------------------------------------------------
(* The layers of the bundle *)

\* An accepted document is one protodesc.NewFiles let pass.
VInv == stage = "accepted" => NewFilesAccepts

Layer == [doc |-> doc, messages |-> messages]

LEMMA LayerWritten ==
    ASSUME AddInv, VInv, stage = "accepted"
    PROVE  IsLayer(Layer)
<1>1. LInv /\ BInv /\ NewFilesAccepts
  BY DEF AddInv, VInv
<1>2. DOMAIN messages = DOMAIN idents /\ DOMAIN messages = MessageNames(doc, needed)
  BY <1>1 DEF BInv
<1>3. needed \subseteq DOMAIN doc.schemas /\ \A m \in needed : IsMessage(doc, m)
  BY <1>1 DEF LInv
<1>4. \A m \in DOMAIN messages : messages[m] = FieldsOf(doc, m)
  BY <1>1 DEF BInv, Built
<1>5. DOMAIN messages \subseteq needed \cup {Empty}
  BY <1>2 DEF MessageNames
<1>6. \A m \in DOMAIN messages \ {Empty} : IsMessage(doc, m) /\ messages[m] = buildMessage(doc, m)
  BY <1>3, <1>4, <1>5 DEF FieldsOf
<1>7. Empty \in DOMAIN messages \ DOMAIN doc.schemas => messages[Empty] = <<>>
  BY <1>3, <1>4 DEF FieldsOf
<1>8. \A m \in DOMAIN messages : \A p \in DOMAIN messages[m] :
          messages[m][p].type = "message" => messages[m][p].msg \in DOMAIN messages
  BY <1>1, <1>2 DEF NewFilesAccepts
<1>9. \A op \in doc.ops : \A side \in Sides(op) : BoundTo(side) \in DOMAIN messages
  BY <1>1, BindingsFollow DEF BindingsKeepProperties
<1>10. doc \in Documents
  BY <1>1 DEF BInv
<1>11. Layer.doc = doc /\ Layer.messages = messages
  BY DEF Layer
<1> QED
  BY <1>3, <1>5, <1>6, <1>7, <1>8, <1>9, <1>10, <1>11 DEF IsLayer

\* One layer after the other, the old version first.
LayersInv ==
    IF phase = "add" THEN layers = <<>> \/ \E x : IsLayer(x) /\ layers = <<x>>
    ELSE IsLayer(layers[1]) /\ IsLayer(layers[2])

LEMMA BuildAccepts ==
    ASSUME VInv, [LowerNext]_lowerVars
    PROVE  VInv'
<1>1. CASE BuildMessage
  <2>1. CASE stage' = "accepted"
    <3>1. NewFilesAccepts /\ UNCHANGED <<messages, idents>>
      BY <1>1, <2>1 DEF BuildMessage
    <3> QED
      BY <3>1 DEF VInv, NewFilesAccepts
  <2> QED
    BY <2>1 DEF VInv
<1>2. CASE UNCHANGED lowerVars
  BY <1>2 DEF VInv, NewFilesAccepts, lowerVars
<1>3. CASE stage' # "accepted"
  BY <1>3 DEF VInv
<1>4. CASE ReadOperations \/ (\E n \in Components : Visit(n)) \/ Collected \/ NameMessage
  <2>1. stage' # "accepted"
    BY <1>4 DEF ReadOperations, Visit, Collected, NameMessage, Refuse
  <2> QED
    BY <1>3, <2>1
<1> QED
  BY <1>1, <1>2, <1>4 DEF LowerNext

LEMMA AppendTwo ==
    ASSUME NEW x, NEW y
    PROVE  Append(<<x>>, y)[1] = x /\ Append(<<x>>, y)[2] = y
<1>1. PICK S : S = {x, y}
  OBVIOUS
<1>2. x \in S /\ y \in S
  BY <1>1
<1>3. PICK s : s = <<x>>
  OBVIOUS
<1>4. s \in Seq(S)
  BY <1>2, <1>3
<1>5. Len(s) = 1 /\ s[1] = x
  BY <1>3
<1>6. Append(s, y)[Len(s) + 1] = y /\ \A i \in 1..Len(s) : Append(s, y)[i] = s[i]
  BY <1>2, <1>4, AppendProperties
<1> QED
  BY <1>3, <1>5, <1>6

LEMMA WriteLayerLayers ==
    ASSUME AddInv, VInv, LayersInv, WriteLayer
    PROVE  VInv' /\ LayersInv'
<1>1. /\ phase = "add" /\ stage = "accepted" /\ layers' = Append(layers, Layer)
      /\ IF layers = <<>> THEN stage' = "read" /\ phase' = phase
         ELSE phase' = "shim" /\ UNCHANGED lowerVars
  BY DEF WriteLayer, Layer
<1>2. PICK y : y = Layer /\ IsLayer(y)
  BY <1>1, LayerWritten
<1>3. CASE layers = <<>>
  <2>1. layers' = <<y>>
    BY <1>1, <1>2, <1>3
  <2> QED
    BY <1>1, <1>2, <1>3, <2>1 DEF VInv, LayersInv
<1>4. CASE layers # <<>>
  <2>1. PICK x : IsLayer(x) /\ layers = <<x>>
    BY <1>1, <1>4 DEF LayersInv
  <2>2. IsLayer(layers'[1]) /\ IsLayer(layers'[2])
    <3>1. layers' = Append(<<x>>, y)
      BY <1>1, <1>2, <2>1
    <3> QED
      BY <1>2, <2>1, <3>1, AppendTwo
  <2>3. LayersInv'
    BY <1>1, <1>2, <1>4, <2>1, <2>2 DEF LayersInv
  <2>4. VInv'
    BY <1>1, <1>4, BuildAccepts
  <2> QED
    BY <2>3, <2>4
<1> QED
  BY <1>3, <1>4

-----------------------------------------------------------------------------
(* The draft *)

\* A drafted shim has one link, and when it is complete it is what was drafted,
\* with every candidate or without candidates.
Draws(d, link, corrected, optionA) ==
    /\ d.request.notes = {} /\ d.response.notes = {}
    /\ optionA \/ (d.request.cands = {} /\ d.response.cands = {})
    /\ link.request = Pasted(d.request, corrected, optionA)
    /\ link.response = Pasted(d.response, corrected, optionA)

DraftedInv ==
    made.drafted =>
        /\ phase # "add"
        /\ \A l \in {1, 2} : Cardinality(layers[l].doc.ops) = 1
        /\ \E link :
              /\ chain = <<link>>
              /\ made.complete =>
                    \E strict, corrected, optionA :
                        Draws(draftShim(layers[1].doc, layers[2].doc, strict), link, corrected, optionA)

LEMMA DraftShimDrafts ==
    ASSUME NEW strict, NEW corrected, NEW optionA, DraftShim(strict, corrected, optionA)
    PROVE  DraftedInv'
<1> DEFINE d == draftShim(layers[1].doc, layers[2].doc, strict)
           link == [request  |-> Pasted(d.request, corrected, optionA),
                    response |-> Pasted(d.response, corrected, optionA)]
<1>1. /\ phase' = "shim" /\ layers' = layers /\ chain' = <<link>>
      /\ \A l \in {1, 2} : Draftable(layers[l].doc)
      /\ made' = [drafted  |-> TRUE,
                  complete |-> /\ d.request.notes = {} /\ d.response.notes = {}
                               /\ optionA \/ (d.request.cands = {} /\ d.response.cands = {})]
  BY DEF DraftShim
<1>2. /\ link.request = Pasted(d.request, corrected, optionA)
      /\ link.response = Pasted(d.response, corrected, optionA)
  OBVIOUS
<1>3. d = draftShim(layers'[1].doc, layers'[2].doc, strict)
  BY <1>1
<1> HIDE DEF d, link
<1>4. made'.complete => Draws(d, link, corrected, optionA)
  BY <1>1, <1>2 DEF Draws
<1>5. \A l \in {1, 2} : Cardinality(layers'[l].doc.ops) = 1
  BY <1>1 DEF Draftable
<1> QED
  BY <1>1, <1>3, <1>4, <1>5 DEF DraftedInv

\* The next states that say nothing new of layers and draft.
LEMMA BundleKept ==
    ASSUME VInv, LayersInv, DraftedInv, UNCHANGED <<layers, chain, made>>, [LowerNext]_lowerVars,
           phase' = "add" <=> phase = "add"
    PROVE  VInv' /\ LayersInv' /\ DraftedInv'
<1>1. VInv'
  BY BuildAccepts
<1>2. LayersInv' /\ DraftedInv'
  BY DEF LayersInv, DraftedInv
<1> QED
  BY <1>1, <1>2

-----------------------------------------------------------------------------
(* What the draft spans *)

AskedOf(L) == PropertiesOf(L.doc, RequestSide(L))

AnsweredOf(L) == PropertiesOf(L.doc, ResponseSide(L))

\* The hypotheses of DraftBridges.
Spans ==
    /\ made.drafted /\ made.complete /\ Serving
    /\ PlainDrift(layers[1], layers[2], RequestSide)
    /\ PlainDrift(layers[1], layers[2], ResponseSide)

\* Where the requests of old go to, and the replies of new.
ThereRoute(old, new) ==
    Route(old, RequestOf(old), AskedOf(old), new, RequestOf(new), AskedOf(new))

BackRoute(old, new) ==
    Route(new, ResponseOf(new), AnsweredOf(new), old, ResponseOf(old), AnsweredOf(old))

LEMMA DriftFollows ==
    ASSUME NEW old, NEW new, PlainDrift(old, new, RequestSide), PlainDrift(old, new, ResponseSide)
    PROVE  /\ DriftsPlainly(old, new, AskedOf(old), AskedOf(new))
           /\ DriftsPlainly(old, new, AnsweredOf(old), AnsweredOf(new))
  BY DEF PlainDrift, DriftsPlainly, Plain, AskedOf, AnsweredOf

\* A request has a body if the document describes properties of it.
LEMMA BodyOfLayer ==
    ASSUME NEW L, IsLayer(L), Cardinality(L.doc.ops) = 1, Empty \notin DOMAIN L.doc.schemas
    PROVE  HasBody(L) <=> DOMAIN AskedOf(L) # {}
<1>1. PICK root, f : root = RequestOf(L) /\ f = L.messages[root]
  OBVIOUS
<1>2. root \in DOMAIN L.messages /\ DOMAIN f = DOMAIN AskedOf(L)
  BY <1>1, ShapeOfSide DEF HasShape, AskedOf, RequestOf
<1>3. f = <<>> \/ f = buildMessage(L.doc, root)
  BY <1>1, <1>2 DEF IsLayer
<1>4. ASSUME DOMAIN f = {} PROVE f = <<>>
  <2>1. CASE f = buildMessage(L.doc, root)
    <3>1. f = [n \in DOMAIN f |-> f[n]]
      BY <2>1 DEF buildMessage
    <3> QED
      BY <1>4, <3>1
  <2> QED
    BY <1>3, <2>1
<1>5. f = <<>> => DOMAIN f = {}
  OBVIOUS
<1> QED
  BY <1>1, <1>2, <1>4, <1>5 DEF HasBody

LEMMA DraftOf ==
    ASSUME NEW old, NEW new, NEW strict
    PROVE  /\ draftShim(old.doc, new.doc, strict).request =
                  draftDirection(AskedOf(old), AskedOf(new), strict)
           /\ draftShim(old.doc, new.doc, strict).response =
                  draftDirection(AnsweredOf(new), AnsweredOf(old), strict)
  BY DEF draftShim, AskedOf, AnsweredOf, RequestSide, ResponseSide

\* A complete draft whose stanzas Load accepts bridges two layers.
LEMMA DraftSpans ==
    ASSUME NEW old, NEW new, IsLayer(old), IsLayer(new),
           Cardinality(old.doc.ops) = 1, Cardinality(new.doc.ops) = 1,
           PlainDrift(old, new, RequestSide), PlainDrift(old, new, ResponseSide),
           NEW link, NEW strict, NEW corrected, NEW optionA,
           Draws(draftShim(old.doc, new.doc, strict), link, corrected, optionA),
           IsStanzas(link.request), IsStanzas(link.response)
    PROVE  /\ ThereRoute(old, new) /\ Bridge(link.request, AskedOf(old), AskedOf(new))
           /\ BackRoute(old, new) /\ Bridge(link.response, AnsweredOf(new), AnsweredOf(old))
<1>1. /\ DriftsPlainly(old, new, AskedOf(old), AskedOf(new))
      /\ DriftsPlainly(old, new, AnsweredOf(old), AnsweredOf(new))
  BY DriftFollows
<1>2. /\ DOMAIN AskedOf(old) \subseteq Ordered /\ DOMAIN AskedOf(new) \subseteq Ordered
      /\ ThereRoute(old, new)
  BY <1>1, RoutesFollow DEF AskedOf, ThereRoute, RequestOf
<1>3. /\ DOMAIN AnsweredOf(old) \subseteq Ordered /\ DOMAIN AnsweredOf(new) \subseteq Ordered
      /\ BackRoute(old, new)
  BY <1>1, RoutesFollow DEF AnsweredOf, BackRoute, ResponseOf
<1>4. PICK d : /\ d = draftShim(old.doc, new.doc, strict)
               /\ d.request = draftDirection(AskedOf(old), AskedOf(new), strict)
               /\ d.response = draftDirection(AnsweredOf(new), AnsweredOf(old), strict)
  BY DraftOf
<1>5. Draws(d, link, corrected, optionA)
  BY <1>4
<1>6. /\ \A i \in DOMAIN link.request : StanzaAccepted(link.request[i])
      /\ \A i \in DOMAIN link.response : StanzaAccepted(link.response[i])
  BY DEF IsStanzas, Stanza
<1>7. Bridge(link.request, AskedOf(old), AskedOf(new))
  <2>1. PICK from, to : from = AskedOf(old) /\ to = AskedOf(new)
    OBVIOUS
  <2>2. PICK e : e = draftDirection(from, to, strict) /\ e = d.request
    BY <1>4, <2>1
  <2>3. e.notes = {} /\ (optionA \/ e.cands = {}) /\ link.request = Pasted(e, corrected, optionA)
    BY <1>5, <2>2 DEF Draws
  <2> QED
    BY <1>2, <1>6, <2>1, <2>2, <2>3, PastedBridges
<1>8. Bridge(link.response, AnsweredOf(new), AnsweredOf(old))
  <2>1. PICK from, to : from = AnsweredOf(new) /\ to = AnsweredOf(old)
    OBVIOUS
  <2>2. PICK e : e = draftDirection(from, to, strict) /\ e = d.response
    BY <1>4, <2>1
  <2>3. e.notes = {} /\ (optionA \/ e.cands = {}) /\ link.response = Pasted(e, corrected, optionA)
    BY <1>5, <2>2 DEF Draws
  <2> QED
    BY <1>3, <1>6, <2>1, <2>2, <2>3, PastedBridges
<1> QED
  BY <1>2, <1>3, <1>7, <1>8

LEMMA OneLink == \A link : Len(<<link>>) = 1 /\ <<link>>[1] = link
  OBVIOUS

LEMMA SpansBridges ==
    ASSUME ChainInv, LayersInv, DraftedInv, Spans
    PROVE  /\ Len(chain) = 1
           /\ ThereRoute(layers[1], layers[2])
           /\ Bridge(chain[1].request, AskedOf(layers[1]), AskedOf(layers[2]))
           /\ BackRoute(layers[1], layers[2])
           /\ Bridge(chain[1].response, AnsweredOf(layers[2]), AnsweredOf(layers[1]))
           /\ ~ HasBody(layers[1]) => (chain[1].request = <<>> <=> ~ HasBody(layers[2]))
<1>1. PICK old, new : old = layers[1] /\ new = layers[2]
  OBVIOUS
<1>2. PICK link : /\ chain = <<link>>
                  /\ \E strict, corrected, optionA :
                        Draws(draftShim(old.doc, new.doc, strict), link, corrected, optionA)
  BY <1>1 DEF DraftedInv, Spans
<1>3. Len(chain) = 1 /\ chain[1] = link
  BY <1>2, OneLink
<1>4. IsStanzas(link.request) /\ IsStanzas(link.response)
  <2>1. 1 \in DOMAIN chain
    BY <1>3 DEF ChainInv, IsChain
  <2> QED
    BY <1>3, <2>1, LinkStanzas DEF Spans
<1>5. /\ IsLayer(old) /\ IsLayer(new)
      /\ Cardinality(old.doc.ops) = 1 /\ Cardinality(new.doc.ops) = 1
  BY <1>1 DEF LayersInv, DraftedInv, Spans, Serving
<1>6. PICK strict, corrected, optionA :
          Draws(draftShim(old.doc, new.doc, strict), link, corrected, optionA)
  BY <1>2
<1>7. PlainDrift(old, new, RequestSide) /\ PlainDrift(old, new, ResponseSide)
  BY <1>1 DEF Spans
<1>8. /\ ThereRoute(old, new) /\ Bridge(link.request, AskedOf(old), AskedOf(new))
      /\ BackRoute(old, new) /\ Bridge(link.response, AnsweredOf(new), AnsweredOf(old))
  BY <1>4, <1>5, <1>6, <1>7, DraftSpans
<1>9. ASSUME ~ HasBody(old) PROVE link.request = <<>> <=> ~ HasBody(new)
  <2>1. Empty \notin DOMAIN old.doc.schemas \cup DOMAIN new.doc.schemas
    BY <1>7 DEF PlainDrift
  <2>2. DOMAIN AskedOf(old) = {} /\ (HasBody(new) <=> DOMAIN AskedOf(new) # {})
    BY <1>5, <1>9, <2>1, BodyOfLayer
  <2>3. Len(link.request) = 0 <=> DOMAIN AskedOf(new) = {}
    BY <1>8, <2>2, BridgeFromNothing
  <2>4. Len(link.request) = 0 <=> link.request = <<>>
    BY <1>4 DEF IsStanzas, IsList
  <2> QED
    BY <2>2, <2>3, <2>4
<1> QED
  BY <1>1, <1>3, <1>8, <1>9

-----------------------------------------------------------------------------
(* On the way *)

\* The body is on its way, and to blame when it goes no further.
OnRoute(F, rf, from, to) ==
    /\ IsObject(body)
    /\ Underway(body, ops, F, rf, from, to, next)
    /\ verdict = "failed" => BodysFault

\* What the document describes can set out.
LEMMA BeginsOnRoute ==
    ASSUME NEW F, NEW rf, NEW from, NEW T, NEW rt, NEW to, Route(F, rf, from, T, rt, to),
           NEW list, Bridge(list, from, to),
           NEW b, IsJSON(b), Described(F, rf, b), Begin(list, b)
    PROVE  OnRoute(F, rf, from, to)'
<1>1. IsObject(b) /\ IsTree(b) /\ DOMAIN b \subseteq Positions
  BY DEF Described, Fits, IsJSON, Positions
<1>2. PICK o : o = 1 /\ Underway(b, list, F, rf, from, to, o)
  BY <1>1, SetsOut
<1>3. ops' = list /\ next' = o /\ verdict' # "failed" /\ body' \in {b, Unmarshal(b)}
  BY <1>1, <1>2 DEF Begin
<1>4. IsTree(Unmarshal(b))
  BY <1>1, UnmarshalFacts
<1>5. Underway(Unmarshal(b), list, F, rf, from, to, o)
  BY <1>2, UnmarshalUnderway
<1>6. IsObject(body') /\ Underway(body', ops', F, rf, from, to, next')
  <2>1. IsObject(Unmarshal(b))
    BY <1>4 DEF IsTree
  <2> QED
    BY <1>1, <1>2, <1>3, <1>5, <2>1
<1> QED
  BY <1>3, <1>6 DEF OnRoute

LEMMA ApplyOnRoute ==
    ASSUME NEW F, NEW rf, NEW from, NEW T, NEW rt, NEW to, Route(F, rf, from, T, rt, to),
           Bridge(ops, from, to), TInv, Apply, OnRoute(F, rf, from, to)
    PROVE  OnRoute(F, rf, from, to)'
<1>1. /\ verdict = "running" /\ next \in 1..Len(ops) /\ ops' = ops /\ IsBody(body) /\ IsTree(body)
      /\ IsObject(body) /\ Underway(body, ops, F, rf, from, to, next)
      /\ next \in Nat /\ next <= Len(ops)
  BY DEF TInv, Apply, IsStanzas, IsList, OnRoute
<1>2. PICK i, s : i = next /\ s = ops[next] /\ Stanza(s) /\ i \in 1..Len(ops)
  BY <1>1 DEF TInv, IsStanzas, IsList
<1>3. IF Fails(body, s, opts) THEN Unusable(body, s)
      ELSE Underway(Applied(body, s), ops, F, rf, from, to, i + 1)
  BY <1>1, <1>2, StanzaOnTheWay
<1>4. CASE Fails(body, s, opts)
  <2>1. body' = body /\ next' = next
    BY <1>2, <1>4 DEF Apply
  <2>2. BodysFault'
    BY <1>1, <1>2, <1>3, <1>4, <2>1 DEF BodysFault
  <2> QED
    BY <1>1, <2>1, <2>2 DEF OnRoute
<1>5. CASE ~ Fails(body, s, opts)
  <2>1. body' = Applied(body, s) /\ next' = i + 1 /\ verdict' = verdict
    BY <1>2, <1>5 DEF Apply
  <2>2. IsTree(Applied(body, s))
    BY <1>1, <1>2, <1>5, AppliedFacts
  <2>3. IsObject(body') /\ Underway(body', ops', F, rf, from, to, next')
    BY <1>1, <1>3, <1>5, <2>1, <2>2 DEF IsTree
  <2> QED
    BY <1>1, <2>1, <2>3 DEF OnRoute
<1> QED
  BY <1>4, <1>5

LEMMA MarshalOnRoute ==
    ASSUME NEW F, NEW rf, NEW from, NEW to, TInv, Marshal, OnRoute(F, rf, from, to)
    PROVE  OnRoute(F, rf, from, to)'
<1>1. /\ verdict = "running" /\ ~ (next <= Len(ops)) /\ UNCHANGED <<ops, next, body>>
      /\ verdict' = IF Encodable(body) THEN "done" ELSE "failed"
  BY DEF Marshal, TInv, IsStanzas, IsList
<1>2. verdict' = "failed" => BodysFault'
  BY <1>1 DEF BodysFault
<1> QED
  BY <1>1, <1>2 DEF OnRoute

LEMMA ArrivesOnRoute ==
    ASSUME NEW F, NEW rf, NEW from, NEW T, NEW rt, NEW to, Route(F, rf, from, T, rt, to),
           TInv, next = Len(ops) + 1, OnRoute(F, rf, from, to)
    PROVE  Described(T, rt, body)
<1>1. Len(ops) \in Nat /\ DOMAIN body \subseteq Positions
  BY DEF TInv, IsStanzas, IsList, IsBody
<1>2. IsObject(body) /\ Underway(body, ops, F, rf, from, to, next)
  BY DEF OnRoute
<1> QED
  BY <1>1, <1>2, Arrives

Going == OnRoute(layers[1], RequestOf(layers[1]), AskedOf(layers[1]), AskedOf(layers[2]))

Returning == OnRoute(layers[2], ResponseOf(layers[2]), AnsweredOf(layers[2]), AnsweredOf(layers[1]))

\* The outcomes come from where they may come from.
OutcomeInv ==
    /\ verdict = "idle" => phase \notin {"answered", "upstream_error", "422", "502"}
    /\ IF verdict = "idle" THEN leg.dir = "request" ELSE client = Nil <=> ~ HasBody(layers[1])
    /\ phase = "422" => verdict = "failed" /\ leg.dir = "request"
    /\ phase = "502" => leg.dir = "response"

\* Through a draft that spans the versions the message of the client is on its
\* way there, and a reply that the new document describes is on its way back.
WayInv ==
    Spans /\ verdict # "idle" =>
        IF leg.dir = "request" THEN HasBody(layers[1]) => Going
        ELSE /\ HasBody(layers[1]) => Described(layers[2], RequestOf(layers[2]), upstream.body)
             /\ Described(layers[2], ResponseOf(layers[2]), given) =>
                   Returning /\ phase # "upstream_error"

DInv == EInv /\ VInv /\ LayersInv /\ DraftedInv /\ OutcomeInv /\ WayInv

LEMMA DInitHolds == Init => DInv
<1> SUFFICES ASSUME Init PROVE DInv
  OBVIOUS
<1>1. EInv
  BY EInitHolds
<1>2. /\ verdict = "idle" /\ phase = "add" /\ layers = <<>> /\ ~ made.drafted /\ stage = "read"
      /\ leg = [dir |-> "request", link |-> 0]
  BY DEF Init, LowerInit, NoShim
<1>3. leg.dir = "request"
  BY <1>2
<1> QED
  BY <1>1, <1>2, <1>3 DEF DInv, VInv, LayersInv, DraftedInv, OutcomeInv, WayInv

\* Nothing is on its way.
LEMMA NothingOnTheWay ==
    ASSUME DInv, verdict = "idle", UNCHANGED <<verdict, leg, upstream>>,
           phase' \in {"add", "shim", "serve", "refused"}
    PROVE  OutcomeInv' /\ WayInv'
  BY DEF DInv, OutcomeInv, WayInv

\* Steps through the bundle leave it and the hypotheses as they are.
LEMMA SpansKept ==
    ASSUME Serving, Serving', UNCHANGED <<layers, made>>
    PROVE  Spans' <=> Spans
<1>1. /\ PlainDrift(layers[1], layers[2], RequestSide)' <=> PlainDrift(layers[1], layers[2], RequestSide)
      /\ PlainDrift(layers[1], layers[2], ResponseSide)' <=> PlainDrift(layers[1], layers[2], ResponseSide)
  BY DEF PlainDrift, RequestSide, ResponseSide
<1> QED
  BY <1>1 DEF Spans

LEMMA SpansFacts ==
    ASSUME DInv, Spans
    PROVE  /\ Len(chain) = 1
           /\ ThereRoute(layers[1], layers[2])
           /\ Bridge(chain[1].request, AskedOf(layers[1]), AskedOf(layers[2]))
           /\ BackRoute(layers[1], layers[2])
           /\ Bridge(chain[1].response, AnsweredOf(layers[2]), AnsweredOf(layers[1]))
           /\ ~ HasBody(layers[1]) => (chain[1].request = <<>> <=> ~ HasBody(layers[2]))
  BY SpansBridges DEF DInv, EInv, SInv

\* The client's message sets out.
LEMMA RequestWay ==
    ASSUME DInv, NEW b \in JSONBodies \cup {Nil}, Request(b)
    PROVE  OutcomeInv' /\ WayInv'
<1>1. /\ phase = "serve" /\ phase' = phase /\ verdict = "idle" /\ verdict' # "idle"
      /\ leg' = [dir |-> "request", link |-> 1] /\ leg'.dir = "request"
      /\ UNCHANGED <<layers, chain, made, upstream>>
      /\ Begin(chain[1].request, b) /\ client' = b
      /\ IF HasBody(layers[1]) THEN Described(layers[1], RequestOf(layers[1]), b) ELSE b = Nil
  BY DEF Request, Emits, Begin
<1>2. OutcomeInv'
  <2>1. HasBody(layers[1]) => b # Nil
    BY <1>1, NilFacts DEF Described, Fits
  <2> QED
    BY <1>1, <2>1 DEF DInv, OutcomeInv
<1>3. ASSUME Spans', HasBody(layers[1]) PROVE Going'
  <2>1. Spans
    BY <1>1, <1>3, SpansKept DEF Serving
  <2>2. IsJSON(b)
    BY NilFacts, ShimAssumption
  <2>3. PICK old, new : old = layers[1] /\ new = layers[2]
    OBVIOUS
  <2>4. /\ Route(old, RequestOf(old), AskedOf(old), new, RequestOf(new), AskedOf(new))
        /\ Bridge(chain[1].request, AskedOf(old), AskedOf(new))
    BY <2>1, <2>3, SpansFacts DEF ThereRoute
  <2>5. Begin(chain[1].request, b) /\ Described(old, RequestOf(old), b)
    BY <1>1, <1>3, <2>3
  <2>6. PICK list : list = chain[1].request
    OBVIOUS
  <2>7. OnRoute(old, RequestOf(old), AskedOf(old), AskedOf(new))'
    BY <2>2, <2>4, <2>5, <2>6, BeginsOnRoute
  <2>8. old = layers'[1] /\ new = layers'[2]
    BY <1>1, <2>3
  <2> QED
    BY <2>7, <2>8 DEF Going
<1> QED
  BY <1>1, <1>2, <1>3 DEF WayInv

\* A stanza, or the JSON at the end.
LEMMA RunOnRoute ==
    ASSUME NEW F, NEW rf, NEW from, NEW T, NEW rt, NEW to, Route(F, rf, from, T, rt, to),
           Bridge(ops, from, to), TInv, Apply \/ Marshal, OnRoute(F, rf, from, to)
    PROVE  OnRoute(F, rf, from, to)'
<1>1. CASE Apply
  BY <1>1, ApplyOnRoute
<1>2. CASE Marshal
  BY <1>2, MarshalOnRoute
<1> QED
  BY <1>1, <1>2

\* What is being run is the bridge.
LEMMA OpsOfDraft ==
    ASSUME DInv, Spans, verdict # "idle"
    PROVE  /\ leg.link = 1 /\ leg.dir \in {"request", "response"}
           /\ ops = IF leg.dir = "request" THEN chain[1].request ELSE chain[1].response
<1>1. Len(chain) = 1
  BY SpansFacts
<1>2. leg.link \in 1..Len(chain) /\ leg.dir \in {"request", "response"}
  BY DEF DInv, EInv, SInv, LegInv
<1>3. leg.link = 1
  BY <1>1, <1>2
<1> QED
  BY <1>2, <1>3 DEF DInv, EInv, PlaceInv

LEMMA RunWay ==
    ASSUME DInv, Run
    PROVE  OutcomeInv' /\ WayInv'
<1>1. /\ phase = "serve" /\ (Apply \/ Marshal)
      /\ UNCHANGED <<layers, chain, made, phase, leg, client, upstream>>
  BY DEF Run, shimVars
<1>2. verdict # "idle" /\ verdict' # "idle" /\ given' = given
  BY <1>1 DEF Apply, Marshal
<1>3. OutcomeInv'
  BY <1>1, <1>2 DEF DInv, OutcomeInv
<1>4. SUFFICES ASSUME Spans' PROVE WayInv'
  BY <1>3 DEF WayInv
<1>5. Spans
  BY <1>1, <1>4, SpansKept DEF Serving
<1>6. TInv
  BY DEF DInv, EInv, SInv
<1>7. PICK old, new : old = layers[1] /\ new = layers[2]
  OBVIOUS
<1>8. old = layers'[1] /\ new = layers'[2]
  BY <1>1, <1>7
<1>9. leg.dir = "request" /\ Going => Going'
  <2> SUFFICES ASSUME leg.dir = "request", Going PROVE Going'
    OBVIOUS
  <2>1. /\ Route(old, RequestOf(old), AskedOf(old), new, RequestOf(new), AskedOf(new))
        /\ Bridge(ops, AskedOf(old), AskedOf(new))
    BY <1>2, <1>5, <1>7, OpsOfDraft, SpansFacts DEF ThereRoute
  <2>2. OnRoute(old, RequestOf(old), AskedOf(old), AskedOf(new))
    BY <1>7 DEF Going
  <2>3. OnRoute(old, RequestOf(old), AskedOf(old), AskedOf(new))'
    BY <1>1, <1>6, <2>1, <2>2, RunOnRoute
  <2> QED
    BY <1>8, <2>3 DEF Going
<1>10. leg.dir # "request" /\ Returning => Returning'
  <2> SUFFICES ASSUME leg.dir # "request", Returning PROVE Returning'
    OBVIOUS
  <2>1. /\ Route(new, ResponseOf(new), AnsweredOf(new), old, ResponseOf(old), AnsweredOf(old))
        /\ Bridge(ops, AnsweredOf(new), AnsweredOf(old))
    BY <1>2, <1>5, <1>7, OpsOfDraft, SpansFacts DEF BackRoute
  <2>2. OnRoute(new, ResponseOf(new), AnsweredOf(new), AnsweredOf(old))
    BY <1>7 DEF Returning
  <2>3. OnRoute(new, ResponseOf(new), AnsweredOf(new), AnsweredOf(old))'
    BY <1>1, <1>6, <2>1, <2>2, RunOnRoute
  <2> QED
    BY <1>8, <2>3 DEF Returning
<1>11. IF leg.dir = "request" THEN HasBody(old) => Going
       ELSE /\ HasBody(old) => Described(new, RequestOf(new), upstream.body)
            /\ Described(new, ResponseOf(new), given) => Returning
  BY <1>2, <1>5, <1>7 DEF DInv, WayInv
<1> QED
  BY <1>1, <1>2, <1>8, <1>7, <1>9, <1>10, <1>11 DEF WayInv

\* The upstream gets what its document describes.
LEMMA ReplyWay ==
    ASSUME DInv, NEW b \in Replies \cup {body}, Reply(b)
    PROVE  OutcomeInv' /\ WayInv'
<1>1. /\ phase = "serve" /\ phase' = phase /\ verdict = "done" /\ verdict' # "idle"
      /\ leg.dir = "request" /\ leg'.dir = "response" /\ leg.link = Len(chain)
      /\ upstream'.body = body /\ given' = b
      /\ UNCHANGED <<layers, chain, made, client>>
      /\ Begin(chain[Len(chain)].response, b)
  BY DEF Reply, Answers, Begin
<1>2. OutcomeInv'
  BY <1>1 DEF DInv, OutcomeInv
<1>3. SUFFICES ASSUME Spans' PROVE WayInv'
  BY <1>2 DEF WayInv
<1>4. Spans
  BY <1>1, <1>3, SpansKept DEF Serving
<1>5. TInv /\ next = Len(ops) + 1
  BY <1>1 DEF DInv, EInv, SInv, PlaceInv
<1>6. IsJSON(b)
  BY <1>1, <1>5, ShimAssumption DEF TInv
<1>7. PICK old, new : old = layers[1] /\ new = layers[2]
  OBVIOUS
<1>8. old = layers'[1] /\ new = layers'[2]
  BY <1>1, <1>7
<1>9. ASSUME HasBody(old) PROVE Described(new, RequestOf(new), body)
  <2>1. Route(old, RequestOf(old), AskedOf(old), new, RequestOf(new), AskedOf(new))
    BY <1>4, <1>7, SpansFacts DEF ThereRoute
  <2>2. OnRoute(old, RequestOf(old), AskedOf(old), AskedOf(new))
    BY <1>1, <1>4, <1>7, <1>9 DEF DInv, WayInv, Going
  <2> QED
    BY <1>5, <2>1, <2>2, ArrivesOnRoute
<1>10. ASSUME Described(new, ResponseOf(new), b) PROVE Returning'
  <2>1. /\ Route(new, ResponseOf(new), AnsweredOf(new), old, ResponseOf(old), AnsweredOf(old))
        /\ Bridge(chain[1].response, AnsweredOf(new), AnsweredOf(old)) /\ Len(chain) = 1
    BY <1>4, <1>7, SpansFacts DEF BackRoute
  <2>2. PICK list : list = chain[1].response
    OBVIOUS
  <2>3. Begin(list, b)
    BY <1>1, <2>1, <2>2
  <2>4. OnRoute(new, ResponseOf(new), AnsweredOf(new), AnsweredOf(old))'
    BY <1>6, <1>10, <2>1, <2>2, <2>3, BeginsOnRoute
  <2> QED
    BY <1>8, <2>4 DEF Returning
<1> QED
  BY <1>1, <1>8, <1>9, <1>10 DEF WayInv

\* A draft has one link: there is no next and no previous one.
LEMMA LinkWay ==
    ASSUME DInv, NextLink \/ PreviousLink
    PROVE  OutcomeInv' /\ WayInv'
<1>1. /\ phase = "serve" /\ verdict = "done" /\ verdict' # "idle"
      /\ UNCHANGED <<layers, chain, made, phase, client, upstream>> /\ leg'.dir = leg.dir
      /\ leg.link < Len(chain) \/ leg.link > 1
  BY DEF NextLink, PreviousLink, Begin, DInv, EInv, SInv, LegInv
<1>2. OutcomeInv'
  BY <1>1 DEF DInv, OutcomeInv
<1>3. ~ Spans
  <2> SUFFICES ASSUME Spans PROVE FALSE
    OBVIOUS
  <2>1. leg.link = 1 /\ Len(chain) = 1
    BY <1>1, OpsOfDraft, SpansFacts
  <2> QED
    BY <1>1, <2>1
<1>4. ~ Spans'
  BY <1>1, <1>3, SpansKept DEF Serving
<1> QED
  BY <1>2, <1>4 DEF WayInv

\* What has come back the client's message takes.
LEMMA OutcomeWay ==
    ASSUME DInv, Encode \/ TransformFailed
    PROVE  OutcomeInv' /\ WayInv'
<1>1. /\ phase = "serve" /\ verdict # "idle" /\ verdict' = verdict
      /\ UNCHANGED <<ops, next, body, given, layers, chain, made, leg, client, upstream>>
      /\ phase' \in {"answered", "upstream_error", "422", "502"}
  BY DEF Encode, TransformFailed, applyVars
<1>2. OutcomeInv'
  <2>1. CASE Encode
    <3>1. leg.dir = "response" /\ phase' \in {"answered", "upstream_error"}
      BY <2>1 DEF Encode
    <3> QED
      BY <1>1, <3>1 DEF DInv, OutcomeInv
  <2>2. CASE TransformFailed
    <3>1. verdict = "failed" /\ phase' = IF leg.dir = "request" THEN "422" ELSE "502"
      BY <2>2 DEF TransformFailed
    <3>2. leg.dir \in {"request", "response"}
      BY DEF DInv, EInv, SInv, LegInv
    <3> QED
      BY <1>1, <3>1, <3>2 DEF DInv, OutcomeInv
  <2> QED
    BY <2>1, <2>2
<1>3. SUFFICES ASSUME Spans' PROVE WayInv'
  BY <1>2 DEF WayInv
<1>4. Spans
  BY <1>1, <1>3, SpansKept DEF Serving
<1>5. PICK old, new : old = layers[1] /\ new = layers[2]
  OBVIOUS
<1>6. /\ Going => Going'
      /\ Returning => Returning'
  BY <1>1 DEF Going, Returning, OnRoute, BodysFault
<1>7. IF leg.dir = "request" THEN HasBody(layers[1]) => Going
      ELSE /\ HasBody(layers[1]) => Described(layers[2], RequestOf(layers[2]), upstream.body)
           /\ Described(layers[2], ResponseOf(layers[2]), given) => Returning
  BY <1>1, <1>4 DEF DInv, WayInv
<1>8. leg.dir # "request" /\ Returning => phase' # "upstream_error"
  <2> SUFFICES ASSUME leg.dir # "request", Returning, Encode
               PROVE  phase' # "upstream_error"
    BY DEF TransformFailed
  <2>1. Route(new, ResponseOf(new), AnsweredOf(new), old, ResponseOf(old), AnsweredOf(old))
    BY <1>4, <1>5, SpansFacts DEF BackRoute
  <2>2. OnRoute(new, ResponseOf(new), AnsweredOf(new), AnsweredOf(old))
    BY <1>5 DEF Returning
  <2>3. TInv /\ next = Len(ops) + 1
    BY DEF Encode, DInv, EInv, SInv, PlaceInv
  <2>4. Described(old, ResponseOf(old), body)
    BY <2>1, <2>2, <2>3, ArrivesOnRoute
  <2>5. Conforms(old, ResponseOf(old), body)
    BY <2>3, <2>4, DescribedConforms DEF TInv, IsBody
  <2> QED
    BY <1>5, <2>5 DEF Encode
<1> QED
  BY <1>1, <1>6, <1>7, <1>8 DEF WayInv

LEMMA DStepHolds == DInv /\ [Next]_vars => DInv'
<1> SUFFICES ASSUME DInv, [Next]_vars PROVE DInv'
  OBVIOUS
<1>0. WayInv
  BY DEF DInv
<1>1. EInv' /\ EInv /\ SInv /\ ChainInv /\ AddInv
  BY EStepHolds DEF DInv, EInv, SInv
<1>2. VInv /\ LayersInv /\ DraftedInv
  BY DEF DInv
<1>3. CASE Add
  <2>1. /\ LowerNext /\ UNCHANGED <<applyVars, shimVars>> /\ phase = "add"
    BY <1>3 DEF Add
  <2>2. verdict = "idle" /\ UNCHANGED <<verdict, leg, upstream, layers, chain, made, phase>>
    BY <1>1, <2>1 DEF ChainInv, Serving, applyVars, shimVars
  <2>3. OutcomeInv' /\ WayInv'
    BY <2>1, <2>2, NothingOnTheWay
  <2>4. VInv' /\ LayersInv' /\ DraftedInv'
    BY <1>2, <2>1, <2>2, BundleKept
  <2> QED
    BY <1>1, <2>3, <2>4 DEF DInv
<1>4. CASE WriteLayer
  <2>1. phase = "add" /\ phase' \in {"add", "shim"} /\ UNCHANGED <<applyVars, made, leg, upstream>>
    BY <1>4 DEF WriteLayer
  <2>2. verdict = "idle" /\ UNCHANGED <<verdict, leg, upstream>> /\ ~ made'.drafted
    BY <1>1, <1>2, <2>1 DEF ChainInv, Serving, applyVars, DraftedInv
  <2>3. OutcomeInv' /\ WayInv'
    BY <2>1, <2>2, NothingOnTheWay
  <2>4. VInv' /\ LayersInv' /\ DraftedInv'
    BY <1>1, <1>2, <1>4, <2>2, WriteLayerLayers DEF DraftedInv
  <2> QED
    BY <1>1, <2>3, <2>4 DEF DInv
<1>5. CASE (\E strict, corrected, optionA \in BOOLEAN : DraftShim(strict, corrected, optionA))
           \/ WriteShim \/ Load
  <2>1. /\ phase = "shim" /\ phase' \in {"shim", "serve", "refused"}
        /\ UNCHANGED <<lowerVars, applyVars, layers, leg, upstream>>
    BY <1>5 DEF DraftShim, WriteShim, Load
  <2>2. verdict = "idle" /\ UNCHANGED <<verdict, leg, upstream>>
    BY <1>1, <2>1 DEF ChainInv, Serving, applyVars
  <2>3. OutcomeInv' /\ WayInv'
    BY <2>1, <2>2, NothingOnTheWay
  <2>4. VInv' /\ LayersInv'
    BY <1>2, <2>1, BuildAccepts DEF LayersInv
  <2>5. DraftedInv'
    <3>1. CASE \E strict, corrected, optionA \in BOOLEAN : DraftShim(strict, corrected, optionA)
      BY <3>1, DraftShimDrafts
    <3>2. CASE WriteShim
      <4>1. chain = <<>> /\ made' = made
        BY <3>2 DEF WriteShim
      <4>2. ~ made.drafted
        <5>1. \A link : <<link>> # <<>>
          OBVIOUS
        <5> QED
          BY <1>2, <4>1, <5>1 DEF DraftedInv
      <4> QED
        BY <4>1, <4>2 DEF DraftedInv
    <3>3. CASE Load
      BY <1>2, <2>1, <3>3 DEF Load, DraftedInv
    <3> QED
      BY <1>5, <3>1, <3>2, <3>3
  <2> QED
    BY <1>1, <2>3, <2>4, <2>5 DEF DInv
<1>6. CASE \/ \E b \in JSONBodies \cup {Nil} : Request(b)
           \/ Run \/ NextLink
           \/ \E b \in Replies \cup {body} : Reply(b)
           \/ PreviousLink \/ Encode \/ TransformFailed
  <2>1. /\ UNCHANGED <<lowerVars, layers, chain, made>>
        /\ phase = "serve" /\ phase' # "add"
    BY <1>6 DEF Request, Run, shimVars, NextLink, Reply, PreviousLink, Encode, TransformFailed
  <2>2. VInv' /\ LayersInv' /\ DraftedInv'
    BY <1>2, <2>1, BundleKept
  <2>3. OutcomeInv' /\ WayInv'
    BY <1>6, RequestWay, RunWay, LinkWay, ReplyWay, OutcomeWay
  <2> QED
    BY <1>1, <2>2, <2>3 DEF DInv
<1>7. CASE UNCHANGED vars
  <2>1. UNCHANGED <<lowerVars, applyVars, shimVars>>
    BY <1>7 DEF vars
  <2>2. UNCHANGED <<layers, chain, made, phase, leg, client, upstream>>
    BY <2>1 DEF shimVars
  <2>3. UNCHANGED <<ops, next, opts, body, given, verdict>>
    BY <2>1 DEF applyVars
  <2>4. VInv' /\ LayersInv' /\ DraftedInv'
    BY <1>2, <2>1, <2>2, BundleKept
  <2>5. OutcomeInv'
    BY <2>2, <2>3 DEF DInv, OutcomeInv
  <2>6. WayInv'
    <3>1. (Going' <=> Going) /\ (Returning' <=> Returning)
      BY <2>2, <2>3 DEF Going, Returning, OnRoute, BodysFault
    <3>2. Spans' => Spans
      BY <2>2, SpansKept DEF Spans, Serving
    <3> QED
      BY <1>0, <2>2, <2>3, <3>1, <3>2 DEF WayInv
  <2> QED
    BY <1>1, <2>4, <2>5, <2>6 DEF DInv
<1> QED
  BY <1>3, <1>4, <1>5, <1>6, <1>7 DEF Next

LEMMA DraftInvariant == Spec => []DInv
  BY DInitHolds, DStepHolds, PTL DEF Spec

\* drift.go:156-177, docs/embedding.md:27-30: for any two documents, however
\* deep, between which only primitive fields come, go and change type, and for
\* any JSON of client and upstream: what goes through a draft without notes,
\* corrected or not as Load demands, and with its candidates taken for renames,
\* is what the upstream's document describes, a reply it describes is an answer
\* to the client, and the only failures are the body's.  The exception are old
\* requests without properties, which have no body (adapter.go:72): they pass if
\* the new ones have none either, and are refused if they have.
THEOREM DraftBridgesHolds == Spec => []DraftBridges
<1>1. DInv => DraftBridges
  <2> SUFFICES ASSUME DInv, made.drafted, made.complete, phase \notin {"shim", "refused"},
                      PlainDrift(layers[1], layers[2], RequestSide),
                      PlainDrift(layers[1], layers[2], ResponseSide)
               PROVE  /\ leg.dir = "response" =>
                            IF HasBody(layers[1])
                            THEN Described(layers[2], RequestOf(layers[2]), upstream.body)
                            ELSE upstream.body = Nil /\ ~ HasBody(layers[2])
                      /\ phase = "422" => BodysFault \/ (~ HasBody(layers[1]) /\ HasBody(layers[2]))
                      /\ Described(layers[2], ResponseOf(layers[2]), given) =>
                            /\ phase = "502" => BodysFault
                            /\ phase # "upstream_error"
    BY DEF DraftBridges
  <2>1. Spans
    BY DEF DInv, DraftedInv, Spans, Serving
  <2>2. CASE verdict = "idle"
    BY <2>2 DEF DInv, OutcomeInv
  <2>3. CASE verdict # "idle"
    <3>1. IF leg.dir = "request" THEN HasBody(layers[1]) => Going
          ELSE /\ HasBody(layers[1]) => Described(layers[2], RequestOf(layers[2]), upstream.body)
               /\ Described(layers[2], ResponseOf(layers[2]), given) =>
                     Returning /\ phase # "upstream_error"
      BY <2>1, <2>3 DEF DInv, WayInv
    <3>2. /\ phase = "422" => verdict = "failed" /\ leg.dir = "request"
          /\ phase = "502" => leg.dir = "response" /\ verdict = "failed"
          /\ phase = "upstream_error" => leg.dir = "response"
      BY DEF DInv, OutcomeInv, EInv, PlaceInv
    <3>3. /\ Going /\ verdict = "failed" => BodysFault
          /\ Returning /\ verdict = "failed" => BodysFault
      BY DEF Going, Returning, OnRoute
    <3>4. ASSUME ~ HasBody(layers[1])
          PROVE  /\ leg.dir = "response" => upstream.body = Nil /\ ~ HasBody(layers[2])
                 /\ phase = "422" => HasBody(layers[2])
      <4>1. client = Nil
        BY <2>3, <3>4 DEF DInv, OutcomeInv
      <4>2. /\ leg.dir = "response" => upstream.body = Nil /\ \A k \in 1..Len(chain) : chain[k].request = <<>>
            /\ leg.dir = "request" /\ verdict = "failed" => chain[leg.link].request # <<>>
        BY <2>3, <4>1 DEF DInv, EInv, NilInv
      <4>3. /\ Len(chain) = 1 /\ leg.link = 1
            /\ chain[1].request = <<>> <=> ~ HasBody(layers[2])
        BY <2>1, <2>3, <3>4, SpansFacts, OpsOfDraft
      <4> QED
        BY <3>2, <4>2, <4>3
    <3> QED
      BY <3>1, <3>2, <3>3, <3>4
  <2> QED
    BY <2>2, <2>3
<1> QED
  BY <1>1, DraftInvariant, PTL
=============================================================================
