--------------------------- MODULE Counting_proofs ---------------------------
(***************************************************************************)
(* What the sums of the models add up to, for every value of their         *)
(* constants: the reservations of VramManager, the sliding windows of      *)
(* Extraction and the memory of GpuPool. The lemmas about SumFunctionOnSet *)
(* come first.                                                             *)
(***************************************************************************)
EXTENDS VramManager, Extraction, GpuPool, FiniteSetTheorems, SequenceTheorems,
        WellFoundedInduction, TLAPS

(***************************************************************************)
(* Sums.  Induction over the numbers is the well-foundedness of <, and     *)
(* induction over finite sets that over their cardinality.                 *)
(***************************************************************************)
LEMMA NatInductionSet ==
  ASSUME NEW S \in SUBSET Nat, 0 \in S, \A n \in S : n + 1 \in S
  PROVE  S = Nat
<1>1. SUFFICES ASSUME Nat \ S # {} PROVE FALSE
  OBVIOUS
<1>2. PICK x \in Nat \ S : \A y \in Nat \ S : ~ (<<y, x>> \in OpToRel(<, Nat))
  <2>1. Nat \ S \subseteq Nat
    OBVIOUS
  <2>2. QED
    BY <1>1, <2>1, NatLessThanWellFounded, WFMin
<1>3. x - 1 \in Nat /\ x - 1 < x
  OBVIOUS
<1>4. <<x - 1, x>> \in OpToRel(<, Nat)
  BY <1>3 DEF OpToRel
<1>5. x - 1 \in S
  BY <1>2, <1>3, <1>4
<1>6. QED
  BY <1>5, <1>3

(* The table of the sums over the parts of a set, as MapThenFoldSet has it.*)
Pick(s) == CHOOSE x \in s : TRUE
SumAt(f, t, s) == IF s = {} THEN 0 ELSE f[Pick(s)] + t[s \ {Pick(s)}]
Table(f, S, t) == t = [s \in SUBSET S |-> SumAt(f, t, s)]

LEMMA SumIsTabled ==
  ASSUME NEW f, NEW S
  PROVE  SumFunctionOnSet(f, S) = (CHOOSE t : Table(f, S, t))[S]
BY DEF SumFunctionOnSet, FoldFunctionOnSet, MapThenFoldSet, Table, SumAt, Pick

LEMMA PickIn == ASSUME NEW s, s # {} PROVE Pick(s) \in s
  BY DEF Pick

(* The parts of a set up to a size, and what taking an element leaves.     *)
Parts(S, n) == {s \in SUBSET S : Cardinality(s) <= n}

LEMMA PartsShrink ==
  ASSUME NEW S, IsFiniteSet(S), NEW n \in Nat
  PROVE  /\ Parts(S, 0) = {{}}
         /\ Parts(S, n) \subseteq Parts(S, n + 1)
         /\ \A s \in Parts(S, n + 1) : \A x \in s : s \ {x} \in Parts(S, n)
         /\ Parts(S, Cardinality(S)) = SUBSET S
<1>1. \A s \in SUBSET S : IsFiniteSet(s) /\ Cardinality(s) \in Nat /\ Cardinality(s) <= Cardinality(S)
  BY FS_Subset, FS_CardinalityType
<1>2. Parts(S, 0) = {{}}
  <2>1. \A s \in SUBSET S : Cardinality(s) <= 0 <=> s = {}
    BY <1>1, FS_EmptySet
  <2>2. QED
    BY <2>1 DEF Parts
<1>3. Parts(S, n) \subseteq Parts(S, n + 1)
  BY <1>1 DEF Parts
<1>4. ASSUME NEW s \in Parts(S, n + 1), NEW x \in s PROVE s \ {x} \in Parts(S, n)
  <2>1. s \in SUBSET S /\ Cardinality(s) <= n + 1
    BY DEF Parts
  <2>2. Cardinality(s \ {x}) = Cardinality(s) - 1
    BY <1>1, <2>1, FS_RemoveElement
  <2>3. QED
    BY <1>1, <2>1, <2>2 DEF Parts
<1>5. Parts(S, Cardinality(S)) = SUBSET S
  BY <1>1 DEF Parts
<1>6. QED
  BY <1>2, <1>3, <1>4, <1>5

LEMMA TableExists ==
  ASSUME NEW f, NEW S, IsFiniteSet(S)
  PROVE  \E t : Table(f, S, t)
<1> DEFINE Upto(n, t) == t = [s \in Parts(S, n) |-> SumAt(f, t, s)]
           N == {n \in Nat : \E t : Upto(n, t)}
<1>1. 0 \in N
  <2>1. PICK t : t = [s \in {{}} |-> 0]
    OBVIOUS
  <2>2. t = [s \in {{}} |-> SumAt(f, t, s)]
    BY <2>1 DEF SumAt
  <2>3. QED
    BY <2>2, PartsShrink
<1>2. ASSUME NEW n \in N PROVE n + 1 \in N
  <2>1. PICK t : t = [s \in Parts(S, n) |-> SumAt(f, t, s)]
    OBVIOUS
  <2>2. PICK u : u = [s \in Parts(S, n + 1) |-> SumAt(f, t, s)]
    OBVIOUS
  <2>3. \A s \in Parts(S, n) : u[s] = t[s]
    BY <2>1, <2>2, PartsShrink
  <2>4. ASSUME NEW s \in Parts(S, n + 1) PROVE SumAt(f, t, s) = SumAt(f, u, s)
    BY <2>3, PartsShrink, PickIn DEF SumAt
  <2>5. u = [s \in Parts(S, n + 1) |-> SumAt(f, u, s)]
    BY <2>2, <2>4
  <2>6. QED
    BY <2>5
<1>3. N = Nat
  <2> HIDE DEF Upto
  <2>1. N \in SUBSET Nat
    OBVIOUS
  <2>2. QED
    BY <1>1, <1>2, <2>1, NatInductionSet
<1>4. Cardinality(S) \in N
  BY <1>3, FS_CardinalityType
<1>5. QED
  <2>1. PICK t : Upto(Cardinality(S), t)
    BY <1>4
  <2>2. t = [s \in SUBSET S |-> SumAt(f, t, s)]
    BY <2>1, PartsShrink, FS_CardinalityType
  <2>3. QED
    BY <2>2 DEF Table

(* Tables of sets that agree where they meet.                              *)
LEMMA TablesAgree ==
  ASSUME NEW f, NEW g, NEW S, NEW T, IsFiniteSet(S), T \in SUBSET S,
         NEW t, Table(f, S, t), NEW u, Table(g, T, u),
         \A x \in T : f[x] = g[x]
  PROVE  \A s \in SUBSET T : t[s] = u[s]
<1> DEFINE N == {n \in Nat : \A s \in Parts(T, n) : t[s] = u[s]}
<1>0. IsFiniteSet(T)
  BY FS_Subset
<1>1. /\ \A s \in SUBSET T : t[s] = SumAt(f, t, s) /\ u[s] = SumAt(g, u, s)
  BY DEF Table
<1>2. 0 \in N
  <2>1. Parts(T, 0) = {{}}
    BY <1>0, PartsShrink
  <2>2. QED
    BY <1>1, <2>1 DEF SumAt
<1>3. ASSUME NEW n \in N PROVE n + 1 \in N
  <2>1. SUFFICES ASSUME NEW s \in Parts(T, n + 1) PROVE t[s] = u[s]
    OBVIOUS
  <2>2. s \in SUBSET T
    BY DEF Parts
  <2>3. CASE s = {}
    BY <1>1, <2>3 DEF SumAt
  <2>4. CASE s # {}
    <3>1. Pick(s) \in s /\ s \ {Pick(s)} \in Parts(T, n)
      BY <1>0, <2>4, PickIn, PartsShrink
    <3>2. f[Pick(s)] = g[Pick(s)] /\ t[s \ {Pick(s)}] = u[s \ {Pick(s)}]
      BY <2>2, <3>1
    <3>3. QED
      BY <1>1, <2>2, <2>4, <3>2 DEF SumAt
  <2>5. QED
    BY <2>3, <2>4
<1>4. N = Nat
  <2>1. N \in SUBSET Nat
    OBVIOUS
  <2> HIDE DEF N
  <2>2. QED
    BY <1>2, <1>3, <2>1, NatInductionSet
<1>5. Cardinality(T) \in N
  BY <1>0, <1>4, FS_CardinalityType
<1>6. QED
  BY <1>0, <1>5, PartsShrink

LEMMA SumTable ==
  ASSUME NEW f, NEW S, IsFiniteSet(S)
  PROVE  \E t : Table(f, S, t) /\ SumFunctionOnSet(f, S) = t[S]
  BY TableExists, SumIsTabled

(* The sum depends on the values over the set alone.                       *)
LEMMA SumSame ==
  ASSUME NEW f, NEW g, NEW S, IsFiniteSet(S), \A x \in S : f[x] = g[x]
  PROVE  SumFunctionOnSet(f, S) = SumFunctionOnSet(g, S)
<1>1. PICK t : Table(f, S, t) /\ SumFunctionOnSet(f, S) = t[S]
  BY SumTable
<1>2. PICK u : Table(g, S, u) /\ SumFunctionOnSet(g, S) = u[S]
  BY SumTable
<1>3. \A s \in SUBSET S : t[s] = u[s]
  <2>1. S \in SUBSET S
    OBVIOUS
  <2>2. QED
    BY <1>1, <1>2, <2>1, TablesAgree
<1>4. QED
  BY <1>1, <1>2, <1>3

LEMMA SumPick ==
  ASSUME NEW f, NEW S, IsFiniteSet(S)
  PROVE  SumFunctionOnSet(f, S) =
           IF S = {} THEN 0 ELSE f[Pick(S)] + SumFunctionOnSet(f, S \ {Pick(S)})
<1>1. PICK t : Table(f, S, t) /\ SumFunctionOnSet(f, S) = t[S]
  BY SumTable
<1>2. t[S] = SumAt(f, t, S)
  BY <1>1 DEF Table
<1>3. ASSUME S # {} PROVE t[S \ {Pick(S)}] = SumFunctionOnSet(f, S \ {Pick(S)})
  <2> DEFINE T == S \ {Pick(S)}
  <2>1. IsFiniteSet(T) /\ T \in SUBSET S
    BY FS_Subset
  <2> HIDE DEF T
  <2>2. PICK u : Table(f, T, u) /\ SumFunctionOnSet(f, T) = u[T]
    BY <2>1, SumTable
  <2>3. t[T] = u[T]
    BY <1>1, <2>1, <2>2, TablesAgree
  <2>4. QED
    BY <2>2, <2>3 DEF T
<1>4. QED
  BY <1>1, <1>2, <1>3 DEF SumAt

(* A sum of integers, over an empty set, and without one of its elements.  *)
LEMMA SumTakes ==
  ASSUME NEW f, NEW S, IsFiniteSet(S), \A x \in S : f[x] \in Int
  PROVE  /\ SumFunctionOnSet(f, S) \in Int
         /\ \A x \in S : SumFunctionOnSet(f, S) = f[x] + SumFunctionOnSet(f, S \ {x})
         /\ SumFunctionOnSet(f, {}) = 0
<1>s. PICK Sum : Sum = [s \in SUBSET S |-> SumFunctionOnSet(f, s)]
  OBVIOUS
<1> DEFINE N == {n \in Nat : \A s \in Parts(S, n) :
                   Sum[s] \in Int /\ \A x \in s : Sum[s] = f[x] + Sum[s \ {x}]}
<1>0. \A s \in SUBSET S : IsFiniteSet(s)
  BY FS_Subset
<1>1. /\ Sum[{}] = 0
      /\ \A s \in SUBSET S : s # {} => Sum[s] = f[Pick(s)] + Sum[s \ {Pick(s)}]
  <2>1. {} \in SUBSET S /\ \A s \in SUBSET S : s \ {Pick(s)} \in SUBSET S
    OBVIOUS
  <2>2. Sum[{}] = 0
    BY <1>s, <1>0, <2>1, SumPick
  <2>3. ASSUME NEW s \in SUBSET S, s # {} PROVE Sum[s] = f[Pick(s)] + Sum[s \ {Pick(s)}]
    <3>1. SumFunctionOnSet(f, s) = f[Pick(s)] + SumFunctionOnSet(f, s \ {Pick(s)})
      BY <1>0, <2>3, SumPick
    <3>2. QED
      BY <1>s, <2>1, <3>1
  <2>4. QED
    BY <2>2, <2>3
<1>2. 0 \in N
  <2>1. \A s \in Parts(S, 0) : s = {}
    BY PartsShrink
  <2>2. ASSUME NEW s \in Parts(S, 0)
        PROVE  Sum[s] \in Int /\ \A x \in s : Sum[s] = f[x] + Sum[s \ {x}]
    <3>1. s = {}
      BY <2>1
    <3>2. Sum[s] = 0
      BY <1>1, <3>1
    <3>3. QED
      BY <3>1, <3>2
  <2>3. QED
    BY <2>2
<1>3. ASSUME NEW n \in N PROVE n + 1 \in N
  <2>1. SUFFICES ASSUME NEW s \in Parts(S, n + 1)
                 PROVE  Sum[s] \in Int /\ \A x \in s : Sum[s] = f[x] + Sum[s \ {x}]
    OBVIOUS
  <2>2. s \in SUBSET S
    BY DEF Parts
  <2>3. CASE s = {}
    BY <1>1, <2>3
  <2>4. CASE s # {}
    <3> DEFINE p == Pick(s)
    <3>1. p \in s /\ p \in S /\ f[p] \in Int /\ \A x \in s : s \ {x} \in Parts(S, n)
      BY <2>2, <2>4, PickIn, PartsShrink
    <3>2. Sum[s] = f[p] + Sum[s \ {p}]
      BY <1>1, <2>2, <2>4
    <3> HIDE DEF p
    <3>3. \A x \in s : Sum[s \ {x}] \in Int /\ \A y \in s \ {x} : Sum[s \ {x}] = f[y] + Sum[(s \ {x}) \ {y}]
      BY <3>1
    <3>4. ASSUME NEW x \in s, x # p PROVE Sum[s] = f[x] + Sum[s \ {x}]
      <4>1. Sum[s \ {p}] = f[x] + Sum[(s \ {p}) \ {x}]
        BY <3>1, <3>3, <3>4
      <4>2. Sum[s \ {x}] = f[p] + Sum[(s \ {x}) \ {p}]
        BY <3>1, <3>3, <3>4
      <4>3. (s \ {p}) \ {x} = (s \ {x}) \ {p}
        OBVIOUS
      <4>4. (s \ {p}) \ {x} \in Parts(S, n) /\ f[x] \in Int
        <5>1. s \ {p} \in Parts(S, n)
          BY <3>1
        <5>2. s \ {p} \in Parts(S, n + 1)
          BY <5>1, PartsShrink
        <5>3. x \in s \ {p}
          BY <3>4
        <5>4. QED
          BY <2>2, <5>2, <5>3, PartsShrink
      <4>5. Sum[(s \ {p}) \ {x}] \in Int
        BY <4>4
      <4>6. PICK rest \in Int : rest = Sum[(s \ {p}) \ {x}]
        BY <4>5
      <4>7. /\ Sum[s] = f[p] + (f[x] + rest) /\ Sum[s \ {x}] = f[p] + rest
            /\ f[p] \in Int /\ f[x] \in Int
        BY <3>1, <3>2, <4>1, <4>2, <4>3, <4>4, <4>6
      <4>8. QED
        BY <4>7
    <3>5. Sum[s] \in Int
      BY <3>1, <3>2, <3>3
    <3>6. ASSUME NEW x \in s PROVE Sum[s] = f[x] + Sum[s \ {x}]
      <4>1. CASE x = p
        BY <3>2, <4>1
      <4>2. CASE x # p
        BY <3>4, <4>2
      <4>3. QED
        BY <4>1, <4>2
    <3>7. QED
      BY <3>5, <3>6
  <2>5. QED
    BY <2>3, <2>4
<1>4. N = Nat
  <2>1. N \in SUBSET Nat
    OBVIOUS
  <2> HIDE DEF N
  <2>2. QED
    BY <1>2, <1>3, <2>1, NatInductionSet
<1>5. Cardinality(S) \in N
  BY <1>4, FS_CardinalityType
<1>6. QED
  <2>1. /\ Sum[S] \in Int /\ \A x \in S : Sum[S] = f[x] + Sum[S \ {x}]
        /\ Sum[{}] = 0
    BY <1>1, <1>5, PartsShrink
  <2>2. /\ Sum[S] = SumFunctionOnSet(f, S) /\ Sum[{}] = SumFunctionOnSet(f, {})
        /\ \A x \in S : Sum[S \ {x}] = SumFunctionOnSet(f, S \ {x})
    BY <1>s
  <2>3. QED
    BY <2>1, <2>2

(* A sum of natural numbers, which are at most m.                          *)
LEMMA SumBound ==
  ASSUME NEW f, NEW S, IsFiniteSet(S), \A x \in S : f[x] \in Nat
  PROVE  /\ SumFunctionOnSet(f, S) \in Nat
         /\ \A m \in Nat : (\A x \in S : f[x] <= m) =>
              SumFunctionOnSet(f, S) <= Cardinality(S) * m
<1>s. PICK Sum : Sum = [s \in SUBSET S |-> SumFunctionOnSet(f, s)]
  OBVIOUS
<1>0. \A s \in SUBSET S : IsFiniteSet(s) /\ Cardinality(s) \in Nat
  BY FS_Subset, FS_CardinalityType
<1>1. /\ Sum[{}] = 0
      /\ \A s \in SUBSET S : \A x \in s : Sum[s] = f[x] + Sum[s \ {x}]
  <2>1. ASSUME NEW s \in SUBSET S, NEW x \in s PROVE Sum[s] = f[x] + Sum[s \ {x}]
    <3>1. \A y \in s : f[y] \in Int
      OBVIOUS
    <3>2. SumFunctionOnSet(f, s) = f[x] + SumFunctionOnSet(f, s \ {x})
      BY <1>0, <3>1, SumTakes
    <3>3. s \in SUBSET S /\ s \ {x} \in SUBSET S
      OBVIOUS
    <3>4. QED
      BY <1>s, <3>2, <3>3
  <2>2. Sum[{}] = 0
    <3>1. {} \in SUBSET S /\ \A y \in S : f[y] \in Int
      OBVIOUS
    <3>2. QED
      BY <1>s, <3>1, SumTakes
  <2>3. QED
    BY <2>1, <2>2
<1> DEFINE Bounded(s) ==
      /\ Sum[s] \in Nat
      /\ \A m \in Nat : (\A x \in s : f[x] <= m) => Sum[s] <= Cardinality(s) * m
<1>e. ASSUME NEW s, s = {} PROVE Bounded(s)
  <2>1. Sum[s] = 0 /\ Cardinality(s) = 0
    BY <1>1, <1>e, FS_EmptySet
  <2>2. \A m \in Nat : 0 * m = 0
    OBVIOUS
  <2>3. QED
    BY <2>1, <2>2
<1> DEFINE N == {n \in Nat : \A s \in Parts(S, n) : Bounded(s)}
<1>2. 0 \in N
  <2>1. \A s \in Parts(S, 0) : s = {}
    BY PartsShrink
  <2> HIDE DEF Bounded
  <2>2. QED
    BY <1>e, <2>1
<1>3. ASSUME NEW n \in N PROVE n + 1 \in N
  <2>1. ASSUME NEW s \in Parts(S, n + 1), s # {} PROVE Bounded(s)
    <3>1. PICK x \in s : TRUE
      BY <2>1
    <3>2. s \in SUBSET S /\ f[x] \in Nat
      BY DEF Parts
    <3>3. PICK k \in Nat : k = Cardinality(s \ {x})
      BY <1>0, <3>2
    <3>4. Cardinality(s) = k + 1
      BY <1>0, <3>2, <3>3, FS_RemoveElement
    <3>5. Bounded(s \ {x})
      <4>1. s \ {x} \in Parts(S, n)
        BY PartsShrink
      <4> HIDE DEF Bounded
      <4>2. QED
        BY <4>1
    <3>6. Sum[s] = f[x] + Sum[s \ {x}]
      BY <1>1, <3>2
    <3>7. ASSUME NEW m \in Nat, \A y \in s : f[y] <= m PROVE Sum[s] <= Cardinality(s) * m
      <4>1. PICK r \in Nat : r = Sum[s \ {x}] /\ r <= k * m
        BY <3>3, <3>5, <3>7
      <4>2. (k + 1) * m = k * m + m /\ k * m \in Nat
        OBVIOUS
      <4>3. f[x] <= m
        BY <3>7
      <4>4. QED
        BY <3>2, <3>4, <3>6, <4>1, <4>2, <4>3
    <3>8. Sum[s] \in Nat
      BY <3>2, <3>5, <3>6
    <3>9. QED
      BY <3>7, <3>8
  <2> HIDE DEF Bounded
  <2>2. QED
    BY <1>e, <2>1
<1>4. N = Nat
  <2>1. N \in SUBSET Nat
    OBVIOUS
  <2> HIDE DEF N
  <2>2. QED
    BY <1>2, <1>3, <2>1, NatInductionSet
<1>5. \A s \in Parts(S, Cardinality(S)) : Bounded(s)
  <2> HIDE DEF Bounded
  <2>1. QED
    BY <1>4, FS_CardinalityType
<1>6. S \in Parts(S, Cardinality(S)) /\ Sum[S] = SumFunctionOnSet(f, S)
  BY <1>s, PartsShrink, FS_CardinalityType
<1>7. QED
  BY <1>5, <1>6

(* A finite set of numbers has a greatest one.                             *)
LEMMA Greatest ==
  ASSUME NEW S, IsFiniteSet(S), S # {}, S \subseteq Nat
  PROVE  Max(S) \in S /\ \A y \in S : y <= Max(S)
<1> DEFINE N == {n \in Nat : \A s \in Parts(S, n) : s # {} => \E x \in s : \A y \in s : y <= x}
<1>1. 0 \in N
  BY PartsShrink
<1>2. ASSUME NEW n \in N PROVE n + 1 \in N
  <2>1. SUFFICES ASSUME NEW s \in Parts(S, n + 1), s # {}
                 PROVE  \E x \in s : \A y \in s : y <= x
    OBVIOUS
  <2>2. PICK x \in s : TRUE
    BY <2>1
  <2>3. s \ {x} \in Parts(S, n) /\ s \subseteq Nat
    BY PartsShrink DEF Parts
  <2>4. CASE s \ {x} = {}
    BY <2>3, <2>4
  <2>5. CASE s \ {x} # {}
    <3>1. PICK z \in s \ {x} : \A y \in s \ {x} : y <= z
      BY <2>3, <2>5
    <3>2. CASE x <= z
      BY <2>3, <3>1, <3>2
    <3>3. CASE z <= x
      BY <2>3, <3>1, <3>3
    <3>4. QED
      BY <2>3, <3>2, <3>3
  <2>6. QED
    BY <2>4, <2>5
<1>3. N = Nat
  <2>1. N \in SUBSET Nat
    OBVIOUS
  <2> HIDE DEF N
  <2>2. QED
    BY <1>1, <1>2, <2>1, NatInductionSet
<1>4. Cardinality(S) \in N /\ S \in Parts(S, Cardinality(S))
  BY <1>3, PartsShrink, FS_CardinalityType
<1>5. \E x \in S : \A y \in S : x >= y
  BY <1>4
<1>6. QED
  BY <1>5 DEF Max

(* A sum after the value of x has changed, or x has come to the set.       *)
LEMMA SumUpdate ==
  ASSUME NEW f, NEW S, IsFiniteSet(S), NEW g, NEW x,
         \A y \in S : f[y] \in Nat, \A y \in S \ {x} : g[y] = f[y], g[x] \in Nat
  PROVE  /\ SumFunctionOnSet(g, S \cup {x}) = g[x] + SumFunctionOnSet(f, S \ {x})
         /\ SumFunctionOnSet(f, S \ {x}) \in Nat
         /\ x \in S => SumFunctionOnSet(f, S) = f[x] + SumFunctionOnSet(f, S \ {x})
         /\ x \notin S => SumFunctionOnSet(f, S) = SumFunctionOnSet(f, S \ {x})
<1>1. IsFiniteSet(S \cup {x}) /\ IsFiniteSet(S \ {x})
  BY FS_AddElement, FS_RemoveElement
<1>2. (S \cup {x}) \ {x} = S \ {x} /\ (x \notin S => S \ {x} = S)
  OBVIOUS
<1>3. SumFunctionOnSet(g, S \ {x}) = SumFunctionOnSet(f, S \ {x})
  BY <1>1, SumSame
<1>4. SumFunctionOnSet(g, S \cup {x}) = g[x] + SumFunctionOnSet(g, (S \cup {x}) \ {x})
  <2>1. \A y \in S \cup {x} : g[y] \in Int
    OBVIOUS
  <2>2. QED
    BY <1>1, <2>1, SumTakes
<1>5. SumFunctionOnSet(f, S \ {x}) \in Nat
  BY <1>1, SumBound
<1>6. x \in S => SumFunctionOnSet(f, S) = f[x] + SumFunctionOnSet(f, S \ {x})
  <2>1. \A y \in S : f[y] \in Int
    OBVIOUS
  <2>2. QED
    BY <2>1, SumTakes
<1>7. QED
  BY <1>2, <1>3, <1>4, <1>5, <1>6

(* The sum after the indices have been renamed.                            *)
Renames(h, f, S, g, T) ==
  /\ \A x \in S : h[x] \in T /\ g[h[x]] = f[x]
  /\ \A x, y \in S : h[x] = h[y] => x = y
  /\ \A y \in T : \E x \in S : h[x] = y

LEMMA SumMoved ==
  ASSUME NEW f, NEW S, IsFiniteSet(S), \A x \in S : f[x] \in Int,
         NEW g, NEW T, NEW h, Renames(h, f, S, g, T)
  PROVE  SumFunctionOnSet(g, T) = SumFunctionOnSet(f, S)
<1>0. /\ \A x \in S : g[h[x]] = f[x]
      /\ \A x, y \in S : h[x] = h[y] => x = y
  BY DEF Renames
<1> DEFINE N == {n \in Nat : \A s \in Parts(S, n) :
                   IsFiniteSet({h[x] : x \in s})
                   /\ SumFunctionOnSet(g, {h[x] : x \in s}) = SumFunctionOnSet(f, s)}
<1>1. 0 \in N
  <2>1. {h[x] : x \in {}} = {} /\ IsFiniteSet({})
    BY FS_EmptySet
  <2>2. SumFunctionOnSet(g, {}) = SumFunctionOnSet(f, {})
    BY <2>1, SumSame
  <2>3. \A s \in Parts(S, 0) : s = {}
    BY PartsShrink
  <2>4. QED
    BY <2>1, <2>2, <2>3
<1>2. ASSUME NEW n \in N PROVE n + 1 \in N
  <2>0. n \in Nat /\ \A s \in Parts(S, n) :
          /\ IsFiniteSet({h[x] : x \in s})
          /\ SumFunctionOnSet(g, {h[x] : x \in s}) = SumFunctionOnSet(f, s)
    OBVIOUS
  <2> HIDE DEF N
  <2>1. SUFFICES ASSUME NEW s \in Parts(S, n + 1)
                 PROVE  /\ IsFiniteSet({h[x] : x \in s})
                        /\ SumFunctionOnSet(g, {h[x] : x \in s}) = SumFunctionOnSet(f, s)
    BY <2>0 DEF N
  <2>2. s \in SUBSET S /\ IsFiniteSet(s)
    BY FS_Subset DEF Parts
  <2>3. CASE s = {}
    <3>1. {h[x] : x \in s} = {} /\ s \in Parts(S, n)
      BY <2>0, <2>3, FS_EmptySet DEF Parts
    <3>2. QED
      BY <2>0, <3>1
  <2>4. CASE s # {}
    <3>1. PICK x \in s : TRUE
      BY <2>4
    <3>2. PICK r : r = s \ {x}
      OBVIOUS
    <3>3. r \in Parts(S, n) /\ s = r \cup {x} /\ x \notin r
      BY <2>0, <3>1, <3>2, PartsShrink
    <3>4. PICK H, K : H = {h[y] : y \in r} /\ K = {h[y] : y \in s}
      OBVIOUS
    <3>5. IsFiniteSet(H) /\ SumFunctionOnSet(g, H) = SumFunctionOnSet(f, r)
      BY <2>0, <3>3, <3>4
    <3>6. h[x] \notin H
      BY <1>0, <2>2, <3>3, <3>4
    <3>7. K = H \cup {h[x]}
      BY <3>3, <3>4
    <3>8. h[x] \in K /\ H = K \ {h[x]}
      BY <3>6, <3>7
    <3>9. IsFiniteSet(K)
      BY <3>5, <3>7, FS_AddElement
    <3>10. \A k \in K : g[k] \in Int
      <4>1. \A y \in s : g[h[y]] \in Int
        BY <1>0, <2>2
      <4>2. QED
        BY <3>4, <4>1
    <3>11. SumFunctionOnSet(g, K) = g[h[x]] + SumFunctionOnSet(g, H)
      BY <3>8, <3>9, <3>10, SumTakes
    <3>12. SumFunctionOnSet(f, s) = f[x] + SumFunctionOnSet(f, r)
      <4>1. \A y \in s : f[y] \in Int
        BY <2>2
      <4>2. QED
        BY <2>2, <3>1, <3>2, <4>1, SumTakes
    <3>13. g[h[x]] = f[x]
      BY <1>0, <2>2, <3>1
    <3>14. QED
      BY <3>4, <3>5, <3>9, <3>11, <3>12, <3>13
  <2>5. QED
    BY <2>3, <2>4
<1>3. N = Nat
  <2>1. N \in SUBSET Nat
    OBVIOUS
  <2> HIDE DEF N
  <2>2. QED
    BY <1>1, <1>2, <2>1, NatInductionSet
<1>4. Cardinality(S) \in N /\ S \in Parts(S, Cardinality(S))
  <2>1. S \in SUBSET S
    OBVIOUS
  <2>2. QED
    BY <1>3, <2>1, FS_CardinalityType, PartsShrink
<1>5. {h[x] : x \in S} = T
  BY DEF Renames
<1>6. QED
  BY <1>4, <1>5

(* The sum leaves out what is zero.                                        *)
LEMMA SumZeros ==
  ASSUME NEW f, NEW S, NEW T, IsFiniteSet(S), T \in SUBSET S,
         \A x \in S : f[x] \in Nat, \A x \in S \ T : f[x] = 0
  PROVE  SumFunctionOnSet(f, S) = SumFunctionOnSet(f, T)
<1> DEFINE N == {n \in Nat : \A s \in Parts(S, n) :
                   SumFunctionOnSet(f, s) = SumFunctionOnSet(f, s \cap T)}
<1>1. 0 \in N
  <2>1. {} \cap T = {}
    OBVIOUS
  <2>2. QED
    BY <2>1, PartsShrink
<1>2. ASSUME NEW n \in N PROVE n + 1 \in N
  <2>0. n \in Nat /\ \A s \in Parts(S, n) : SumFunctionOnSet(f, s) = SumFunctionOnSet(f, s \cap T)
    OBVIOUS
  <2> HIDE DEF N
  <2>1. SUFFICES ASSUME NEW s \in Parts(S, n + 1)
                 PROVE  SumFunctionOnSet(f, s) = SumFunctionOnSet(f, s \cap T)
    BY <2>0 DEF N
  <2>2. s \in SUBSET S /\ IsFiniteSet(s) /\ IsFiniteSet(s \cap T)
    BY FS_Subset DEF Parts
  <2>3. CASE s = {}
    <3>1. s \cap T = s
      BY <2>3
    <3>2. QED
      BY <3>1
  <2>4. CASE s # {}
    <3>1. PICK x \in s : TRUE
      BY <2>4
    <3>2. SumFunctionOnSet(f, s \ {x}) = SumFunctionOnSet(f, (s \ {x}) \cap T)
      BY <2>0, <3>1, PartsShrink
    <3>3. SumFunctionOnSet(f, s) = f[x] + SumFunctionOnSet(f, s \ {x})
      <4>1. \A y \in s : f[y] \in Int
        BY <2>2
      <4>2. QED
        BY <2>2, <4>1, SumTakes
    <3>4. CASE x \in T
      <4>1. \A y \in s \cap T : f[y] \in Int
        BY <2>2
      <4>2. PICK u : u = s \cap T
        OBVIOUS
      <4>3. x \in u /\ IsFiniteSet(u) /\ \A y \in u : f[y] \in Int
        BY <2>2, <3>1, <3>4, <4>1, <4>2
      <4>4. SumFunctionOnSet(f, u) = f[x] + SumFunctionOnSet(f, u \ {x})
        BY <4>3, SumTakes
      <4>5. u \ {x} = (s \ {x}) \cap T
        BY <4>2
      <4>6. QED
        BY <3>2, <3>3, <4>2, <4>4, <4>5
    <3>5. CASE x \notin T
      <4>1. (s \ {x}) \cap T = s \cap T /\ f[x] = 0
        BY <2>2, <3>1, <3>5
      <4>2. SumFunctionOnSet(f, s \ {x}) \in Nat
        <5>1. IsFiniteSet(s \ {x}) /\ \A y \in s \ {x} : f[y] \in Nat
          BY <2>2, FS_RemoveElement
        <5>2. QED
          BY <5>1, SumBound
      <4>3. QED
        BY <3>2, <3>3, <4>1, <4>2
    <3>6. QED
      BY <3>4, <3>5
  <2>5. QED
    BY <2>3, <2>4
<1>3. N = Nat
  <2>1. N \in SUBSET Nat
    OBVIOUS
  <2> HIDE DEF N
  <2>2. QED
    BY <1>1, <1>2, <2>1, NatInductionSet
<1>4. Cardinality(S) \in N /\ S \in Parts(S, Cardinality(S))
  <2>1. S \in SUBSET S
    OBVIOUS
  <2>2. QED
    BY <1>3, <2>1, FS_CardinalityType, PartsShrink
<1>5. S \cap T = T
  OBVIOUS
<1>6. QED
  BY <1>4, <1>5

-----------------------------------------------------------------------------
(* VramManager.                                                            *)

VramTypes ==
  /\ DOMAIN allocated \subseteq VramAgents /\ \A a \in DOMAIN allocated : allocated[a] \in VramRequests
  /\ reserving \in [VramCallers -> {NotReserving}
                       \cup [pc : {"accepted"}, agent : VramAgents, bytes : VramRequests]]

Asked == [c \in VramCallers |-> reserving[c].bytes]

VramInv == VramTypes /\ OverbookedByRacesOnly

LEMMA LargestRequest ==
  /\ Max(VramRequests) \in VramRequests /\ Max(VramRequests) \in Nat
  /\ \A b \in VramRequests : b \in 0 .. Max(VramRequests)
<1>1. /\ IsFiniteSet(VramRequests) /\ VramRequests # {} /\ VramRequests \subseteq Nat
  BY VramAssumption
<1>2. Max(VramRequests) \in VramRequests /\ \A b \in VramRequests : b <= Max(VramRequests)
  BY <1>1, Greatest
<1>3. PICK m \in Nat : m = Max(VramRequests)
  BY <1>1, <1>2
<1>4. \A b \in VramRequests : b \in Nat /\ b <= m
  BY <1>1, <1>2, <1>3
<1>5. \A b \in VramRequests : b \in 0 .. m
  BY <1>4
<1>6. QED
  BY <1>2, <1>3, <1>5

LEMMA UsageSums ==
  ASSUME VramTypes
  PROVE  /\ IsFiniteSet(DOMAIN allocated) /\ IsFiniteSet(VramCallers)
         /\ \A a \in DOMAIN allocated : allocated[a] \in Nat
         /\ \A c \in VramCallers : Asked[c] \in 0 .. Max(VramRequests)
         /\ DOMAIN Asked = VramCallers
         /\ current_usage \in Nat
<1>1. IsFiniteSet(DOMAIN allocated) /\ IsFiniteSet(VramCallers)
  BY VramAssumption, FS_Subset DEF VramTypes
<1>2. \A a \in DOMAIN allocated : allocated[a] \in Nat
  BY VramAssumption DEF VramTypes
<1>3. \A c \in VramCallers : reserving[c].bytes \in VramRequests \cup {0}
  BY DEF VramTypes, NotReserving
<1>4. \A c \in VramCallers : Asked[c] \in 0 .. Max(VramRequests)
  BY <1>3, LargestRequest DEF Asked
<1>5. current_usage \in Nat
  BY <1>1, <1>2, SumBound DEF current_usage, SumFunction
<1>6. QED
  BY <1>1, <1>2, <1>4, <1>5 DEF Asked

(* The right-hand side of the property does not change.                    *)
LEMMA ExcessIsNat ==
  /\ (Cardinality(VramCallers) - 1) * Max(VramRequests) \in Nat
  /\ circuit_breaker_threshold * vram_capacity \in Nat
<1>1. Cardinality(VramCallers) - 1 \in Nat
  BY VramAssumption, FS_CardinalityType, FS_EmptySet
<1>2. QED
  BY <1>1, LargestRequest, VramAssumption

(* What the callers have been accepted for, when c's part of it changes.   *)
LEMMA AskedUpdate ==
  ASSUME VramTypes, VramTypes', NEW c \in VramCallers,
         \A d \in VramCallers \ {c} : reserving'[d] = reserving[d]
  PROVE  \E rest \in 0 .. (Cardinality(VramCallers) - 1) * Max(VramRequests) :
           /\ SumFunction(Asked) = reserving[c].bytes + rest
           /\ SumFunction(Asked') = reserving'[c].bytes + rest
<1> DEFINE rest == SumFunctionOnSet(Asked, VramCallers \ {c})
           m == Max(VramRequests)
<1>1. /\ IsFiniteSet(VramCallers) /\ IsFiniteSet(VramCallers \ {c}) /\ m \in Nat
      /\ Cardinality(VramCallers \ {c}) = Cardinality(VramCallers) - 1
  BY VramAssumption, FS_RemoveElement, LargestRequest
<1>2. \A d \in VramCallers : Asked[d] \in 0 .. m
  BY UsageSums
<1>3. Asked' = [d \in VramCallers |-> reserving'[d].bytes] /\ Asked'[c] = reserving'[c].bytes
      /\ Asked[c] = reserving[c].bytes
  BY DEF Asked
<1>4. \A d \in VramCallers \ {c} : Asked'[d] = Asked[d]
  BY <1>3 DEF Asked
<1>5. Asked'[c] \in Nat
  <2>1. reserving'[c] \in {NotReserving} \cup [pc : {"accepted"}, agent : VramAgents, bytes : VramRequests]
    BY DEF VramTypes
  <2>2. reserving'[c].bytes \in VramRequests \cup {0}
    BY <2>1 DEF NotReserving
  <2>3. PICK b : b = reserving'[c].bytes
    OBVIOUS
  <2>4. b \in VramRequests \cup {0} /\ VramRequests \subseteq Nat
    BY <2>2, <2>3, VramAssumption
  <2>5. b \in Nat
    BY <2>4
  <2>6. QED
    BY <1>3, <2>3, <2>5
<1>6. /\ SumFunctionOnSet(Asked', VramCallers \cup {c}) = Asked'[c] + rest
      /\ SumFunctionOnSet(Asked, VramCallers) = Asked[c] + rest
  <2>1. \A d \in VramCallers : Asked[d] \in Nat
    BY <1>1, <1>2
  <2>2. PICK f, g, S, x : f = Asked /\ g = Asked' /\ S = VramCallers /\ x = c
    OBVIOUS
  <2>3. IsFiniteSet(S) /\ x \in S
    BY <1>1, <2>2
  <2>4. (\A y \in S : f[y] \in Nat) /\ (\A y \in S \ {x} : g[y] = f[y]) /\ g[x] \in Nat
    BY <1>4, <1>5, <2>1, <2>2
  <2> HIDE DEF rest, m
  <2>5. /\ SumFunctionOnSet(g, S \cup {x}) = g[x] + SumFunctionOnSet(f, S \ {x})
        /\ SumFunctionOnSet(f, S \ {x}) \in Nat
        /\ x \in S => SumFunctionOnSet(f, S) = f[x] + SumFunctionOnSet(f, S \ {x})
        /\ x \notin S => SumFunctionOnSet(f, S) = SumFunctionOnSet(f, S \ {x})
    BY <2>3, <2>4, SumUpdate
  <2> USE DEF rest
  <2>6. QED
    BY <2>2, <2>3, <2>5
<1>7. rest \in 0 .. (Cardinality(VramCallers) - 1) * m
  <2>1. \A d \in VramCallers \ {c} : Asked[d] \in Nat /\ Asked[d] <= m
    BY <1>1, <1>2
  <2>2. rest \in Nat /\ rest <= Cardinality(VramCallers \ {c}) * m
    BY <1>1, <2>1, SumBound
  <2>3. QED
    BY <1>1, <2>2, ExcessIsNat
<1>8. /\ VramCallers \cup {c} = VramCallers
      /\ DOMAIN Asked = VramCallers /\ DOMAIN Asked' = VramCallers
  BY <1>3 DEF Asked
<1> HIDE DEF rest
<1>9. QED
  BY <1>3, <1>6, <1>7, <1>8 DEF SumFunction

LEMMA VramInvInit == VramInit => VramInv
<1> SUFFICES ASSUME VramInit PROVE VramInv
  OBVIOUS
<1>1. DOMAIN allocated = {}
  BY DEF VramInit
<1>2. VramTypes
  BY <1>1 DEF VramInit, VramTypes
<1>3. current_usage = 0
  <2>1. \A a \in {} : allocated[a] \in Int
    OBVIOUS
  <2>2. QED
    BY <1>1, <2>1, FS_EmptySet, SumTakes DEF current_usage, SumFunction
<1>4. SumFunction(Asked) = 0
  <2>1. \A c \in VramCallers : Asked[c] = 0
    BY DEF VramInit, Asked, NotReserving
  <2>2. \A c \in VramCallers : Asked[c] \in Nat /\ Asked[c] <= 0
    BY <2>1
  <2>3. IsFiniteSet(VramCallers) /\ DOMAIN Asked = VramCallers
    BY VramAssumption DEF Asked
  <2>4. SumFunctionOnSet(Asked, VramCallers) \in Nat
        /\ SumFunctionOnSet(Asked, VramCallers) <= Cardinality(VramCallers) * 0
    BY <2>2, <2>3, SumBound
  <2>5. Cardinality(VramCallers) * 0 = 0
    BY <2>3, FS_CardinalityType
  <2>6. QED
    BY <2>3, <2>4, <2>5 DEF SumFunction
<1>5. QED
  BY <1>2, <1>3, <1>4, ExcessIsNat DEF VramInv, OverbookedByRacesOnly, Asked

LEMMA VramInvNext ==
  ASSUME VramInv, [VramNext]_vramVars
  PROVE  VramInv'
<1>t. VramTypes
  BY DEF VramInv
<1>x. PICK X \in Nat : X = (Cardinality(VramCallers) - 1) * Max(VramRequests)
  BY ExcessIsNat
<1>y. PICK Y \in Nat : Y = circuit_breaker_threshold * vram_capacity
  BY ExcessIsNat
<1>o. /\ (current_usage + SumFunction(Asked)) * 100 <= Y + X * 100
      /\ OverbookedByRacesOnly' <=> (current_usage' + SumFunction(Asked')) * 100 <= Y + X * 100
  BY <1>x, <1>y DEF VramInv, OverbookedByRacesOnly, Asked
<1>u. current_usage \in Nat
  BY <1>t, UsageSums
<1>1. CASE UNCHANGED vramVars
  <2>1. current_usage' = current_usage /\ Asked' = Asked /\ VramTypes'
    BY <1>1, <1>t DEF vramVars, current_usage, Asked, VramTypes
  <2>2. QED
    BY <1>o, <2>1 DEF VramInv
<1>2. ASSUME NEW c \in VramCallers, NEW a \in VramAgents, NEW b \in VramRequests, check(c, a, b)
      PROVE  VramInv'
  <2>1. /\ reserving[c] = NotReserving /\ Accepted(b) /\ UNCHANGED allocated
        /\ reserving' = [reserving EXCEPT ![c] = [pc |-> "accepted", agent |-> a, bytes |-> b]]
    BY <1>2 DEF check
  <2>2. VramTypes'
    BY <1>t, <2>1 DEF VramTypes
  <2>3. reserving'[c].bytes = b /\ \A d \in VramCallers \ {c} : reserving'[d] = reserving[d]
    BY <1>t, <2>1 DEF VramTypes
  <2>4. PICK rest \in 0 .. X : SumFunction(Asked') = b + rest
    BY <1>t, <1>x, <2>2, <2>3, AskedUpdate
  <2>5. (current_usage + b) * 100 <= Y /\ current_usage' = current_usage
    BY <1>y, <2>1 DEF Accepted, current_usage
  <2>6. b \in Nat
    BY VramAssumption
  <2>7. (current_usage' + SumFunction(Asked')) * 100 <= Y + X * 100
    BY <1>u, <2>4, <2>5, <2>6
  <2>8. QED
    BY <1>o, <2>2, <2>7 DEF VramInv
<1>3. ASSUME NEW c \in VramCallers, insert_reservation(c) PROVE VramInv'
  <2>1. PICK r : r = reserving[c]
    OBVIOUS
  <2>2. /\ r.pc = "accepted" /\ reserving' = [reserving EXCEPT ![c] = NotReserving]
        /\ allocated' = [a \in DOMAIN allocated \cup {r.agent} |->
                           IF a = r.agent THEN r.bytes ELSE allocated[a]]
    BY <1>3, <2>1 DEF insert_reservation
  <2>3. r.agent \in VramAgents /\ r.bytes \in VramRequests /\ r.bytes \in Nat
    <3>1. r \in {NotReserving} \cup [pc : {"accepted"}, agent : VramAgents, bytes : VramRequests]
      BY <1>t, <2>1 DEF VramTypes
    <3>2. r # NotReserving
      BY <2>2 DEF NotReserving
    <3>3. r \in [pc : {"accepted"}, agent : VramAgents, bytes : VramRequests]
      BY <3>1, <3>2
    <3>4. QED
      BY <3>3, VramAssumption
  <2>4. VramTypes'
    <3>1. DOMAIN allocated' = DOMAIN allocated \cup {r.agent}
      BY <2>2
    <3>2. DOMAIN allocated' \subseteq VramAgents
      BY <1>t, <2>3, <3>1 DEF VramTypes
    <3>3. \A a \in DOMAIN allocated' : allocated'[a] \in VramRequests
      BY <1>t, <2>2, <2>3 DEF VramTypes
    <3>4. reserving' \in [VramCallers -> {NotReserving}
                            \cup [pc : {"accepted"}, agent : VramAgents, bytes : VramRequests]]
      BY <1>t, <2>2 DEF VramTypes
    <3>5. QED
      BY <3>2, <3>3, <3>4 DEF VramTypes
  <2>5. PICK rest \in 0 .. X : SumFunction(Asked) = r.bytes + rest /\ SumFunction(Asked') = rest
    <3>1. reserving'[c].bytes = 0 /\ \A d \in VramCallers \ {c} : reserving'[d] = reserving[d]
      BY <1>t, <2>2 DEF VramTypes, NotReserving
    <3>2. PICK rest \in 0 .. X : SumFunction(Asked) = r.bytes + rest /\ SumFunction(Asked') = 0 + rest
      BY <1>t, <1>x, <2>1, <2>4, <3>1, AskedUpdate
    <3>3. QED
      BY <3>2
  <2>6. PICK had \in Nat, others \in Nat :
          current_usage = had + others /\ current_usage' = r.bytes + others
    <3> DEFINE D == DOMAIN allocated
    <3>1. IsFiniteSet(D) /\ \A a \in D : allocated[a] \in Nat
      BY <1>t, UsageSums
    <3>2. /\ DOMAIN allocated' = D \cup {r.agent} /\ allocated'[r.agent] = r.bytes
          /\ \A a \in D \ {r.agent} : allocated'[a] = allocated[a]
      BY <2>2
    <3> HIDE DEF D
    <3>3. PICK others : others = SumFunctionOnSet(allocated, D \ {r.agent})
      OBVIOUS
    <3>4. /\ SumFunctionOnSet(allocated', D \cup {r.agent}) = r.bytes + others
          /\ others \in Nat
          /\ r.agent \in D => SumFunctionOnSet(allocated, D) = allocated[r.agent] + others
          /\ r.agent \notin D => SumFunctionOnSet(allocated, D) = others
      <4>1. PICK f, g, x : f = allocated /\ g = allocated' /\ x = r.agent
        OBVIOUS
      <4>2. (\A y \in D : f[y] \in Nat) /\ (\A y \in D \ {x} : g[y] = f[y]) /\ g[x] \in Nat
        BY <2>3, <3>1, <3>2, <4>1
      <4>3. /\ SumFunctionOnSet(g, D \cup {x}) = g[x] + SumFunctionOnSet(f, D \ {x})
            /\ SumFunctionOnSet(f, D \ {x}) \in Nat
            /\ x \in D => SumFunctionOnSet(f, D) = f[x] + SumFunctionOnSet(f, D \ {x})
            /\ x \notin D => SumFunctionOnSet(f, D) = SumFunctionOnSet(f, D \ {x})
        BY <3>1, <4>2, SumUpdate
      <4>4. QED
        BY <3>2, <3>3, <4>1, <4>3
    <3>5. r.agent \in D => allocated[r.agent] \in Nat
      BY <3>1
    <3>6. current_usage = SumFunctionOnSet(allocated, D)
          /\ current_usage' = SumFunctionOnSet(allocated', D \cup {r.agent})
      BY <3>2 DEF D, current_usage, SumFunction
    <3>7. CASE r.agent \in D
      <4>1. PICK had \in Nat : had = allocated[r.agent]
        BY <3>5, <3>7
      <4>2. QED
        BY <3>4, <3>6, <3>7, <4>1
    <3>8. CASE r.agent \notin D
      <4>1. current_usage = 0 + others
        BY <3>4, <3>6, <3>8
      <4>2. QED
        BY <3>4, <3>6, <4>1
    <3>9. QED
      BY <3>7, <3>8
  <2>7. (current_usage' + SumFunction(Asked')) * 100 <= Y + X * 100
    BY <1>o, <2>3, <2>5, <2>6
  <2>8. QED
    BY <1>o, <2>4, <2>7 DEF VramInv
<1>4. ASSUME NEW a \in VramAgents, release_vram(a) PROVE VramInv'
  <2> DEFINE D == DOMAIN allocated
  <2>1. a \in D /\ allocated' = [x \in D \ {a} |-> allocated[x]] /\ UNCHANGED reserving
    BY <1>4 DEF release_vram, Restrict
  <2>2. VramTypes'
    BY <1>t, <2>1 DEF VramTypes
  <2>3. Asked' = Asked
    BY <2>1 DEF Asked
  <2>4. PICK others \in Nat : current_usage = allocated[a] + others /\ current_usage' = others
    <3>1. IsFiniteSet(D) /\ \A x \in D : allocated[x] \in Nat
      BY <1>t, UsageSums
    <3>2. DOMAIN allocated' = D \ {a} /\ \A x \in D \ {a} : allocated'[x] = allocated[x]
      BY <2>1
    <3>3. IsFiniteSet(D \ {a}) /\ \A x \in D : allocated[x] \in Int
      BY <3>1, FS_RemoveElement
    <3> HIDE DEF D
    <3>4. SumFunctionOnSet(allocated, D) = allocated[a] + SumFunctionOnSet(allocated, D \ {a})
      BY <2>1, <3>1, <3>3, SumTakes
    <3>5. SumFunctionOnSet(allocated', D \ {a}) = SumFunctionOnSet(allocated, D \ {a})
      BY <3>2, <3>3, SumSame
    <3>6. SumFunctionOnSet(allocated, D \ {a}) \in Nat
      BY <3>1, <3>3, SumBound
    <3>7. current_usage = SumFunctionOnSet(allocated, D)
          /\ current_usage' = SumFunctionOnSet(allocated', D \ {a})
      BY <3>2 DEF D, current_usage, SumFunction
    <3>8. QED
      BY <3>4, <3>5, <3>6, <3>7
  <2>5. allocated[a] \in Nat /\ SumFunction(Asked) \in Nat
    <3>1. IsFiniteSet(VramCallers) /\ DOMAIN Asked = VramCallers /\ \A c \in VramCallers : Asked[c] \in Nat
      BY <1>t, UsageSums, LargestRequest
    <3>2. QED
      BY <1>t, <2>1, <3>1, UsageSums, SumBound DEF SumFunction
  <2>6. (current_usage' + SumFunction(Asked')) * 100 <= Y + X * 100
    BY <1>o, <2>3, <2>4, <2>5
  <2>7. QED
    BY <1>o, <2>2, <2>6 DEF VramInv
<1>5. QED
  BY <1>1, <1>2, <1>3, <1>4 DEF VramNext

(* However the callers of check_and_reserve overtake one another between   *)
(* the lock of the check and that of the entry, what is booked and         *)
(* accepted passes the threshold of the circuit breaker by no more than    *)
(* the other callers may ask for at once (vram_manager.rs).                *)
THEOREM ExcessIsBounded == VramSpec => []OverbookedByRacesOnly
<1>1. VramInv => OverbookedByRacesOnly
  BY DEF VramInv
<1>2. QED
  BY VramInvInit, VramInvNext, <1>1, PTL DEF VramSpec

(* Where check_and_reserve has one caller, nothing comes between its check *)
(* and its entry, and the usage keeps to the threshold of the circuit      *)
(* breaker (vram_manager.rs); with two callers it does not.                *)
THEOREM AloneBelowThreshold ==
  ASSUME Cardinality(VramCallers) = 1
  PROVE  VramSpec => []BelowThreshold
<1>1. VramInv => BelowThreshold
  <2>1. SUFFICES ASSUME VramInv PROVE BelowThreshold
    OBVIOUS
  <2>2. PICK m, cap, pending, u : /\ m = Max(VramRequests)
                                  /\ cap = circuit_breaker_threshold * vram_capacity
                                  /\ pending = SumFunction(Asked) /\ u = current_usage
    OBVIOUS
  <2>3. m \in Nat /\ cap \in Nat
    BY <2>2, LargestRequest, ExcessIsNat
  <2>4. u \in Nat /\ pending \in Nat
    <3>1. IsFiniteSet(VramCallers) /\ DOMAIN Asked = VramCallers /\ \A c \in VramCallers : Asked[c] \in Nat
      BY <2>1, UsageSums, LargestRequest DEF VramInv
    <3>2. QED
      BY <2>1, <2>2, <3>1, UsageSums, SumBound DEF SumFunction, VramInv
  <2>5. (u + pending) * 100 <= cap + ((1 - 1) * m) * 100
    BY <2>1, <2>2 DEF VramInv, OverbookedByRacesOnly, Asked
  <2>6. u * 100 <= cap
    BY <2>3, <2>4, <2>5
  <2>7. QED
    BY <2>2, <2>6 DEF BelowThreshold
<1>2. QED
  BY VramInvInit, VramInvNext, <1>1, PTL DEF VramSpec

-----------------------------------------------------------------------------
(* Extraction.  In every formula, b is the time at which a sum is read.    *)

Amount == [bucket : Nat, value : Nat]

Values(s) == [i \in DOMAIN s |-> s[i].value]
Within(s, b) == {i \in DOMAIN s : InWindow(s[i], b)}

LEMMA SumIsNat ==
  ASSUME NEW s \in Seq(Amount), NEW b \in Nat
  PROVE  /\ sum(s, b) = SumFunctionOnSet(Values(s), Within(s, b))
         /\ IsFiniteSet(DOMAIN s) /\ IsFiniteSet(Within(s, b))
         /\ DOMAIN Values(s) = DOMAIN s /\ \A i \in DOMAIN s : Values(s)[i] = s[i].value /\ Values(s)[i] \in Nat
         /\ sum(s, b) \in Nat
<1>1. sum(s, b) = SumFunctionOnSet(Values(s), Within(s, b))
  BY DEF sum, Values, Within
<1>2. DOMAIN s = 1 .. Len(s) /\ Len(s) \in Nat
  OBVIOUS
<1>3. IsFiniteSet(DOMAIN s) /\ Within(s, b) \subseteq DOMAIN s
  BY <1>2, FS_Interval DEF Within
<1>4. IsFiniteSet(Within(s, b))
  BY <1>3, FS_Subset
<1>5. DOMAIN Values(s) = DOMAIN s /\ \A i \in DOMAIN s : Values(s)[i] = s[i].value
  BY DEF Values
<1>6. \A i \in DOMAIN s : s[i].value \in Nat
  <2>1. \A i \in DOMAIN s : s[i] \in Amount
    OBVIOUS
  <2>2. QED
    BY <2>1 DEF Amount
<1>7. \A i \in Within(s, b) : Values(s)[i] \in Nat
  BY <1>3, <1>5, <1>6
<1>8. SumFunctionOnSet(Values(s), Within(s, b)) \in Nat
  BY <1>4, <1>7, SumBound
<1>9. QED
  BY <1>1, <1>3, <1>4, <1>5, <1>6, <1>8

(* What lies outside the window, or is of no value, adds nothing.          *)
LEMMA SumKept ==
  ASSUME NEW s \in Seq(Amount), NEW b \in Nat, NEW T \in SUBSET Within(s, b),
         \A i \in Within(s, b) \ T : s[i].value = 0
  PROVE  sum(s, b) = SumFunctionOnSet(Values(s), T)
<1>1. \A i \in Within(s, b) : Values(s)[i] \in Nat /\ Values(s)[i] = s[i].value
  BY SumIsNat DEF Within
<1>2. \A i \in Within(s, b) \ T : Values(s)[i] = 0
  BY <1>1
<1>3. PICK S, f : S = Within(s, b) /\ f = Values(s)
  OBVIOUS
<1>4. /\ IsFiniteSet(S) /\ T \in SUBSET S
      /\ \A i \in S : f[i] \in Nat
      /\ \A i \in S \ T : f[i] = 0
  BY <1>1, <1>2, <1>3, SumIsNat
<1>5. SumFunctionOnSet(f, S) = SumFunctionOnSet(f, T)
  BY <1>4, SumZeros
<1>6. QED
  BY <1>3, <1>5, SumIsNat

LEMMA SumOutside ==
  ASSUME NEW s \in Seq(Amount), NEW b \in Nat, \A i \in DOMAIN s : ~ InWindow(s[i], b)
  PROVE  sum(s, b) = 0
<1>1. Within(s, b) = {}
  BY DEF Within
<1>2. SumFunctionOnSet(Values(s), {}) = 0
  <2>1. IsFiniteSet({}) /\ \A i \in {} : Values(s)[i] \in Int
    BY FS_EmptySet
  <2>2. QED
    BY <2>1, SumTakes
<1>3. QED
  BY <1>1, <1>2, SumIsNat

LEMMA SumAppend ==
  ASSUME NEW s \in Seq(Amount), NEW e \in Amount, NEW b \in Nat
  PROVE  /\ InWindow(e, b) => sum(Append(s, e), b) = sum(s, b) + e.value
         /\ ~ InWindow(e, b) => sum(Append(s, e), b) = sum(s, b)
<1>1. PICK t, n : t = Append(s, e) /\ n = Len(s) + 1
  OBVIOUS
<1>2. /\ t \in Seq(Amount) /\ n \in Nat /\ n \notin DOMAIN s /\ n \in DOMAIN t
      /\ DOMAIN t = DOMAIN s \cup {n} /\ t[n] = e /\ \A i \in DOMAIN s : t[i] = s[i]
  BY <1>1
<1>3. \A i \in DOMAIN s : Values(t)[i] = Values(s)[i]
  BY <1>2 DEF Values
<1>4. Values(t)[n] = e.value
  BY <1>2 DEF Values
<1>5. PICK f, g, S, T : f = Values(s) /\ g = Values(t) /\ S = Within(s, b) /\ T = Within(t, b)
  OBVIOUS
<1>6. n \notin S /\ S \subseteq DOMAIN s /\ IsFiniteSet(S)
  BY <1>2, <1>5, SumIsNat DEF Within
<1>7. (\A i \in S : f[i] \in Nat) /\ (\A i \in S : g[i] = f[i]) /\ g[n] \in Nat
  BY <1>2, <1>3, <1>4, <1>5, <1>6, SumIsNat
<1>8. CASE InWindow(e, b)
  <2>1. T = S \cup {n}
    BY <1>2, <1>5, <1>8 DEF Within
  <2>2. S \ {n} = S
    BY <1>6
  <2>3. SumFunctionOnSet(g, T) = g[n] + SumFunctionOnSet(f, S)
    <3>1. \A i \in S \ {n} : g[i] = f[i]
      BY <1>7
    <3>2. /\ SumFunctionOnSet(g, S \cup {n}) = g[n] + SumFunctionOnSet(f, S \ {n})
          /\ SumFunctionOnSet(f, S \ {n}) \in Nat
          /\ n \in S => SumFunctionOnSet(f, S) = f[n] + SumFunctionOnSet(f, S \ {n})
          /\ n \notin S => SumFunctionOnSet(f, S) = SumFunctionOnSet(f, S \ {n})
      BY <1>6, <1>7, <3>1, SumUpdate
    <3>3. QED
      BY <2>1, <2>2, <3>2
  <2>4. sum(t, b) = e.value + sum(s, b)
    BY <1>2, <1>4, <1>5, <2>3, SumIsNat
  <2>5. sum(s, b) \in Nat /\ e.value \in Nat
    BY SumIsNat DEF Amount
  <2>6. QED
    BY <1>1, <1>8, <2>4, <2>5
<1>9. CASE ~ InWindow(e, b)
  <2>1. T = S
    BY <1>2, <1>5, <1>9 DEF Within
  <2>2. SumFunctionOnSet(g, S) = SumFunctionOnSet(f, S)
    BY <1>6, <1>7, SumSame
  <2>3. sum(t, b) = SumFunctionOnSet(g, T) /\ sum(s, b) = SumFunctionOnSet(f, S)
    BY <1>2, <1>5, SumIsNat
  <2>4. QED
    BY <1>1, <1>9, <2>1, <2>2, <2>3
<1>10. QED
  BY <1>8, <1>9

(* Entries of no value may be added.                                       *)
LEMMA SumPadded ==
  ASSUME NEW s \in Seq(Amount), NEW t \in Seq(Amount), NEW b \in Nat, Len(s) <= Len(t),
         \A i \in 1 .. Len(s) : t[i] = s[i],
         \A i \in 1 .. Len(t) : i > Len(s) => t[i].value = 0
  PROVE  sum(t, b) = sum(s, b)
<1>1. PICK T : T = Within(s, b)
  OBVIOUS
<1>2. T \in SUBSET Within(t, b) /\ T \subseteq DOMAIN s
  BY <1>1 DEF Within
<1>3. \A i \in Within(t, b) \ T : t[i].value = 0
  BY <1>1 DEF Within
<1>4. sum(t, b) = SumFunctionOnSet(Values(t), T)
  BY <1>2, <1>3, SumKept
<1>5. \A i \in T : Values(t)[i] = Values(s)[i]
  <2>1. \A i \in DOMAIN s : i \in DOMAIN t /\ t[i] = s[i]
    OBVIOUS
  <2>2. \A i \in DOMAIN s : Values(t)[i] = t[i].value /\ Values(s)[i] = s[i].value
    BY <2>1 DEF Values
  <2>3. QED
    BY <1>2, <2>1, <2>2
<1>6. IsFiniteSet(T) /\ sum(s, b) = SumFunctionOnSet(Values(s), T)
  BY <1>1, SumIsNat
<1>7. SumFunctionOnSet(Values(t), T) = SumFunctionOnSet(Values(s), T)
  BY <1>5, <1>6, SumSame
<1>8. QED
  BY <1>4, <1>6, <1>7

(* The first k entries may go when they are too old.                       *)
LEMMA SumDropped ==
  ASSUME NEW s \in Seq(Amount), NEW t \in Seq(Amount), NEW b \in Nat, NEW k \in Nat,
         Len(t) = Len(s) - k, \A i \in 1 .. Len(t) : t[i] = s[i + k],
         \A i \in 1 .. Len(s) : i <= k => ~ InWindow(s[i], b)
  PROVE  sum(t, b) = sum(s, b)
<1>1. PICK h : h = [i \in 1 .. Len(t) |-> i + k]
  OBVIOUS
<1>2. PICK f, g, S, T : f = Values(t) /\ g = Values(s) /\ S = Within(t, b) /\ T = Within(s, b)
  OBVIOUS
<1>3. S \subseteq 1 .. Len(t) /\ T \subseteq 1 .. Len(s) /\ IsFiniteSet(S)
  <2>1. Within(t, b) \subseteq DOMAIN t /\ Within(s, b) \subseteq DOMAIN s
    BY DEF Within
  <2>2. DOMAIN t = 1 .. Len(t) /\ DOMAIN s = 1 .. Len(s)
    OBVIOUS
  <2>3. IsFiniteSet(Within(t, b))
    BY SumIsNat
  <2>4. QED
    BY <1>2, <2>1, <2>2, <2>3
<1>4. \A i \in S : f[i] \in Int
  <2>1. \A i \in DOMAIN t : f[i] \in Nat
    BY <1>2, SumIsNat
  <2>2. QED
    BY <1>3, <2>1
<1>5. \A i \in S : g[h[i]] = f[i]
  <2>1. ASSUME NEW i \in S PROVE g[h[i]] = f[i]
    <3>1. i \in 1 .. Len(t) /\ h[i] = i + k /\ i + k \in 1 .. Len(s)
      BY <1>1, <1>3
    <3>2. t[i] = s[i + k]
      BY <3>1
    <3>3. f[i] = t[i].value /\ g[i + k] = s[i + k].value
      BY <1>2, <3>1 DEF Values
    <3>4. QED
      BY <3>1, <3>2, <3>3
  <2>2. QED
    BY <2>1
<1>6. \A i, j \in S : h[i] = h[j] => i = j
  BY <1>1, <1>3
<1>7. (\A i \in S : h[i] \in T) /\ (\A j \in T : \E i \in S : h[i] = j)
  <2>1. ASSUME NEW i \in S PROVE h[i] \in T
    <3>1. i \in 1 .. Len(t) /\ h[i] = i + k /\ i + k \in 1 .. Len(s) /\ InWindow(t[i], b)
      BY <1>1, <1>2, <1>3 DEF Within
    <3>2. QED
      BY <1>2, <3>1 DEF Within
  <2>2. ASSUME NEW j \in T PROVE \E i \in S : h[i] = j
    <3>1. j \in 1 .. Len(s) /\ InWindow(s[j], b)
      BY <1>2, <1>3 DEF Within
    <3>2. j > k
      BY <3>1
    <3>3. PICK i \in 1 .. Len(t) : i + k = j
      <4>1. j - k \in 1 .. Len(t) /\ (j - k) + k = j
        BY <3>1, <3>2
      <4>2. QED
        BY <4>1
    <3>4. InWindow(t[i], b) /\ h[i] = j
      BY <1>1, <3>1, <3>3
    <3>5. i \in S
      BY <1>2, <3>4 DEF Within
    <3>6. QED
      BY <3>4, <3>5
  <2>3. QED
    BY <2>1, <2>2
<1>8. SumFunctionOnSet(g, T) = SumFunctionOnSet(f, S)
  <2>1. Renames(h, f, S, g, T)
    BY <1>5, <1>6, <1>7 DEF Renames
  <2>2. QED
    <3>1. IsFiniteSet(S) /\ \A i \in S : f[i] \in Int
      BY <1>3, <1>4
    <3>2. QED
      BY <2>1, <3>1, SumMoved
<1>9. sum(t, b) = SumFunctionOnSet(f, S) /\ sum(s, b) = SumFunctionOnSet(g, T)
  BY <1>2, SumIsNat
<1>10. QED
  BY <1>8, <1>9

(* More is added to the last bucket.                                       *)
Raised(s, v, t) == t = [s EXCEPT ![Len(s)].value = @ + v]

LEMMA SumRaised ==
  ASSUME NEW s \in Seq(Amount), s # <<>>, NEW v \in Nat, NEW b \in Nat,
         NEW t \in Seq(Amount), Raised(s, v, t)
  PROVE  /\ InWindow(Last(s), b) => sum(t, b) = sum(s, b) + v
         /\ ~ InWindow(Last(s), b) => sum(t, b) = sum(s, b)
<1>1. PICK n : n = Len(s)
  OBVIOUS
<1>2. /\ n \in DOMAIN s /\ DOMAIN t = DOMAIN s /\ \A i \in DOMAIN s : t[i].bucket = s[i].bucket
      /\ t[n].value = s[n].value + v /\ \A i \in DOMAIN s \ {n} : t[i] = s[i]
  BY <1>1 DEF Amount, Raised
<1>3. PICK f, g, S : f = Values(s) /\ g = Values(t) /\ S = Within(s, b)
  OBVIOUS
<1>4. Within(t, b) = S
  BY <1>2, <1>3 DEF Within, InWindow
<1>5. S \subseteq DOMAIN s /\ IsFiniteSet(S) /\ \A i \in S : f[i] \in Nat
  BY <1>3, SumIsNat DEF Within
<1>5a. sum(t, b) = SumFunctionOnSet(g, S) /\ sum(s, b) = SumFunctionOnSet(f, S)
  <2>1. sum(t, b) = SumFunctionOnSet(Values(t), Within(t, b))
    BY SumIsNat
  <2>2. sum(s, b) = SumFunctionOnSet(Values(s), Within(s, b))
    BY SumIsNat
  <2>3. QED
    BY <1>3, <1>4, <2>1, <2>2
<1>6. \A i \in DOMAIN s \ {n} : g[i] = f[i]
  <2>1. f = [i \in DOMAIN s |-> s[i].value] /\ g = [i \in DOMAIN s |-> t[i].value]
    BY <1>2, <1>3 DEF Values
  <2>2. ASSUME NEW i \in DOMAIN s \ {n} PROVE g[i] = f[i]
    <3>1. g[i] = t[i].value /\ f[i] = s[i].value
      BY <2>1
    <3>2. t[i] = s[i]
      BY <1>2
    <3>3. QED
      BY <3>1, <3>2
  <2>3. QED
    BY <2>2
<1>7. f[n] \in Nat /\ g[n] \in Nat /\ g[n] = f[n] + v
  BY <1>2, <1>3, SumIsNat
<1>8. CASE InWindow(Last(s), b)
  <2>1. n \in S /\ S \cup {n} = S
    BY <1>1, <1>2, <1>3, <1>8 DEF Within, Last
  <2>2. \A i \in S \ {n} : g[i] = f[i]
    BY <1>5, <1>6
  <2>3. /\ SumFunctionOnSet(g, S) = g[n] + SumFunctionOnSet(f, S \ {n})
        /\ SumFunctionOnSet(f, S \ {n}) \in Nat
        /\ SumFunctionOnSet(f, S) = f[n] + SumFunctionOnSet(f, S \ {n})
    <3>1. /\ SumFunctionOnSet(g, S \cup {n}) = g[n] + SumFunctionOnSet(f, S \ {n})
          /\ SumFunctionOnSet(f, S \ {n}) \in Nat
          /\ n \in S => SumFunctionOnSet(f, S) = f[n] + SumFunctionOnSet(f, S \ {n})
          /\ n \notin S => SumFunctionOnSet(f, S) = SumFunctionOnSet(f, S \ {n})
      BY <1>5, <1>7, <2>2, SumUpdate
    <3>2. QED
      BY <2>1, <3>1
  <2>4. SumFunctionOnSet(g, S) = SumFunctionOnSet(f, S) + v
    BY <1>7, <2>3
  <2>5. sum(t, b) = SumFunctionOnSet(g, S) /\ sum(s, b) = SumFunctionOnSet(f, S)
    BY <1>5a
  <2>6. QED
    BY <1>8, <2>4, <2>5
<1>9. CASE ~ InWindow(Last(s), b)
  <2>1. n \notin S
    BY <1>1, <1>3, <1>9 DEF Within, Last
  <2>2. \A i \in S : g[i] = f[i]
    BY <1>5, <1>6, <2>1
  <2>3. SumFunctionOnSet(g, S) = SumFunctionOnSet(f, S)
    BY <1>5, <2>2, SumSame
  <2>4. sum(t, b) = SumFunctionOnSet(g, S) /\ sum(s, b) = SumFunctionOnSet(f, S)
    BY <1>5a
  <2>5. QED
    BY <1>9, <2>3, <2>4
<1>10. QED
  BY <1>8, <1>9

(* A window and the log of what was added to it: the buckets follow one    *)
(* another, no more of them than fit, and they sum to what the log does.   *)
Rings(w, log) ==
  /\ w \in Seq(Amount) /\ log \in Seq(Amount)
  /\ Len(w) <= capacity /\ (w = <<>> => log = <<>>)
  /\ \A i \in 1 .. Len(w) : w[i].bucket = Last(w).bucket - (Len(w) - i)
  /\ \A b \in Nat : w # <<>> /\ b >= Last(w).bucket => sum(w, b) = sum(log, b)

LEMMA Concatenated ==
  ASSUME NEW S, NEW s \in Seq(S), NEW t \in Seq(S)
  PROVE  s \o t \in Seq(S) /\ Len(s \o t) = Len(s) + Len(t)
  OBVIOUS

LEMMA Subsequence ==
  ASSUME NEW S, NEW s \in Seq(S), NEW j \in 1 .. Len(s)
  PROVE  /\ SubSeq(s, j, Len(s)) \in Seq(S) /\ Len(SubSeq(s, j, Len(s))) = Len(s) - j + 1
         /\ \A i \in 1 .. Len(s) - j + 1 : SubSeq(s, j, Len(s))[i] = s[j + i - 1]
  OBVIOUS

LEMMA RaisesRing ==
  ASSUME NEW w, NEW log, Rings(w, log), w # <<>>, NEW v \in Nat
  PROVE  Rings(advance(w, Last(w).bucket, v), Append(log, Bucket(Last(w).bucket, v)))
<1>1. PICK n, c, t, l : /\ n = Len(w) /\ c = Last(w).bucket /\ l = Append(log, Bucket(c, v))
                        /\ t = [w EXCEPT ![Len(w)].value = @ + v]
  OBVIOUS
<1>2. /\ w \in Seq(Amount) /\ log \in Seq(Amount) /\ n \in Nat \ {0} /\ n <= capacity
      /\ \A i \in 1 .. n : w[i] \in Amount /\ w[i].bucket = c - (n - i)
      /\ \A b \in Nat : b >= c => sum(w, b) = sum(log, b)
  BY <1>1 DEF Rings
<1>3. c \in Nat /\ Last(w) = w[n] /\ Bucket(c, v) \in Amount
  BY <1>1, <1>2 DEF Last, Bucket, Amount
<1>4. advance(w, c, v) = t
  BY <1>1, <1>3 DEF advance, Late
<1>5. t \in Seq(Amount) /\ Len(t) = n /\ \A i \in 1 .. n : t[i].bucket = w[i].bucket
  <2>1. PICK last : last = w[n]
    OBVIOUS
  <2>2. [w[n] EXCEPT !.value = @ + v] \in Amount
    <3>1. n \in 1 .. n
      BY <1>2
    <3>2. last \in Amount
      BY <1>2, <2>1, <3>1
    <3>3. [last EXCEPT !.value = @ + v] \in Amount
      BY <3>2 DEF Amount
    <3>4. QED
      BY <2>1, <3>3
  <2>3. t = [w EXCEPT ![n] = [w[n] EXCEPT !.value = @ + v]]
    BY <1>1, <1>2
  <2>4. t \in Seq(Amount) /\ Len(t) = n
    BY <1>1, <1>2, <2>2, <2>3
  <2>5. ASSUME NEW i \in 1 .. n PROVE t[i].bucket = w[i].bucket
    <3>1. CASE i = n
      BY <1>1, <1>2, <2>3, <3>1 DEF Amount
    <3>2. CASE i # n
      BY <1>1, <1>2, <2>3, <3>2
    <3>3. QED
      BY <3>1, <3>2
  <2>6. QED
    BY <2>4, <2>5
<1>6. l \in Seq(Amount) /\ l # <<>> /\ t # <<>> /\ Last(t).bucket = c
  BY <1>1, <1>2, <1>3, <1>5 DEF Last
<1>7. ASSUME NEW b \in Nat, b >= c PROVE sum(t, b) = sum(l, b)
  <2>1. InWindow(Last(w), b) <=> InWindow(Bucket(c, v), b)
    BY <1>1, <1>3 DEF InWindow, Bucket
  <2>2. Bucket(c, v).value = v
    BY DEF Bucket
  <2>3. /\ InWindow(Last(w), b) => sum(t, b) = sum(w, b) + v
        /\ ~ InWindow(Last(w), b) => sum(t, b) = sum(w, b)
    <3>1. w \in Seq(Amount) /\ t \in Seq(Amount) /\ Raised(w, v, t)
      BY <1>1, <1>2, <1>5 DEF Raised
    <3>2. w # <<>>
      OBVIOUS
    <3>3. QED
      BY <3>1, <3>2, SumRaised
  <2>4. /\ InWindow(Bucket(c, v), b) => sum(l, b) = sum(log, b) + Bucket(c, v).value
        /\ ~ InWindow(Bucket(c, v), b) => sum(l, b) = sum(log, b)
    BY <1>1, <1>2, <1>3, SumAppend
  <2>5. QED
    BY <1>2, <1>7, <2>1, <2>2, <2>3, <2>4
<1>8. QED
  <2>1. \A i \in 1 .. Len(t) : t[i].bucket = Last(t).bucket - (Len(t) - i)
    BY <1>2, <1>5, <1>6
  <2>2. Rings(t, l)
    BY <1>2, <1>5, <1>6, <1>7, <2>1 DEF Rings
  <2>3. QED
    BY <1>1, <1>4, <2>2

LEMMA SlidesRing ==
  ASSUME NEW w, NEW log, Rings(w, log), NEW c \in Nat, NEW v \in Nat,
         w = <<>> \/ c > Last(w).bucket
  PROVE  Rings(advance(w, c, v), Append(log, Bucket(c, v)))
<1>1. PICK e, z, s, t, l : /\ e = Bucket(c, v) /\ z = Slid(w, c) /\ s = Append(z, e)
                           /\ t = Newest(s, capacity) /\ l = Append(log, e)
  OBVIOUS
<1>2. /\ w \in Seq(Amount) /\ log \in Seq(Amount) /\ Len(w) <= capacity /\ capacity \in Nat \ {0}
      /\ e \in Amount /\ e.bucket = c /\ e.value = v
  BY <1>1, ExtractionAssumption DEF Rings, Bucket, Amount
<1>3. w # <<>> => Last(w).bucket \in Nat
  <2>1. w # <<>> => Last(w) \in Amount
    BY <1>2 DEF Last
  <2>2. QED
    BY <2>1 DEF Amount
<1>4. advance(w, c, v) = t
  BY <1>1, <1>3 DEF advance, Late
<1>5. /\ z \in Seq(Amount)
      /\ \A i \in 1 .. Len(z) : z[i].bucket = c - 1 - (Len(z) - i)
      /\ \A b \in Nat : b >= c => sum(z, b) = sum(log, b)
  <2>1. CASE w = <<>>
    BY <1>1, <2>1 DEF Slid, Rings
  <2>2. CASE w # <<>> /\ c - Last(w).bucket > capacity
    <3>1. z = <<>>
      BY <1>1, <2>2 DEF Slid
    <3>2. ASSUME NEW b \in Nat, b >= c PROVE sum(z, b) = sum(log, b)
      <4>1. \A i \in DOMAIN w : w[i].bucket <= Last(w).bucket /\ w[i].bucket \in Int
        BY <1>2, <1>3, <2>2 DEF Rings
      <4>2. \A i \in DOMAIN w : ~ InWindow(w[i], b)
        BY <1>2, <1>3, <2>2, <3>2, <4>1 DEF InWindow
      <4>3. sum(w, b) = 0
        BY <1>2, <4>2, SumOutside
      <4>4. z \in Seq(Amount) /\ \A i \in DOMAIN z : ~ InWindow(z[i], b)
        BY <3>1
      <4>5. sum(z, b) = 0
        BY <4>4, SumOutside
      <4>6. sum(w, b) = sum(log, b)
        BY <1>2, <1>3, <2>2, <3>2 DEF Rings
      <4>7. QED
        BY <4>3, <4>5, <4>6
    <3>3. QED
      BY <3>1, <3>2
  <2>3. CASE w # <<>> /\ c - Last(w).bucket <= capacity
    <3>1. PICK n, d, k : n = Len(w) /\ d = Last(w).bucket /\ k = c - d - 1
      OBVIOUS
    <3>2. n \in Nat \ {0} /\ d \in Nat /\ k \in Nat /\ c = d + k + 1
      BY <1>2, <1>3, <2>3, <3>1
    <3>3. PICK pad : pad = [i \in 1 .. k |-> Bucket(d + i, 0)]
      OBVIOUS
    <3>4. z = w \o pad
      <4>1. ~ (c - d > capacity)
        <5>1. c - d <= capacity
          BY <2>3, <3>1
        <5>2. capacity \in Nat /\ d \in Nat
          BY <1>2, <3>2
        <5>3. QED
          BY <5>1, <5>2
      <4>2. Slid(w, c) = w \o [i \in 1 .. (c - d - 1) |-> Bucket(d + i, 0)]
        BY <2>3, <3>1, <4>1 DEF Slid
      <4>3. QED
        BY <1>1, <3>1, <3>3, <4>2
    <3>5. /\ pad \in Seq(Amount) /\ Len(pad) = k
          /\ \A i \in 1 .. k : pad[i].bucket = d + i /\ pad[i].value = 0
      <4>1. \A i \in 1 .. k : Bucket(d + i, 0) \in Amount /\ d + i \in Nat
        BY <3>2 DEF Bucket, Amount
      <4>2. pad \in Seq(Amount) /\ Len(pad) = k /\ \A i \in 1 .. k : pad[i] = Bucket(d + i, 0)
        <5>1. k \in Nat /\ pad \in [1 .. k -> Amount]
          BY <3>2, <3>3, <4>1
        <5>2. pad \in Seq(Amount) /\ Len(pad) = k
          BY <5>1
        <5>3. QED
          BY <3>3, <5>2
      <4>3. \A i \in 1 .. k : Bucket(d + i, 0).bucket = d + i /\ Bucket(d + i, 0).value = 0
        BY DEF Bucket
      <4>4. QED
        BY <4>2, <4>3
    <3>6. /\ z \in Seq(Amount) /\ Len(z) = n + k
          /\ \A i \in 1 .. n : z[i] = w[i]
          /\ \A i \in 1 .. n + k : i > n => z[i] = pad[i - n]
      <4>1. z \in Seq(Amount) /\ Len(z) = n + k
        <5>1. w \o pad \in Seq(Amount) /\ Len(w \o pad) = Len(w) + Len(pad)
          BY <1>2, <3>5, Concatenated
        <5>2. QED
          BY <3>1, <3>4, <3>5, <5>1
      <4>2. \A i \in 1 .. n + k : z[i] = IF i <= n THEN w[i] ELSE pad[i - n]
        <5>1. Len(w) = n /\ Len(pad) = k /\ w \in Seq(Amount) /\ pad \in Seq(Amount)
          BY <1>2, <3>1, <3>5
        <5>2. \A i \in 1 .. Len(w) + Len(pad) : (w \o pad)[i] = IF i <= Len(w) THEN w[i] ELSE pad[i - Len(w)]
          OBVIOUS
        <5>3. QED
          BY <3>4, <5>1, <5>2
      <4>3. QED
        BY <3>2, <4>1, <4>2
    <3>7. ASSUME NEW i \in 1 .. n + k PROVE z[i].bucket = c - 1 - (n + k - i)
      <4>1. CASE i <= n
        <5>1. w[i].bucket = d - (n - i)
          BY <3>1, <3>2, <4>1 DEF Rings
        <5>2. QED
          BY <3>2, <3>6, <4>1, <5>1
      <4>2. CASE i > n
        <5>1. i - n \in 1 .. k
          BY <3>2, <4>2
        <5>2. z[i].bucket = d + (i - n)
          BY <3>5, <3>6, <4>2, <5>1
        <5>3. QED
          BY <3>2, <4>2, <5>2
      <4>3. QED
        BY <3>2, <4>1, <4>2
    <3>8. ASSUME NEW b \in Nat, b >= c PROVE sum(z, b) = sum(log, b)
      <4>1. \A i \in 1 .. Len(z) : i > Len(w) => z[i].value = 0
        <5>1. ASSUME NEW i \in 1 .. n + k, i > n PROVE z[i].value = 0
          <6>1. i - n \in 1 .. k
            BY <3>2, <5>1
          <6>2. QED
            BY <3>5, <3>6, <5>1, <6>1
        <5>2. QED
          BY <3>1, <3>6, <5>1
      <4>2. Len(w) <= Len(z) /\ \A i \in 1 .. Len(w) : z[i] = w[i]
        <5>1. Len(w) = n /\ Len(z) = n + k /\ \A i \in 1 .. n : z[i] = w[i]
          BY <3>1, <3>6
        <5>2. n <= n + k
          BY <3>2
        <5>3. QED
          BY <5>1, <5>2
      <4>3. sum(z, b) = sum(w, b)
        BY <1>2, <3>6, <4>1, <4>2, SumPadded
      <4>4. sum(w, b) = sum(log, b)
        BY <2>3, <3>1, <3>2, <3>8 DEF Rings
      <4>5. QED
        BY <4>3, <4>4
    <3>9. QED
      <4>1. \A i \in 1 .. Len(z) : z[i].bucket = c - 1 - (Len(z) - i)
        <5>1. Len(z) = n + k
          BY <3>6
        <5>2. ASSUME NEW i \in 1 .. Len(z) PROVE z[i].bucket = c - 1 - (Len(z) - i)
          <6>1. i \in 1 .. n + k
            BY <5>1
          <6>2. z[i].bucket = c - 1 - (n + k - i)
            BY <3>7, <6>1
          <6>3. QED
            BY <3>2, <3>6, <5>1, <6>1, <6>2
        <5>3. QED
          BY <5>2
      <4>2. \A b \in Nat : b >= c => sum(z, b) = sum(log, b)
        BY <3>8
      <4>3. QED
        BY <3>6, <4>1, <4>2
  <2>4. w = <<>> \/ (w # <<>> /\ c - Last(w).bucket > capacity)
                \/ (w # <<>> /\ c - Last(w).bucket <= capacity)
    BY <1>2, <1>3
  <2>5. QED
    BY <2>1, <2>2, <2>3, <2>4
<1>6. /\ s \in Seq(Amount) /\ l \in Seq(Amount) /\ l # <<>>
      /\ Len(s) = Len(z) + 1 /\ s[Len(s)] = e
      /\ \A i \in 1 .. Len(s) : s[i].bucket = c - (Len(s) - i)
  <2>1. /\ s \in Seq(Amount) /\ l \in Seq(Amount) /\ l # <<>>
        /\ Len(s) = Len(z) + 1 /\ s[Len(s)] = e /\ \A i \in 1 .. Len(z) : s[i] = z[i]
    <3>1. s \in Seq(Amount) /\ Len(s) = Len(z) + 1 /\ s[Len(s)] = e /\ \A i \in 1 .. Len(z) : s[i] = z[i]
      BY <1>1, <1>2, <1>5
    <3>2. l \in Seq(Amount) /\ l # <<>>
      BY <1>1, <1>2
    <3>3. QED
      BY <3>1, <3>2
  <2>2. ASSUME NEW i \in 1 .. Len(s) PROVE s[i].bucket = c - (Len(s) - i)
    <3>1. CASE i = Len(s)
      BY <1>2, <2>1, <3>1
    <3>2. CASE i # Len(s)
      <4>1. i \in 1 .. Len(z) /\ Len(z) \in Nat
        BY <1>5, <2>1, <3>2
      <4>2. z[i].bucket = c - 1 - (Len(z) - i)
        BY <1>5, <4>1
      <4>3. QED
        BY <2>1, <4>1, <4>2
    <3>3. QED
      BY <3>1, <3>2
  <2>3. QED
    BY <2>1, <2>2
<1>7. ASSUME NEW b \in Nat, b >= c PROVE sum(s, b) = sum(l, b)
  <2>1. /\ InWindow(e, b) => sum(s, b) = sum(z, b) + e.value
        /\ ~ InWindow(e, b) => sum(s, b) = sum(z, b)
    BY <1>1, <1>2, <1>5, SumAppend
  <2>2. /\ InWindow(e, b) => sum(l, b) = sum(log, b) + e.value
        /\ ~ InWindow(e, b) => sum(l, b) = sum(log, b)
    BY <1>1, <1>2, SumAppend
  <2>3. QED
    BY <1>5, <1>7, <2>1, <2>2
<1>8. PICK k \in Nat : /\ t \in Seq(Amount) /\ Len(t) = Len(s) - k /\ Len(t) <= capacity
                       /\ k < Len(s) /\ (k = 0 \/ Len(t) = capacity)
                       /\ \A i \in 1 .. Len(t) : t[i] = s[i + k]
  <2>1. PICK m : m = Len(s)
    OBVIOUS
  <2>2. m \in Nat \ {0} /\ s \in Seq(Amount)
    BY <1>5, <1>6, <2>1
  <2>3. CASE m > capacity
    <3>1. t = SubSeq(s, m - capacity + 1, m)
      BY <1>1, <2>1, <2>3 DEF Newest
    <3>2. /\ t \in Seq(Amount) /\ Len(t) = capacity
          /\ \A i \in 1 .. capacity : t[i] = s[m - capacity + 1 + i - 1]
      <4>1. PICK j \in 1 .. m : j = m - capacity + 1
        BY <1>2, <2>2, <2>3
      <4>2. /\ SubSeq(s, j, m) \in Seq(Amount) /\ Len(SubSeq(s, j, m)) = m - j + 1
            /\ \A i \in 1 .. m - j + 1 : SubSeq(s, j, m)[i] = s[j + i - 1]
        BY <2>1, <2>2, Subsequence
      <4>3. m - j + 1 = capacity
        BY <1>2, <2>2, <4>1
      <4>4. QED
        BY <3>1, <4>1, <4>2, <4>3
    <3>3. m - capacity \in Nat /\ capacity = m - (m - capacity) /\ m - capacity < m
      BY <1>2, <2>2, <2>3
    <3>4. \A i \in 1 .. capacity : t[i] = s[i + (m - capacity)]
      <4>1. \A i \in 1 .. capacity : m - capacity + 1 + i - 1 = i + (m - capacity)
        BY <1>2, <2>2
      <4>2. QED
        BY <3>2, <4>1
    <3>5. PICK k \in Nat : k = m - capacity
      BY <3>3
    <3>6. /\ t \in Seq(Amount) /\ Len(t) = m - k /\ Len(t) <= capacity /\ k < m
          /\ (k = 0 \/ Len(t) = capacity) /\ \A i \in 1 .. Len(t) : t[i] = s[i + k]
      BY <1>2, <2>2, <3>2, <3>3, <3>4, <3>5
    <3>7. QED
      BY <2>1, <3>6
  <2>4. CASE m <= capacity
    <3>1. t = SubSeq(s, 1, m)
      <4>1. ~ (m > capacity)
        BY <1>2, <2>2, <2>4
      <4>2. QED
        BY <1>1, <2>1, <4>1 DEF Newest
    <3>2. t \in Seq(Amount) /\ Len(t) = m /\ \A i \in 1 .. m : t[i] = s[i]
      BY <2>1, <2>2, <3>1
    <3>3. QED
      BY <2>1, <2>2, <2>4, <3>2
  <2>5. QED
    BY <1>2, <2>2, <2>3, <2>4
<1>9. t # <<>> /\ Last(t).bucket = c
      /\ \A i \in 1 .. Len(t) : t[i].bucket = c - (Len(t) - i)
  <2>1. PICK m, n : m = Len(s) /\ n = Len(t)
    OBVIOUS
  <2>2. m \in Nat /\ n \in Nat \ {0} /\ n = m - k
    BY <1>6, <1>8, <2>1
  <2>3. ASSUME NEW i \in 1 .. n PROVE t[i].bucket = c - (n - i)
    <3>1. i + k \in 1 .. m /\ t[i] = s[i + k]
      BY <1>8, <2>1, <2>2
    <3>2. s[i + k].bucket = c - (m - (i + k))
      BY <1>6, <2>1, <3>1
    <3>3. QED
      BY <2>2, <3>1, <3>2
  <2>4. t[n].bucket = c - (n - n) /\ n \in 1 .. n
    BY <2>2, <2>3
  <2>5. c - (n - n) = c
    BY <2>2
  <2>6. Last(t).bucket = c /\ t # <<>>
    BY <2>1, <2>2, <2>4, <2>5 DEF Last
  <2>7. QED
    BY <2>1, <2>3, <2>6
<1>10. ASSUME NEW b \in Nat, b >= c PROVE sum(t, b) = sum(s, b)
  <2>1. ASSUME NEW i \in 1 .. Len(s), i <= k PROVE ~ InWindow(s[i], b)
    <3>1. PICK m : m = Len(s)
      OBVIOUS
    <3>2. m \in Nat /\ m - k = capacity /\ s[i].bucket = c - (m - i)
      BY <1>6, <1>8, <2>1, <3>1
    <3>3. s[i].bucket <= c - capacity /\ s[i].bucket \in Int
      BY <1>2, <2>1, <3>1, <3>2
    <3>4. QED
      BY <1>2, <1>10, <3>3 DEF InWindow
  <2>2. Len(t) = Len(s) - k /\ \A i \in 1 .. Len(t) : t[i] = s[i + k]
    BY <1>8
  <2>3. \A i \in 1 .. Len(s) : i <= k => ~ InWindow(s[i], b)
    BY <2>1
  <2>4. QED
    BY <1>6, <1>8, <2>2, <2>3, SumDropped
<1>11. Rings(t, l)
  <2>1. \A b \in Nat : b >= c => sum(t, b) = sum(l, b)
    BY <1>7, <1>10
  <2>2. QED
    BY <1>6, <1>8, <1>9, <2>1 DEF Rings
<1>12. QED
  BY <1>1, <1>4, <1>11

(* ExtractionDetector: what both windows keep to.                          *)
ExtractionInv ==
  /\ bucket_now \in Nat
  /\ DOMAIN windows = {"requests", "tokens"} /\ DOMAIN accepted = {"requests", "tokens"}
  /\ \A w \in {"requests", "tokens"} : Rings(windows[w], accepted[w])

LEMMA ExtractionInvInit == ExtractionInit => ExtractionInv
<1> SUFFICES ASSUME ExtractionInit PROVE ExtractionInv
  OBVIOUS
<1>1. \A w \in {"requests", "tokens"} : windows[w] = <<>> /\ accepted[w] = <<>>
  BY DEF ExtractionInit
<1>2. Rings(<<>>, <<>>)
  BY ExtractionAssumption DEF Rings
<1>3. QED
  BY <1>1, <1>2 DEF ExtractionInit, ExtractionInv

LEMMA ExtractionInvNext ==
  ASSUME ExtractionInv, [ExtractionNext]_extractionVars
  PROVE  ExtractionInv'
<1>1. CASE UNCHANGED <<bucket_now, windows, accepted>>
  BY <1>1 DEF ExtractionInv
<1>2. ASSUME BucketPasses PROVE ExtractionInv'
  BY <1>2 DEF BucketPasses, ExtractionInv
<1>3. ASSUME NEW kind \in PromptKinds, NEW tokens \in 0 .. MaxTokens, NEW uniform \in BOOLEAN,
             NEW b \in {bucket_now, bucket_now - 1} \cap Nat, observe(kind, tokens, b, uniform)
      PROVE  ExtractionInv'
  <2>1. PICK adds : adds = [requests |-> 1, tokens |-> tokens]
    OBVIOUS
  <2>2. /\ windows' = [w \in DOMAIN windows |-> advance(windows[w], b, adds[w])]
        /\ accepted' = [w \in DOMAIN windows |->
                          IF Late(windows[w], b) THEN accepted[w]
                          ELSE Append(accepted[w], Bucket(b, adds[w]))]
        /\ bucket_now' = bucket_now
    BY <1>3, <2>1 DEF observe
  <2>3. ASSUME NEW w \in {"requests", "tokens"} PROVE Rings(windows'[w], accepted'[w])
    <3>1. /\ windows'[w] = advance(windows[w], b, adds[w])
          /\ accepted'[w] = IF Late(windows[w], b) THEN accepted[w]
                            ELSE Append(accepted[w], Bucket(b, adds[w]))
          /\ Rings(windows[w], accepted[w])
      BY <2>2 DEF ExtractionInv
    <3>2. adds[w] \in Nat /\ b \in Nat
      BY <2>1, ExtractionAssumption
    <3>3. PICK win, log, v : win = windows[w] /\ log = accepted[w] /\ v = adds[w]
      OBVIOUS
    <3>4. Rings(win, log) /\ v \in Nat
      BY <3>1, <3>2, <3>3
    <3>5. CASE Late(win, b)
      BY <3>1, <3>3, <3>4, <3>5 DEF advance
    <3>6. CASE ~ Late(win, b)
      <4>1. win # <<>> => Last(win).bucket \in Nat
        <5>1. win # <<>> => Last(win) \in Amount
          BY <3>4 DEF Rings, Last
        <5>2. QED
          BY <5>1 DEF Amount
      <4>2. win = <<>> \/ b = Last(win).bucket \/ b > Last(win).bucket
        BY <3>2, <3>6, <4>1 DEF Late
      <4>3. Rings(advance(win, b, v), Append(log, Bucket(b, v)))
        <5>1. CASE win # <<>> /\ b = Last(win).bucket
          BY <3>4, <5>1, RaisesRing
        <5>2. CASE win = <<>> \/ b > Last(win).bucket
          BY <3>2, <3>4, <5>2, SlidesRing
        <5>3. QED
          BY <4>2, <5>1, <5>2
      <4>4. QED
        BY <3>1, <3>3, <3>6, <4>3
    <3>7. QED
      BY <3>5, <3>6
  <2>4. QED
    BY <2>2, <2>3 DEF ExtractionInv
<1>4. QED
  BY <1>1, <1>2, <1>3 DEF ExtractionNext, observe_request, extractionVars

(* At any time from its newest bucket on, the ring of buckets that a       *)
(* window keeps sums to what a log of all that it was given does           *)
(* (SlidingWindow::advance and sum, window.rs).                            *)
THEOREM WindowsSum == ExtractionSpec => []WindowSums
<1>1. ExtractionInv => WindowSums
  <2> SUFFICES ASSUME ExtractionInv PROVE WindowSums
    OBVIOUS
  <2>1. ASSUME NEW w \in DOMAIN windows, NEW b \in 0 .. MaxBucket,
               windows[w] # <<>>, b >= Last(windows[w]).bucket
        PROVE  sum(windows[w], b)
                 = SumFunctionOnSet(Values(accepted[w]),
                     {i \in DOMAIN accepted[w] : accepted[w][i].bucket \in b - (capacity - 1) .. b})
    <3>1. PICK log : log = accepted[w]
      OBVIOUS
    <3>2. b \in Nat /\ log \in Seq(Amount) /\ sum(windows[w], b) = sum(log, b)
      BY <2>1, <3>1, ExtractionAssumption DEF ExtractionInv, Rings
    <3>3. \A i \in DOMAIN log : log[i].bucket \in Nat
      <4>1. \A i \in DOMAIN log : log[i] \in Amount
        BY <3>2
      <4>2. QED
        BY <4>1 DEF Amount
    <3>4. Within(log, b) = {i \in DOMAIN log : log[i].bucket \in b - (capacity - 1) .. b}
      BY <3>2, <3>3, ExtractionAssumption DEF Within, InWindow
    <3>5. sum(log, b) = SumFunctionOnSet(Values(log), Within(log, b))
      BY <3>2, SumIsNat
    <3>6. QED
      BY <3>1, <3>2, <3>4, <3>5
  <2>2. QED
    BY <2>1 DEF WindowSums, Values
<1>2. QED
  BY ExtractionInvInit, ExtractionInvNext, <1>1, PTL DEF ExtractionSpec

-----------------------------------------------------------------------------
(***************************************************************************)
(* More lemmas about sums: over fewer elements, and the least of a set of  *)
(* numbers that is not empty.                                              *)
(***************************************************************************)
(* Over fewer elements the sum is not more.                                *)
LEMMA SumFewer ==
  ASSUME NEW f, NEW S, NEW T, IsFiniteSet(S), T \in SUBSET S, \A x \in S : f[x] \in Nat
  PROVE  SumFunctionOnSet(f, T) <= SumFunctionOnSet(f, S)
<1> DEFINE N == {n \in Nat : \A s \in Parts(S, n) :
                   SumFunctionOnSet(f, s \cap T) <= SumFunctionOnSet(f, s)}
<1>0. ASSUME NEW s \in SUBSET S
      PROVE  /\ IsFiniteSet(s) /\ IsFiniteSet(s \cap T)
             /\ SumFunctionOnSet(f, s) \in Nat /\ SumFunctionOnSet(f, s \cap T) \in Nat
  <2>1. IsFiniteSet(s) /\ IsFiniteSet(s \cap T) /\ \A x \in s : f[x] \in Nat
    BY FS_Subset
  <2>2. PICK u : u = s \cap T
    OBVIOUS
  <2>3. IsFiniteSet(u) /\ \A x \in u : f[x] \in Nat
    BY <2>1, <2>2
  <2>4. SumFunctionOnSet(f, s) \in Nat /\ SumFunctionOnSet(f, u) \in Nat
    BY <2>1, <2>3, SumBound
  <2>5. QED
    BY <2>1, <2>2, <2>4
<1>1. 0 \in N
  <2>1. {} \cap T = {} /\ {} \in SUBSET S
    OBVIOUS
  <2>2. SumFunctionOnSet(f, {} \cap T) <= SumFunctionOnSet(f, {})
    <3>1. SumFunctionOnSet(f, {}) \in Nat
      BY <1>0, <2>1
    <3>2. QED
      BY <2>1, <3>1
  <2>3. QED
    BY <2>2, PartsShrink
<1>2. ASSUME NEW n \in N PROVE n + 1 \in N
  <2>0. n \in Nat /\ \A s \in Parts(S, n) : SumFunctionOnSet(f, s \cap T) <= SumFunctionOnSet(f, s)
    OBVIOUS
  <2> HIDE DEF N
  <2>1. SUFFICES ASSUME NEW s \in Parts(S, n + 1)
                 PROVE  SumFunctionOnSet(f, s \cap T) <= SumFunctionOnSet(f, s)
    BY <2>0 DEF N
  <2>2. s \in SUBSET S /\ \A x \in s : f[x] \in Nat
    BY DEF Parts
  <2>3. CASE s = {}
    <3>1. s \cap T = s
      BY <2>3
    <3>2. QED
      BY <1>0, <2>2, <3>1
  <2>4. CASE s # {}
    <3>1. PICK x \in s : TRUE
      BY <2>4
    <3>2. PICK v, u, w, y : v = s \ {x} /\ u = s \cap T /\ w = v \cap T /\ y = f[x]
      OBVIOUS
    <3>3. SumFunctionOnSet(f, w) <= SumFunctionOnSet(f, v)
      BY <2>0, <3>1, <3>2, PartsShrink
    <3>4. /\ IsFiniteSet(s) /\ IsFiniteSet(u) /\ u \in SUBSET S /\ v \in SUBSET S
          /\ SumFunctionOnSet(f, v) \in Nat /\ SumFunctionOnSet(f, w) \in Nat
      BY <1>0, <2>2, <3>2
    <3>5. y \in Nat /\ \A z \in s : f[z] \in Int
      BY <2>2, <3>2
    <3>6. SumFunctionOnSet(f, s) = y + SumFunctionOnSet(f, v)
      <4>1. SumFunctionOnSet(f, s) = f[x] + SumFunctionOnSet(f, s \ {x})
        BY <3>1, <3>4, <3>5, SumTakes
      <4>2. QED
        BY <3>2, <4>1
    <3>7. CASE x \in T
      <4>1. \A z \in u : f[z] \in Int
        BY <3>2, <3>5
      <4>2. x \in u /\ u \ {x} = w
        BY <3>2, <3>7
      <4>3. SumFunctionOnSet(f, u) = y + SumFunctionOnSet(f, w)
        BY <3>2, <3>4, <4>1, <4>2, SumTakes
      <4>4. QED
        BY <3>2, <3>3, <3>4, <3>5, <3>6, <4>3
    <3>8. CASE x \notin T
      <4>1. u = w
        BY <3>2, <3>8
      <4>2. SumFunctionOnSet(f, u) <= SumFunctionOnSet(f, v)
        BY <3>3, <4>1
      <4>3. SumFunctionOnSet(f, u) \in Nat
        BY <3>4, <4>1
      <4>4. SumFunctionOnSet(f, u) <= y + SumFunctionOnSet(f, v)
        BY <3>4, <3>5, <4>2, <4>3
      <4>5. SumFunctionOnSet(f, u) <= SumFunctionOnSet(f, s)
        BY <3>6, <4>4
      <4>6. QED
        BY <3>2, <4>5
    <3>9. QED
      BY <3>7, <3>8
  <2>5. QED
    BY <2>3, <2>4
<1>3. N = Nat
  <2>1. N \in SUBSET Nat
    OBVIOUS
  <2> HIDE DEF N
  <2>2. QED
    BY <1>1, <1>2, <2>1, NatInductionSet
<1>4. Cardinality(S) \in N /\ S \in Parts(S, Cardinality(S))
  <2>1. S \in SUBSET S
    OBVIOUS
  <2>2. QED
    BY <1>3, <2>1, FS_CardinalityType, PartsShrink
<1>5. S \cap T = T
  OBVIOUS
<1>6. QED
  BY <1>4, <1>5

(* A nonempty set of numbers has a least one.                              *)
LEMMA Least ==
  ASSUME NEW S \in SUBSET Nat, S # {}
  PROVE  Min(S) \in S
<1>1. PICK x \in S : \A y \in S : ~ (<<y, x>> \in OpToRel(<, Nat))
  BY NatLessThanWellFounded, WFMin
<1>2. \A y \in S : ~ (y < x)
  BY <1>1 DEF OpToRel
<1>3. \A y \in S : x <= y
  BY <1>2
<1>4. QED
  BY <1>3 DEF Min

-----------------------------------------------------------------------------
(***************************************************************************)
(* GpuPool, for every set of blocks, agents and callers, every size and    *)
(* every capacity: what the pool holds, and what the killer swaps out,     *)
(* when callers interleave between their reads and writes.                 *)
(***************************************************************************)
BlockStates == {"none", "Allocated", "Freed", "MigratedToCpu", "Swapped"}
KillerCalls == OomCalls \ {NoCall}

(* GpuPoolTypeOK but for the order, which nothing reads.                   *)
PoolTypes ==
  /\ block \in [Blocks -> BlockStates]
  /\ swapped_data \subseteq Blocks
  /\ DOMAIN budgets \subseteq Agents /\ \A a \in DOMAIN budgets : budgets[a] \in 0 .. max_budget
  /\ oom \in [Callers -> OomCalls]
  /\ poolOps \in 0 .. MaxPoolOps
  /\ wronged \subseteq Callers \X Blocks

(* Block b is of an agent less important than that of block w, or of the   *)
(* lowest importance.                                                      *)
Less(b, w) == priorities[owner[b]] < priorities[owner[w]] \/ priorities[owner[b]] = 0

PoolInv ==
  /\ PoolTypes /\ SwapsOnlyLower
  /\ \A c \in Callers : oom[c] # NoCall =>
       \A i \in DOMAIN oom[c].candidates : Less(oom[c].candidates[i], oom[c].block)

OomPcs == {"try", "swap", "retry", "listing", "kill", "check", "place"}

LEMMA CallShape ==
  /\ KillerCalls = [pc : OomPcs, block : Blocks, candidates : Seq(Blocks), victims : Seq(Agents),
              freed : Nat]
  /\ OomCalls = KillerCalls \cup {NoCall}
<1> DEFINE R == [pc : OomPcs, block : Blocks, candidates : Seq(Blocks), victims : Seq(Agents),
                 freed : Nat]
<1>1. OomCalls = {NoCall} \cup R
  BY DEF OomCalls, OomPcs
<1>2. NoCall \notin R
  BY DEF NoCall, OomPcs
<1>3. QED
  BY <1>1, <1>2 DEF KillerCalls

LEMMA SwapList ==
  ASSUME PoolTypes, NEW w \in Blocks, NEW s \in get_swap_candidates(owner[w])
  PROVE  s \in Seq(Blocks) /\ \A i \in DOMAIN s : Less(s[i], w)
<1> DEFINE S == UNION {InUse(OfAgent(v)) : v \in Preemptable(owner[w])}
<1>1. \A b \in S : b \in Blocks /\ owner[b] \in DOMAIN budgets
                   /\ priorities[owner[b]] < priority(owner[w])
  BY DEF InUse, OfAgent, Preemptable
<1>2. IsFiniteSet(S)
  BY <1>1, PoolAssumption, FS_Subset
<1>3. Cardinality(S) \in Nat
  BY <1>2, FS_CardinalityType
<1>4. s \in [1 .. Cardinality(S) -> S]
  BY DEF get_swap_candidates
<1> HIDE DEF S
<1>5. s \in Seq(Blocks) /\ \A i \in DOMAIN s : s[i] \in S
  BY <1>1, <1>3, <1>4
<1>6. ASSUME NEW b \in S PROVE Less(b, w)
  <2>1. owner[w] \in Agents /\ owner[b] \in Agents
    BY <1>1, <1>6, PoolAssumption
  <2>2. priorities[owner[w]] \in 0 .. 3 /\ priorities[owner[b]] \in 0 .. 3
    BY <2>1, PoolAssumption
  <2>3. priorities[owner[b]] < priorities[owner[w]] \/ priorities[owner[b]] < 1
    BY <1>1, <1>6 DEF priority
  <2>4. QED
    BY <2>2, <2>3 DEF Less
<1>7. QED
  BY <1>5, <1>6

LEMMA PrefixTyped ==
  ASSUME NEW T, NEW s \in Seq(T), NEW m \in 0 .. Len(s)
  PROVE  SubSeq(s, 1, m) \in Seq(T)
<1>1. m \in Int /\ \A i \in 1 .. m : s[i] \in T
  OBVIOUS
<1>2. QED
  BY <1>1, SubSeqProperties

LEMMA KillList ==
  ASSUME PoolTypes, NEW a \in Agents, NEW needed, NEW v \in get_kill_candidates(a, needed)
  PROVE  v \in Seq(Agents)
<1> DEFINE S == {x \in Agents \ {a} : InUse(OfAgent(x)) # {}}
           Freed(s, n) == MapThenSumSet(LAMBDA i : used_bytes(OfAgent(s[i])), 1 .. n)
           Enough(s)   == {n \in 0 .. Len(s) : n = Len(s) \/ Freed(s, n) >= needed}
<1>1. IsFiniteSet(S)
  <2>1. S \subseteq {owner[b] : b \in Blocks}
    BY DEF InUse, OfAgent
  <2>2. IsFiniteSet({owner[b] : b \in Blocks})
    <3>1. owner \in Surjection(Blocks, {owner[b] : b \in Blocks})
      BY PoolAssumption DEF Surjection
    <3>2. QED
      BY <3>1, PoolAssumption, FS_Surjection
  <2>3. QED
    BY <2>1, <2>2, FS_Subset
<1>2. Cardinality(S) \in Nat
  BY <1>1, FS_CardinalityType
<1>3. PICK s \in [1 .. Cardinality(S) -> S] : v = SubSeq(s, 1, Min(Enough(s)))
  BY DEF get_kill_candidates
<1>4. S \subseteq Agents
  OBVIOUS
<1> HIDE DEF S, Freed
<1>5. s \in Seq(Agents) /\ Len(s) \in Nat
  BY <1>2, <1>3, <1>4
<1>6. PICK E : E = Enough(s)
  OBVIOUS
<1>7. E \subseteq 0 .. Len(s) /\ Len(s) \in E
  BY <1>5, <1>6
<1>8. E \in SUBSET Nat /\ E # {}
  BY <1>5, <1>7
<1>9. Min(E) \in 0 .. Len(s)
  BY <1>7, <1>8, Least
<1>10. PICK m : m = Min(E)
  OBVIOUS
<1>11. v = SubSeq(s, 1, m)
  BY <1>3, <1>6, <1>10
<1>12. m \in 0 .. Len(s)
  BY <1>9, <1>10
<1>13. QED
  BY <1>5, <1>11, <1>12, PrefixTyped

(* What changes in one call, and that the other calls stay.                *)
LEMMA CallMoves ==
  ASSUME PoolTypes, NEW c \in Callers, NEW k \in OomCalls,
         oom' = [oom EXCEPT ![c] = k]
  PROVE  /\ oom' \in [Callers -> OomCalls] /\ oom'[c] = k
         /\ \A d \in Callers \ {c} : oom'[d] = oom[d]
  BY DEF PoolTypes

(* The operations of the pool keep its types, and how they move the sum.   *)
Fits(b) ==
  /\ has_capacity(b)
  /\ InUse(Blocks)' = InUse(Blocks) \cup {b}
BringsBack == \E b \in Blocks : block[b] \in {"Swapped", "MigratedToCpu"} /\ block'[b] = "Allocated"
Uses ==
  \/ InUse(Blocks)' \subseteq InUse(Blocks)
  \/ \E b \in Blocks : Fits(b)
  \/ BringsBack

LEMMA AllocateMoves ==
  ASSUME PoolTypes, NEW b \in Blocks, allocate(b)
  PROVE  block' \in [Blocks -> BlockStates] /\ swapped_data' \subseteq Blocks /\ Uses
<1>1. block' = [block EXCEPT ![b] = "Allocated"] /\ has_capacity(b) /\ UNCHANGED swapped_data
  BY DEF allocate, Goes
<1>2. block' \in [Blocks -> BlockStates] /\ swapped_data' \subseteq Blocks
  BY <1>1 DEF PoolTypes, BlockStates
<1>3. InUse(Blocks)' = InUse(Blocks) \cup {b}
  BY <1>1 DEF PoolTypes, InUse
<1>4. QED
  BY <1>1, <1>2, <1>3 DEF Uses, Fits

LEMMA TakenOutMoves ==
  ASSUME PoolTypes, NEW b \in Blocks, NEW to \in BlockStates \ {"Allocated"}, Goes(b, to)
  PROVE  block' \in [Blocks -> BlockStates] /\ Uses
<1>1. block' \in [Blocks -> BlockStates] /\ InUse(Blocks)' \subseteq InUse(Blocks)
  BY DEF Goes, PoolTypes, InUse
<1>2. QED
  BY <1>1 DEF Uses

LEMMA AgentMoves ==
  ASSUME PoolTypes, NEW b \in Blocks, AgentOps(b)
  PROVE  PoolTypes' /\ Uses
<1>1. CASE allocate(b) /\ charge(b)
  <2>1. /\ owner[b] \in DOMAIN budgets
        /\ budgets[owner[b]] + requested_size[b] <= max_budget
        /\ budgets' = [budgets EXCEPT ![owner[b]] = @ + requested_size[b]]
    BY <1>1 DEF charge
  <2>2. budgets[owner[b]] + requested_size[b] \in 0 .. max_budget
    BY <2>1, PoolAssumption DEF PoolTypes
  <2>3. DOMAIN budgets' \subseteq Agents /\ \A a \in DOMAIN budgets' : budgets'[a] \in 0 .. max_budget
    BY <2>1, <2>2 DEF PoolTypes
  <2>4. QED
    BY <1>1, <2>3, AllocateMoves, PoolAssumption DEF AgentOps, PoolTypes
<1>2. CASE deallocate(b) /\ discharge(b)
  <2>1. DOMAIN budgets' = DOMAIN budgets /\
        \A a \in DOMAIN budgets : budgets'[a] =
          IF a # owner[b] THEN budgets[a]
          ELSE IF budgets[a] > requested_size[b] THEN budgets[a] - requested_size[b] ELSE 0
    BY <1>2 DEF discharge
  <2>2. DOMAIN budgets' \subseteq Agents /\ \A a \in DOMAIN budgets' : budgets'[a] \in 0 .. max_budget
    BY <2>1, PoolAssumption DEF PoolTypes
  <2>3. block' \in [Blocks -> BlockStates] /\ Uses
    BY <1>2, TakenOutMoves DEF deallocate, BlockStates
  <2>4. QED
    BY <1>2, <2>2, <2>3, PoolAssumption DEF AgentOps, PoolTypes, deallocate
<1>3. CASE UNCHANGED budgets /\ (swap_out(b) \/ migrate_to_cpu(b))
  <2>1. block' \in [Blocks -> BlockStates] /\ Uses
    BY <1>3, TakenOutMoves DEF swap_out, migrate_to_cpu, BlockStates
  <2>2. QED
    BY <1>3, <2>1, PoolAssumption DEF AgentOps, PoolTypes, swap_out, migrate_to_cpu
<1>4. CASE UNCHANGED budgets /\ (swap_in(b) \/ migrate_to_gpu(b))
  <2>1. block[b] \in {"Swapped", "MigratedToCpu"} /\ swapped_data' = swapped_data \ {b}
        /\ (Goes(b, "Allocated") \/ UNCHANGED block)
    BY <1>4 DEF swap_in, migrate_to_gpu
  <2>2. block' \in [Blocks -> BlockStates] /\ (block'[b] = "Allocated" \/ UNCHANGED block)
    BY <2>1 DEF Goes, PoolTypes, BlockStates
  <2>3. Uses
    BY <2>1, <2>2 DEF Uses, BringsBack, InUse
  <2>4. QED
    BY <1>4, <2>1, <2>2, <2>3, PoolAssumption DEF AgentOps, PoolTypes
<1>5. QED
  BY <1>1, <1>2, <1>3, <1>4 DEF AgentOps

LEMMA OomMoves ==
  ASSUME PoolTypes, NEW c \in Callers, NEW b \in Blocks, oom_allocate(c, b)
  PROVE  PoolTypes' /\ Uses /\ UNCHANGED wronged
         /\ \E k \in OomCalls : /\ oom' = [oom EXCEPT ![c] = k]
                                /\ \A i \in DOMAIN k.candidates : Less(k.candidates[i], k.block)
<1>1. PICK s \in get_swap_candidates(owner[b]) :
        oom' = [oom EXCEPT ![c] = [pc |-> "try", block |-> b, candidates |-> s,
                                   victims |-> <<>>, freed |-> 0]]
  BY DEF oom_allocate
<1>2. s \in Seq(Blocks) /\ \A i \in DOMAIN s : Less(s[i], b)
  BY SwapList
<1>3. PICK k : k = [pc |-> "try", block |-> b, candidates |-> s, victims |-> <<>>, freed |-> 0]
  OBVIOUS
<1>4. k \in OomCalls /\ k.candidates = s /\ k.block = b
  <2>1. k \in KillerCalls
    BY <1>2, <1>3, CallShape DEF OomPcs
  <2>2. QED
    BY <1>3, <2>1, CallShape
<1>5. oom' = [oom EXCEPT ![c] = k]
  BY <1>1, <1>3
<1>6. /\ UNCHANGED <<block, swapped_data, lru_order, budgets, wronged>>
      /\ poolOps < MaxPoolOps /\ poolOps' = poolOps + 1
  BY DEF oom_allocate
<1>7. Uses
  BY <1>6 DEF Uses, InUse
<1>8. PoolTypes'
  <2>1. oom' \in [Callers -> OomCalls]
    BY <1>4, <1>5, CallMoves
  <2>2. QED
    BY <1>6, <2>1, PoolAssumption DEF PoolTypes
<1>9. QED
  BY <1>2, <1>4, <1>5, <1>6, <1>7, <1>8

(* A step of a call that keeps to what the types say of it.                *)
Keeps(c) ==
  \E k \in OomCalls :
    /\ oom' = [oom EXCEPT ![c] = k]
    /\ k # NoCall => k.block = oom[c].block /\ k.candidates = oom[c].candidates

LEMMA CallFields ==
  ASSUME PoolTypes, NEW c \in Callers, oom[c] # NoCall
  PROVE  /\ oom[c] \in KillerCalls
         /\ oom[c].block \in Blocks /\ oom[c].candidates \in Seq(Blocks)
         /\ oom[c].victims \in Seq(Agents) /\ oom[c].freed \in Nat
<1>1. oom[c] \in KillerCalls
  BY CallShape DEF PoolTypes
<1>2. QED
  BY <1>1, CallShape

LEMMA PcMoves ==
  ASSUME PoolTypes, NEW c \in Callers, oom[c] # NoCall, NEW p \in OomPcs,
         oom' = [oom EXCEPT ![c].pc = p]
  PROVE  Keeps(c)
<1>1. PICK q : q = oom[c]
  OBVIOUS
<1>2. PICK k : k = [q EXCEPT !.pc = p]
  OBVIOUS
<1>3. q \in KillerCalls
  BY <1>1, CallFields
<1>4. k \in KillerCalls /\ k.block = q.block /\ k.candidates = q.candidates
  BY <1>2, <1>3, CallShape
<1>5. oom' = [oom EXCEPT ![c] = k]
  BY <1>1, <1>2
<1>6. QED
  BY <1>1, <1>4, <1>5, CallShape DEF Keeps

LEMMA EndMoves ==
  ASSUME NEW c \in Callers, oom' = [oom EXCEPT ![c] = NoCall]
  PROVE  Keeps(c)
  BY CallShape DEF Keeps

(* What a step of the killer does to the pool.                             *)
PoolMoves == block' \in [Blocks -> BlockStates] /\ swapped_data' \subseteq Blocks /\ Uses

LEMMA PoolStays ==
  ASSUME PoolTypes, UNCHANGED <<block, swapped_data, lru_order>>
  PROVE  PoolMoves
  BY DEF PoolTypes, PoolMoves, Uses, InUse

LEMMA AttemptMoves ==
  ASSUME PoolTypes, NEW c \in Callers, attempt(c)
  PROVE  PoolMoves /\ Keeps(c) /\ UNCHANGED <<budgets, poolOps, wronged>>
<1>0. oom[c] # NoCall /\ UNCHANGED <<budgets, poolOps, wronged>>
  BY DEF attempt, Calling
<1>1. CASE allocate(oom[c].block) /\ oom' = [oom EXCEPT ![c] = NoCall]
  BY <1>0, <1>1, CallFields, AllocateMoves, EndMoves DEF PoolMoves
<1>2. CASE /\ oom' = [oom EXCEPT ![c].pc = IF @ = "try" THEN "swap" ELSE "listing"]
           /\ UNCHANGED <<block, swapped_data, lru_order>>
  <2>1. PICK p \in OomPcs : oom' = [oom EXCEPT ![c].pc = p]
    <3>1. PICK p : p = IF oom[c].pc = "try" THEN "swap" ELSE "listing"
      OBVIOUS
    <3>2. p \in OomPcs
      BY <3>1 DEF OomPcs
    <3>3. oom' = [oom EXCEPT ![c].pc = p]
      BY <1>2, <3>1 DEF PoolTypes
    <3>4. QED
      BY <3>2, <3>3
  <2>2. QED
    BY <1>0, <1>2, <2>1, PcMoves, PoolStays
<1>3. CASE /\ oom' = [oom EXCEPT ![c].pc = "listing"]
           /\ UNCHANGED <<block, swapped_data, lru_order>>
  BY <1>0, <1>3, PcMoves, PoolStays DEF OomPcs
<1>4. QED
  BY <1>0, <1>1, <1>2, <1>3 DEF attempt

LEMMA SwapOverMoves ==
  ASSUME PoolTypes, NEW c \in Callers, swap_over(c)
  PROVE  PoolMoves /\ Keeps(c) /\ UNCHANGED <<budgets, poolOps, wronged>>
<1>1. PICK p : p = IF oom[c].freed >= requested_size[oom[c].block] THEN "retry" ELSE "listing"
  OBVIOUS
<1>2. p \in OomPcs /\ oom' = [oom EXCEPT ![c].pc = p] /\ oom[c] # NoCall
  BY <1>1 DEF OomPcs, swap_over, Calling
<1>3. UNCHANGED <<block, swapped_data, lru_order, budgets, poolOps, wronged>>
  BY DEF swap_over
<1>4. QED
  BY <1>2, <1>3, PcMoves, PoolStays

LEMMA CheckMoves ==
  ASSUME PoolTypes, NEW c \in Callers, check_capacity(c)
  PROVE  PoolMoves /\ Keeps(c) /\ UNCHANGED <<budgets, poolOps, wronged>>
<1>1. PICK p : p = IF has_capacity(oom[c].block) THEN "place" ELSE "kill"
  OBVIOUS
<1>2. p \in OomPcs /\ oom' = [oom EXCEPT ![c].pc = p] /\ oom[c] # NoCall
  BY <1>1 DEF OomPcs, check_capacity, Calling
<1>3. UNCHANGED <<block, swapped_data, lru_order, budgets, poolOps, wronged>>
  BY DEF check_capacity
<1>4. QED
  BY <1>2, <1>3, PcMoves, PoolStays

LEMMA PlaceMoves ==
  ASSUME PoolTypes, NEW c \in Callers, place_block(c)
  PROVE  PoolMoves /\ Keeps(c) /\ UNCHANGED <<budgets, poolOps, wronged>>
<1>1. /\ oom[c] # NoCall /\ oom' = [oom EXCEPT ![c] = NoCall]
      /\ UNCHANGED <<budgets, poolOps, wronged>>
      /\ allocate(oom[c].block) \/ UNCHANGED <<block, swapped_data, lru_order>>
  BY DEF place_block, Calling
<1>2. PoolMoves
  BY <1>1, CallFields, AllocateMoves, PoolStays DEF PoolMoves
<1>3. QED
  BY <1>1, <1>2, EndMoves

LEMMA ListMoves ==
  ASSUME PoolTypes, NEW c \in Callers, list_victims(c)
  PROVE  PoolMoves /\ Keeps(c) /\ UNCHANGED <<budgets, poolOps, wronged>>
<1>1. PICK q : q = oom[c]
  OBVIOUS
<1>2. oom[c] # NoCall
  BY DEF list_victims, Calling
<1>3. q \in KillerCalls /\ q.block \in Blocks
  BY <1>1, <1>2, CallFields
<1>4. PICK v \in get_kill_candidates(owner[q.block], requested_size[q.block]) :
        oom' = [oom EXCEPT ![c].pc = "kill", ![c].victims = v]
  BY <1>1 DEF list_victims
<1>5. v \in Seq(Agents)
  <2>1. owner[q.block] \in Agents
    BY <1>3, PoolAssumption
  <2>2. QED
    BY <1>4, <2>1, KillList
<1>6. PICK k : k = [q EXCEPT !.pc = "kill", !.victims = v]
  OBVIOUS
<1>7. k \in KillerCalls /\ k.block = q.block /\ k.candidates = q.candidates
  BY <1>3, <1>5, <1>6, CallShape DEF OomPcs
<1>8. oom' = [oom EXCEPT ![c] = k]
  BY <1>1, <1>4, <1>6 DEF PoolTypes
<1>9. Keeps(c)
  BY <1>1, <1>7, <1>8, CallShape DEF Keeps
<1>10. QED
  BY <1>9, PoolStays DEF list_victims

LEMMA KillMoves ==
  ASSUME PoolTypes, NEW c \in Callers, kill_victim(c)
  PROVE  /\ PoolMoves /\ Keeps(c) /\ UNCHANGED <<poolOps, wronged>>
         /\ DOMAIN budgets' \subseteq Agents /\ \A a \in DOMAIN budgets' : budgets'[a] \in 0 .. max_budget
<1>1. PICK q : q = oom[c]
  OBVIOUS
<1>2. oom[c] # NoCall /\ UNCHANGED <<swapped_data, lru_order, poolOps, wronged>>
  BY DEF kill_victim, Calling
<1>3. q \in KillerCalls /\ q.victims \in Seq(Agents)
  BY <1>1, <1>2, CallFields
<1>4. CASE q.victims = <<>>
  <2>1. oom' = [oom EXCEPT ![c] = NoCall] /\ UNCHANGED <<block, budgets>>
    BY <1>1, <1>4 DEF kill_victim
  <2>2. QED
    BY <1>2, <2>1, EndMoves, PoolStays DEF PoolTypes
<1>5. CASE q.victims # <<>>
  <2>1. /\ oom' = [oom EXCEPT ![c].pc = "check", ![c].victims = Tail(@)]
        /\ block' = [b \in Blocks |-> IF owner[b] = Head(q.victims) /\ block[b] # "none"
                                      THEN "Freed" ELSE block[b]]
        /\ budgets' = [a \in DOMAIN budgets \ {Head(q.victims)} |-> budgets[a]]
    BY <1>1, <1>5 DEF kill_victim
  <2>2. PICK v : v = Tail(q.victims)
    OBVIOUS
  <2>3. v \in Seq(Agents)
    BY <1>3, <1>5, <2>2
  <2>4. PICK k : k = [q EXCEPT !.pc = "check", !.victims = v]
    OBVIOUS
  <2>5. k \in KillerCalls /\ k.block = q.block /\ k.candidates = q.candidates
    BY <1>3, <2>3, <2>4, CallShape DEF OomPcs
  <2>6. oom' = [oom EXCEPT ![c] = k]
    BY <1>1, <2>1, <2>2, <2>4 DEF PoolTypes
  <2>7. Keeps(c)
    BY <1>1, <2>5, <2>6, CallShape DEF Keeps
  <2>8. block' \in [Blocks -> BlockStates] /\ Uses
    BY <2>1 DEF PoolTypes, BlockStates, Uses, InUse
  <2>9. QED
    BY <1>2, <2>1, <2>7, <2>8 DEF PoolTypes, PoolMoves
<1>6. QED
  BY <1>4, <1>5

LEMMA AutoSwapMoves ==
  ASSUME PoolInv, NEW c \in Callers, auto_swap(c)
  PROVE  /\ PoolMoves /\ UNCHANGED <<budgets, poolOps>>
         /\ wronged' \subseteq Callers \X Blocks
         /\ \A w \in wronged' : priorities[owner[w[2]]] = 0
         /\ \E k \in OomCalls : /\ oom' = [oom EXCEPT ![c] = k]
                                /\ \A i \in DOMAIN k.candidates : Less(k.candidates[i], k.block)
<1>t. PoolTypes
  BY DEF PoolInv
<1>1. PICK q : q = oom[c]
  OBVIOUS
<1>2. oom[c] # NoCall /\ q.candidates # <<>> /\ UNCHANGED <<budgets, poolOps>>
  BY <1>1 DEF auto_swap, Calling
<1>3. /\ q \in KillerCalls /\ q.block \in Blocks /\ q.candidates \in Seq(Blocks) /\ q.freed \in Nat
      /\ \A i \in DOMAIN q.candidates : Less(q.candidates[i], q.block)
  BY <1>t, <1>1, <1>2, CallFields DEF PoolInv
<1>4. PICK b : b = Head(q.candidates)
  OBVIOUS
<1>5. b \in Blocks /\ Less(b, q.block)
  BY <1>2, <1>3, <1>4
<1>6. PICK hit \in BOOLEAN : hit = (block[b] = "Allocated")
  OBVIOUS
<1>7. /\ oom' = [oom EXCEPT ![c].candidates = Tail(@),
                           ![c].freed = IF hit THEN @ + requested_size[b] ELSE @]
      /\ IF hit THEN swap_out(b) ELSE UNCHANGED <<block, swapped_data, lru_order>>
      /\ wronged' = IF hit /\ priorities[owner[b]] >= priorities[owner[q.block]]
                    THEN wronged \cup {<<c, b>>} ELSE wronged
  BY <1>1, <1>4, <1>6 DEF auto_swap
<1>8. PoolMoves
  <2>1. CASE hit
    BY <1>t, <1>5, <1>7, <2>1, TakenOutMoves DEF swap_out, BlockStates, PoolMoves, PoolTypes
  <2>2. CASE ~hit
    BY <1>t, <1>7, <2>2, PoolStays
  <2>3. QED
    BY <2>1, <2>2
<1>9. wronged' \subseteq Callers \X Blocks
  BY <1>t, <1>5, <1>7 DEF PoolTypes
<1>10. \A w \in wronged' : priorities[owner[w[2]]] = 0
  <2>1. \A w \in wronged : priorities[owner[w[2]]] = 0
    BY DEF PoolInv, SwapsOnlyLower
  <2>2. owner[b] \in Agents /\ owner[q.block] \in Agents
    BY <1>3, <1>5, PoolAssumption
  <2>3. priorities[owner[b]] \in 0 .. 3 /\ priorities[owner[q.block]] \in 0 .. 3
    BY <2>2, PoolAssumption
  <2>4. priorities[owner[b]] >= priorities[owner[q.block]] => priorities[owner[b]] = 0
    BY <1>5, <2>3 DEF Less
  <2>5. \A w \in wronged' : w \in wronged \/ (w[2] = b /\ priorities[owner[b]] >= priorities[owner[q.block]])
    BY <1>7
  <2>6. QED
    BY <2>1, <2>4, <2>5
<1>11. PICK s, n : s = Tail(q.candidates) /\ n = IF hit THEN q.freed + requested_size[b] ELSE q.freed
  OBVIOUS
<1>12. s \in Seq(Blocks) /\ \A i \in DOMAIN s : Less(s[i], q.block)
  <2>1. s \in Seq(Blocks) /\ Len(s) = Len(q.candidates) - 1
        /\ \A i \in 1 .. Len(s) : s[i] = q.candidates[i + 1]
    BY <1>2, <1>3, <1>11, HeadTailProperties
  <2>2. \A i \in 1 .. Len(s) : i + 1 \in DOMAIN q.candidates
    BY <1>3, <2>1
  <2>3. QED
    BY <1>3, <2>1, <2>2
<1>13. n \in Nat
  <2>1. requested_size[b] \in Nat
    BY <1>5, PoolAssumption
  <2>2. QED
    BY <1>3, <1>11, <2>1
<1>14. PICK k : k = [q EXCEPT !.candidates = s, !.freed = n]
  OBVIOUS
<1>15. k \in KillerCalls /\ k.block = q.block /\ k.candidates = s
  BY <1>3, <1>12, <1>13, <1>14, CallShape
<1>16. oom' = [oom EXCEPT ![c] = k]
  BY <1>t, <1>1, <1>7, <1>11, <1>14 DEF PoolTypes
<1>17. QED
  BY <1>2, <1>8, <1>9, <1>10, <1>12, <1>15, <1>16, CallShape

LEMMA KeptLists ==
  ASSUME PoolInv, NEW c \in Callers, NEW k \in OomCalls, oom' = [oom EXCEPT ![c] = k],
         k # NoCall => \A i \in DOMAIN k.candidates : Less(k.candidates[i], k.block)
  PROVE  \A d \in Callers : oom'[d] # NoCall =>
           \A i \in DOMAIN oom'[d].candidates : Less(oom'[d].candidates[i], oom'[d].block)
<1>1. oom'[c] = k /\ \A d \in Callers \ {c} : oom'[d] = oom[d]
  BY CallMoves DEF PoolInv
<1>2. QED
  BY <1>1 DEF PoolInv

(* A step that only moves a call on leaves its list and its block.         *)
LEMMA KeepsLists ==
  ASSUME PoolInv, NEW c \in Callers, oom[c] # NoCall, Keeps(c)
  PROVE  /\ oom' \in [Callers -> OomCalls]
         /\ \A d \in Callers : oom'[d] # NoCall =>
              \A i \in DOMAIN oom'[d].candidates : Less(oom'[d].candidates[i], oom'[d].block)
<1>1. PICK k \in OomCalls :
        /\ oom' = [oom EXCEPT ![c] = k]
        /\ k # NoCall => k.block = oom[c].block /\ k.candidates = oom[c].candidates
  BY DEF Keeps
<1>2. k # NoCall => \A i \in DOMAIN k.candidates : Less(k.candidates[i], k.block)
  BY <1>1 DEF PoolInv
<1>3. oom' \in [Callers -> OomCalls]
  BY <1>1, CallMoves DEF PoolInv
<1>4. QED
  BY <1>1, <1>2, <1>3, KeptLists

LEMMA PoolInvNext ==
  ASSUME PoolInv, PoolNext
  PROVE  PoolInv' /\ Uses
<1>t. PoolTypes /\ \A w \in wronged : priorities[owner[w[2]]] = 0
  BY DEF PoolInv, SwapsOnlyLower
<1>1. ASSUME NEW b \in Blocks, AgentOps(b) PROVE PoolInv' /\ Uses
  <2>1. PoolTypes' /\ Uses
    BY <1>t, <1>1, AgentMoves
  <2>2. UNCHANGED <<oom, wronged>>
    BY <1>1 DEF AgentOps
  <2>3. QED
    BY <2>1, <2>2 DEF PoolInv, SwapsOnlyLower, Less
<1>2. ASSUME NEW c \in Callers, NEW b \in Blocks, oom_allocate(c, b) PROVE PoolInv' /\ Uses
  <2>1. /\ PoolTypes' /\ Uses /\ UNCHANGED wronged
        /\ \E k \in OomCalls : /\ oom' = [oom EXCEPT ![c] = k]
                               /\ \A i \in DOMAIN k.candidates : Less(k.candidates[i], k.block)
    BY <1>t, <1>2, OomMoves
  <2>2. \A d \in Callers : oom'[d] # NoCall =>
          \A i \in DOMAIN oom'[d].candidates : Less(oom'[d].candidates[i], oom'[d].block)
    BY <2>1, KeptLists
  <2>3. QED
    BY <1>t, <2>1, <2>2 DEF PoolInv, SwapsOnlyLower, Less
<1>3. ASSUME NEW c \in Callers,
             attempt(c) \/ swap_over(c) \/ list_victims(c) \/ kill_victim(c)
               \/ check_capacity(c) \/ place_block(c)
      PROVE  PoolInv' /\ Uses
  <2>1. /\ PoolMoves /\ Keeps(c) /\ UNCHANGED wronged /\ poolOps' = poolOps
        /\ DOMAIN budgets' \subseteq Agents /\ \A a \in DOMAIN budgets' : budgets'[a] \in 0 .. max_budget
    <3>1. CASE kill_victim(c)
      BY <1>t, <3>1, KillMoves
    <3>2. CASE ~kill_victim(c)
      <4>1. PoolMoves /\ Keeps(c) /\ UNCHANGED <<budgets, poolOps, wronged>>
        BY <1>t, <1>3, <3>2, AttemptMoves, SwapOverMoves, ListMoves, CheckMoves, PlaceMoves
      <4>2. QED
        BY <1>t, <4>1 DEF PoolTypes
    <3>3. QED
      BY <3>1, <3>2
  <2>2. oom[c] # NoCall
    BY <1>3 DEF attempt, swap_over, list_victims, kill_victim, check_capacity, place_block, Calling
  <2>3. /\ oom' \in [Callers -> OomCalls]
        /\ \A d \in Callers : oom'[d] # NoCall =>
             \A i \in DOMAIN oom'[d].candidates : Less(oom'[d].candidates[i], oom'[d].block)
    BY <2>1, <2>2, KeepsLists
  <2>4. PoolTypes'
    BY <1>t, <2>1, <2>3 DEF PoolTypes, PoolMoves
  <2>5. QED
    BY <1>t, <2>1, <2>3, <2>4 DEF PoolInv, SwapsOnlyLower, Less, PoolMoves
<1>4. ASSUME NEW c \in Callers, auto_swap(c) PROVE PoolInv' /\ Uses
  <2>1. /\ PoolMoves /\ UNCHANGED <<budgets, poolOps>>
        /\ wronged' \subseteq Callers \X Blocks
        /\ \A w \in wronged' : priorities[owner[w[2]]] = 0
        /\ \E k \in OomCalls : /\ oom' = [oom EXCEPT ![c] = k]
                               /\ \A i \in DOMAIN k.candidates : Less(k.candidates[i], k.block)
    BY <1>4, AutoSwapMoves
  <2>2. oom' \in [Callers -> OomCalls]
    BY <1>t, <2>1, CallMoves
  <2>3. \A d \in Callers : oom'[d] # NoCall =>
          \A i \in DOMAIN oom'[d].candidates : Less(oom'[d].candidates[i], oom'[d].block)
    BY <2>1, KeptLists
  <2>4. PoolTypes'
    BY <1>t, <2>1, <2>2 DEF PoolTypes, PoolMoves
  <2>5. QED
    BY <2>1, <2>3, <2>4 DEF PoolInv, SwapsOnlyLower, Less, PoolMoves
<1>5. QED
  BY <1>1, <1>2, <1>3, <1>4 DEF PoolNext

LEMMA PoolInvInit == PoolInit => PoolInv
<1>1. ASSUME PoolInit PROVE PoolInv
  <2>1. NoCall \in OomCalls
    BY CallShape
  <2>2. PoolTypes
    BY <1>1, <2>1, PoolAssumption DEF PoolInit, PoolTypes, BlockStates
  <2>3. QED
    BY <1>1, <2>2 DEF PoolInit, PoolInv, SwapsOnlyLower
<1>2. QED
  BY <1>1

(* What a step does to the sum of the blocks in use.                       *)
LEMMA SumStays ==
  ASSUME PoolTypes, Uses
  PROVE  \/ used_bytes(Blocks)' <= total_capacity
         \/ used_bytes(Blocks)' <= used_bytes(Blocks)
         \/ BringsBack
<1>1. PICK U, V : U = InUse(Blocks) /\ V = InUse(Blocks)'
  OBVIOUS
<1>2. used_bytes(Blocks) = SumFunctionOnSet(requested_size, U)
      /\ used_bytes(Blocks)' = SumFunctionOnSet(requested_size, V)
  BY <1>1 DEF used_bytes
<1>3. IsFiniteSet(U) /\ U \subseteq Blocks /\ \A b \in U : requested_size[b] \in Nat
  BY <1>1, PoolAssumption, FS_Subset DEF InUse
<1>4. CASE V \subseteq U
  BY <1>2, <1>3, <1>4, SumFewer
<1>5. CASE \E b \in Blocks : Fits(b)
  <2>1. PICK b \in Blocks : Fits(b)
    BY <1>5
  <2>2. PICK n : n = requested_size[b]
    OBVIOUS
  <2>3. n \in Nat /\ total_capacity \in Nat
    BY <2>2, PoolAssumption
  <2>4. SumFunctionOnSet(requested_size, U) + n <= total_capacity /\ V = U \cup {b}
    BY <1>1, <1>2, <2>1, <2>2 DEF Fits, has_capacity
  <2>5. /\ SumFunctionOnSet(requested_size, V) = n + SumFunctionOnSet(requested_size, U \ {b})
        /\ SumFunctionOnSet(requested_size, U \ {b}) \in Nat
        /\ SumFunctionOnSet(requested_size, U) \in Nat
        /\ SumFunctionOnSet(requested_size, U \ {b}) <= SumFunctionOnSet(requested_size, U)
    <3>2. /\ SumFunctionOnSet(requested_size, U \cup {b}) =
               requested_size[b] + SumFunctionOnSet(requested_size, U \ {b})
          /\ SumFunctionOnSet(requested_size, U \ {b}) \in Nat
      <4>1. PICK f, g : f = requested_size /\ g = requested_size
        OBVIOUS
      <4>2. /\ \A y \in U : f[y] \in Nat
            /\ \A y \in U \ {b} : g[y] = f[y]
            /\ g[b] \in Nat
        BY <1>3, <2>2, <2>3, <4>1
      <4>3. /\ SumFunctionOnSet(g, U \cup {b}) = g[b] + SumFunctionOnSet(f, U \ {b})
            /\ SumFunctionOnSet(f, U \ {b}) \in Nat
            /\ b \in U => SumFunctionOnSet(f, U) = f[b] + SumFunctionOnSet(f, U \ {b})
            /\ b \notin U => SumFunctionOnSet(f, U) = SumFunctionOnSet(f, U \ {b})
        BY <1>3, <4>2, SumUpdate
      <4>4. QED
        BY <4>1, <4>3
    <3>3. SumFunctionOnSet(requested_size, U) \in Nat
      BY <1>3, SumBound
    <3>4. SumFunctionOnSet(requested_size, U \ {b}) <= SumFunctionOnSet(requested_size, U)
      <4>1. U \ {b} \in SUBSET U
        OBVIOUS
      <4>2. QED
        BY <1>3, <4>1, SumFewer
    <3>5. QED
      BY <2>2, <2>4, <3>2, <3>3, <3>4
  <2>6. PICK x, y, z : /\ x = SumFunctionOnSet(requested_size, U \ {b})
                       /\ y = SumFunctionOnSet(requested_size, U)
                       /\ z = SumFunctionOnSet(requested_size, V)
    OBVIOUS
  <2>7. z = n + x /\ x \in Nat /\ y \in Nat /\ x <= y /\ y + n <= total_capacity
    BY <2>4, <2>5, <2>6
  <2>8. z <= total_capacity
    BY <2>3, <2>7
  <2>9. QED
    BY <1>2, <2>6, <2>8
<1>6. QED
  BY <1>1, <1>4, <1>5 DEF Uses

(* Only what brings a block back from the host can put the pool over its   *)
(* capacity: every allocation that grows it keeps to it, also when others  *)
(* allocate and free while it swaps.                                       *)
THEOREM OnlyReturnsOverfill == PoolSpec => WithinCapacity
<1>1. PoolInv /\ [PoolNext]_poolVars => PoolInv'
  <2>1. PoolInv /\ PoolNext => PoolInv'
    BY PoolInvNext
  <2>2. PoolInv /\ UNCHANGED poolVars => PoolInv'
    BY DEF poolVars, PoolInv, PoolTypes, SwapsOnlyLower, Less
  <2>3. QED
    BY <2>1, <2>2
<1>2. PoolInv /\ [PoolNext]_poolVars =>
        [\/ used_bytes(Blocks)' <= total_capacity
         \/ used_bytes(Blocks)' <= used_bytes(Blocks)
         \/ \E b \in Blocks : block[b] \in {"Swapped", "MigratedToCpu"}
                            /\ block'[b] = "Allocated"]_poolVars
  <2>1. PoolInv => PoolTypes
    BY DEF PoolInv
  <2>2. QED
    BY <2>1, PoolInvNext, SumStays DEF BringsBack
<1>3. QED
  BY <1>1, <1>2, PoolInvInit, PTL DEF PoolSpec, WithinCapacity

(* Whatever the other callers do between its reads, the first stage of the *)
(* killer moves out only blocks of agents less important than the one it   *)
(* works for; but an agent of the lowest importance counts as normal once  *)
(* the killer has dropped its budget, and may move out blocks of the       *)
(* lowest.                                                                 *)
THEOREM LowerSwapped == PoolSpec => []SwapsOnlyLower
<1>1. PoolInv /\ [PoolNext]_poolVars => PoolInv'
  <2>1. PoolInv /\ PoolNext => PoolInv'
    BY PoolInvNext
  <2>2. PoolInv /\ UNCHANGED poolVars => PoolInv'
    BY DEF poolVars, PoolInv, PoolTypes, SwapsOnlyLower, Less
  <2>3. QED
    BY <2>1, <2>2
<1>2. PoolInv => SwapsOnlyLower
  BY DEF PoolInv
<1>3. QED
  BY <1>1, <1>2, PoolInvInit, PTL DEF PoolSpec
=============================================================================
