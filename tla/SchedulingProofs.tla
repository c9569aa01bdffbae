------------------------- MODULE SchedulingProofs -------------------------
(***************************************************************************)
(* Proofs about scheduling: the internal calendar, for any number of       *)
(* staff, services, pools, appointments and operations and any day; the    *)
(* authority switch, for any number of operation keys, callers, previews,  *)
(* switches and edits; and the two together, as MCScheduling runs them:    *)
(* each component keeps, in every behaviour of the two, what was proved of *)
(* it alone.                                                               *)
(***************************************************************************)
EXTENDS MCScheduling, FiniteSetTheorems, WellFoundedInduction, TLAPS

-----------------------------------------------------------------------------
\* ************************** The internal calendar ************************

-----------------------------------------------------------------------------
\* The least element of a set of naturals.
LEMMA LeastNatural ==
    ASSUME NEW S \in SUBSET Nat, S # {}
    PROVE  \E n \in S : \A m \in S : n <= m
<1> DEFINE Less == {pair \in Nat \X Nat : pair[1] < pair[2]}
<1>1. OpToRel(<, Nat) = Less
  BY Zenon DEF OpToRel
<1>2. \E n \in S : \A m \in S : ~ (<<m, n>> \in Less)
  <2> HIDE DEF Less
  <2> QED BY <1>1, NatLessThanWellFounded, WFMin
<1>3. \A m, n \in Nat : <<m, n>> \in Less <=> m < n
  OBVIOUS
<1> HIDE DEF Less
<1>4. PICK n \in S : \A m \in S : ~ (<<m, n>> \in Less)
  BY <1>2
<1>5. \A m \in S : ~ (m < n)
  BY <1>3, <1>4
<1> QED BY <1>5

\* The greatest element of a bounded set of naturals.
LEMMA GreatestNatural ==
    ASSUME NEW bound \in Nat, NEW S \in SUBSET (0 .. bound), S # {}
    PROVE  \E n \in S : \A m \in S : m <= n
<1> DEFINE T == {bound - m : m \in S}
<1>1. T \in SUBSET Nat /\ T # {}
  <2>1. \A m \in S : bound - m \in Nat
    OBVIOUS
  <2>2. PICK m \in S : TRUE
    OBVIOUS
  <2> QED BY <2>1, <2>2
<1>2. PICK t \in T : \A u \in T : t <= u
  BY <1>1, LeastNatural
<1>3. PICK n \in S : t = bound - n
  BY <1>2
<1>4. ASSUME NEW m \in S PROVE m <= n
  <2>1. bound - n <= bound - m
    BY <1>2, <1>3
  <2> QED BY <2>1
<1> QED BY <1>4

\* A set of numbers along a sequence has a lexicographically first one.
LEMMA FirstIsOne ==
    ASSUME NEW n \in Nat, NEW fs \in SUBSET [1 .. n -> Staff], fs # {}
    PROVE  First(fs) \in fs
<1> DEFINE Agree(f, g, k) == \A i \in 1 .. k : f[i] = g[i]
           Leads(f, g, k) == Agree(f, g, k) \/ \E i \in 1 .. k : f[i] < g[i] /\ Agree(f, g, i - 1)
           Led == {k \in 0 .. n : \E f \in fs : \A g \in fs : Leads(f, g, k)}
<1>1. 0 \in Led
  OBVIOUS
<1>2. PICK k \in Led : \A m \in Led : m <= k
  BY <1>1, GreatestNatural DEF Led
<1>3. PICK f \in fs : \A g \in fs : Leads(f, g, k)
  BY <1>2
<1>4. k \in 0 .. n
  BY <1>2
<1>5. k = n
  <2> SUFFICES ASSUME k < n PROVE FALSE
    BY <1>4
  <2> DEFINE Same == {g \in fs : Agree(f, g, k)}
             Nexts == {g[k + 1] : g \in Same}
  <2>1. k + 1 \in 1 .. n
    BY <1>4
  <2>2. Nexts \in SUBSET Nat /\ Nexts # {}
    <3>1. f \in Same
      OBVIOUS
    <3>2. \A g \in fs : g[k + 1] \in Nat
      BY <2>1 DEF Staff
    <3> QED BY <3>1, <3>2
  <2>3. PICK x \in Nexts : \A y \in Nexts : x <= y
    BY <2>2, LeastNatural
  <2>4. PICK g \in Same : x = g[k + 1]
    BY <2>3
  <2>5. ASSUME NEW h \in fs PROVE Leads(g, h, k + 1)
    <3>1. Agree(f, g, k)
      BY <2>4
    <3>2. CASE Agree(f, h, k)
      <4>1. g[k + 1] <= h[k + 1] /\ g[k + 1] \in Nat /\ h[k + 1] \in Nat
        BY <2>2, <2>3, <2>4, <3>2
      <4>2. Agree(g, h, k)
        BY <3>1, <3>2
      <4>3. CASE g[k + 1] = h[k + 1]
        BY <1>4, <4>2, <4>3
      <4>4. CASE g[k + 1] < h[k + 1]
        BY <1>4, <2>1, <4>2, <4>4
      <4> QED BY <4>1, <4>3, <4>4
    <3>3. CASE \E i \in 1 .. k : f[i] < h[i] /\ Agree(f, h, i - 1)
      <4>1. PICK i \in 1 .. k : f[i] < h[i] /\ Agree(f, h, i - 1)
        BY <3>3
      <4>2. g[i] < h[i] /\ Agree(g, h, i - 1) /\ i \in 1 .. k + 1
        BY <1>4, <3>1, <4>1
      <4> QED BY <4>2
    <3> QED BY <1>3, <3>2, <3>3
  <2>6. k + 1 \in Led
    <3>1. g \in fs
      BY <2>4
    <3> HIDE DEF Leads
    <3> QED BY <2>1, <2>5, <3>1
  <2>7. k + 1 <= k
    BY <1>2, <2>6
  <2> QED BY <1>4, <2>7
<1>6. \A g \in fs \ {f} : Before(f, g)
  <2> SUFFICES ASSUME NEW g \in fs, g # f PROVE Before(f, g)
    OBVIOUS
  <2>1. Leads(f, g, n)
    BY <1>3, <1>5
  <2>2. ~ Agree(f, g, n)
    OBVIOUS
  <2>3. PICK i \in 1 .. n : f[i] < g[i] /\ Agree(f, g, i - 1)
    BY <2>1, <2>2
  <2>4. DOMAIN f = 1 .. n
    OBVIOUS
  <2> QED BY <2>3, <2>4 DEF Before
<1> QED BY <1>3, <1>6 DEF First

-----------------------------------------------------------------------------
\* Sums over finite sets.

\* A family of subsets of a finite set has a smallest member.
LEMMA SmallestSet ==
    ASSUME NEW S, IsFiniteSet(S), NEW B \in SUBSET SUBSET S, B # {}
    PROVE  \E T \in B : \A U \in SUBSET T : U # T => U \notin B
<1> DEFINE Sizes == {Cardinality(T) : T \in B}
<1>1. \A T \in B : IsFiniteSet(T) /\ Cardinality(T) \in Nat
  BY FS_Subset, FS_CardinalityType
<1>2. Sizes \in SUBSET Nat /\ Sizes # {}
  BY <1>1
<1>3. PICK k \in Sizes : \A m \in Sizes : k <= m
  BY <1>2, LeastNatural
<1>4. PICK T \in B : k = Cardinality(T)
  BY <1>3
<1>5. ASSUME NEW U \in SUBSET T, U # T, U \in B PROVE FALSE
  BY <1>1, <1>3, <1>4, <1>5, FS_Subset
<1> QED BY <1>5

Picked(s) == CHOOSE x \in s : TRUE

\* The recursion that SumFunction is defined by.
Totals(f, it) ==
    it = [s \in SUBSET DOMAIN f |->
            IF s = {} THEN 0 ELSE f[Picked(s)] + it[s \ {Picked(s)}]]

LEMMA SumIsTotal ==
    ASSUME NEW f
    PROVE  SumFunction(f) = (CHOOSE it : Totals(f, it))[DOMAIN f]
BY Zenon DEF SumFunction, SumFunctionOnSet, FoldFunctionOnSet, MapThenFoldSet, Totals, Picked

\* The recursion has a solution.
LEMMA TotalsExist ==
    ASSUME NEW S, IsFiniteSet(S), NEW f \in [S -> Nat]
    PROVE  \E it : Totals(f, it)
<1> DEFINE Small(n) == {s \in SUBSET S : Cardinality(s) <= n}
           Sum(it, s) == IF s = {} THEN 0 ELSE f[Picked(s)] + it[s \ {Picked(s)}]
           Good == {n \in 0 .. Cardinality(S) : \E it : it = [s \in Small(n) |-> Sum(it, s)]}
<1>0. \A s \in SUBSET S : IsFiniteSet(s) /\ Cardinality(s) \in 0 .. Cardinality(S)
  BY FS_Subset, FS_CardinalityType
<1>1. 0 \in Good
  <2>1. \A s \in Small(0) : s = {}
    BY <1>0, FS_EmptySet
  <2>2. [s \in Small(0) |-> 0] = [s \in Small(0) |-> Sum([r \in Small(0) |-> 0], s)]
    BY <2>1
  <2>3. 0 \in 0 .. Cardinality(S)
    BY FS_CardinalityType
  <2> QED BY <2>2, <2>3
<1>2. PICK k \in Good : \A m \in Good : m <= k
  BY <1>1, GreatestNatural, FS_CardinalityType DEF Good
<1>3. k \in 0 .. Cardinality(S) /\ \E it : it = [s \in Small(k) |-> Sum(it, s)]
  BY <1>2
<1>4. PICK it : it = [s \in Small(k) |-> Sum(it, s)]
  BY <1>3
<1>5. k = Cardinality(S)
  <2> SUFFICES ASSUME k < Cardinality(S) PROVE FALSE
    BY <1>3, FS_CardinalityType
  <2> DEFINE jt == [s \in Small(k + 1) |-> Sum(it, s)]
  <2>1. ASSUME NEW s \in Small(k + 1) PROVE Sum(it, s) = Sum(jt, s)
    <3>1. CASE s = {}
      BY <3>1
    <3>2. CASE s # {}
      <4>1. Picked(s) \in s
        BY <3>2 DEF Picked
      <4>2. s \ {Picked(s)} \in Small(k)
        BY <1>0, <1>3, <4>1, FS_RemoveElement
      <4>3. s \ {Picked(s)} \in Small(k + 1)
        BY <1>0, <1>3, <4>2
      <4>4. it[s \ {Picked(s)}] = Sum(it, s \ {Picked(s)})
        BY <1>4, <4>2
      <4>5. jt[s \ {Picked(s)}] = Sum(it, s \ {Picked(s)})
        BY <4>3
      <4> QED BY <4>4, <4>5
    <3> QED BY <3>1, <3>2
  <2>2. jt = [s \in Small(k + 1) |-> Sum(jt, s)]
    BY <2>1
  <2>3. k + 1 \in 0 .. Cardinality(S)
    BY <1>3, FS_CardinalityType
  <2>4. k + 1 \in Good
    BY <2>2, <2>3
  <2>5. k + 1 <= k
    BY <1>2, <2>4
  <2> QED BY <1>3, <2>5
<1>6. Small(k) = SUBSET S
  BY <1>0, <1>5
<1> QED BY <1>4, <1>6 DEF Totals

\* It can take any element out first.
LEMMA TotalsExchange ==
    ASSUME NEW S, IsFiniteSet(S), NEW f \in [S -> Nat], NEW it, Totals(f, it)
    PROVE  \A T \in SUBSET S : /\ it[T] \in Nat
                               /\ \A x \in T : it[T] = f[x] + it[T \ {x}]
<1> DEFINE Fine(T) == it[T] \in Nat /\ \A x \in T : it[T] = f[x] + it[T \ {x}]
           Bad == {T \in SUBSET S : ~ Fine(T)}
<1>1. \A T \in SUBSET S : it[T] = IF T = {} THEN 0 ELSE f[Picked(T)] + it[T \ {Picked(T)}]
  BY DEF Totals
<1>2. ASSUME NEW T \in SUBSET S, \A U \in SUBSET T : U # T => Fine(U) PROVE Fine(T)
  <2>1. CASE T = {}
    <3>1. it[T] = 0
      BY <1>1, <2>1
    <3> QED BY <2>1, <3>1
  <2>2. CASE T # {}
    <3>1. PICK c \in T : c = Picked(T)
      BY <2>2 DEF Picked
    <3>2. it[T] = f[c] + it[T \ {c}]
      BY <1>1, <2>2, <3>1
    <3>3. Fine(T \ {c}) /\ f[c] \in Nat
      BY <1>2
    <3>4. it[T] \in Nat
      BY <3>2, <3>3
    <3>5. ASSUME NEW x \in T PROVE it[T] = f[x] + it[T \ {x}]
      <4>1. CASE x = c
        BY <3>2, <4>1
      <4>2. CASE x # c
        <5> DEFINE R == T \ {c, x}
        <5>1. Fine(T \ {x}) /\ Fine(R) /\ f[x] \in Nat
          BY <1>2
        <5>2. (T \ {c}) \ {x} = R /\ (T \ {x}) \ {c} = R /\ x \in T \ {c} /\ c \in T \ {x}
          BY <4>2
        <5>3. it[T \ {c}] = f[x] + it[R]
          BY <3>3, <5>2
        <5>4. it[T \ {x}] = f[c] + it[R]
          BY <5>1, <5>2
        <5>5. it[R] \in Nat
          BY <5>1
        <5> HIDE DEF R, Fine
        <5> QED BY <3>2, <3>3, <5>1, <5>3, <5>4, <5>5
      <4> QED BY <4>1, <4>2
    <3> QED BY <3>4, <3>5
  <2> QED BY <2>1, <2>2
<1>3. Bad = {}
  <2> SUFFICES ASSUME Bad # {} PROVE FALSE
    OBVIOUS
  <2>1. PICK T \in Bad : \A U \in SUBSET T : U # T => U \notin Bad
    <3> HIDE DEF Bad
    <3>1. Bad \in SUBSET SUBSET S
      BY DEF Bad
    <3> QED BY <3>1, SmallestSet
  <2>2. T \in SUBSET S /\ ~ Fine(T)
    BY <2>1
  <2>3. \A U \in SUBSET T : U # T => Fine(U)
    BY <2>1, <2>2
  <2> HIDE DEF Fine
  <2> QED BY <1>2, <2>2, <2>3
<1> QED BY <1>3

\* Where two functions agree, so do their totals.
LEMMA TotalsAgree ==
    ASSUME NEW S, IsFiniteSet(S), NEW f \in [S -> Nat], NEW it, Totals(f, it),
           NEW T, IsFiniteSet(T), NEW g \in [T -> Nat], NEW jt, Totals(g, jt),
           NEW U \in SUBSET (S \cap T), \A x \in U : f[x] = g[x]
    PROVE  it[U] = jt[U]
<1> DEFINE Bad == {V \in SUBSET U : it[V] # jt[V]}
<1>1. Bad = {}
  <2> SUFFICES ASSUME Bad # {} PROVE FALSE
    OBVIOUS
  <2>1. IsFiniteSet(U)
    BY FS_Subset
  <2>2. PICK V \in Bad : \A W \in SUBSET V : W # V => W \notin Bad
    <3> HIDE DEF Bad
    <3>1. Bad \in SUBSET SUBSET U
      BY DEF Bad
    <3> QED BY <2>1, <3>1, SmallestSet
  <2>3. V \in SUBSET U /\ it[V] # jt[V]
    BY <2>2
  <2>4. CASE V = {}
    BY <2>3, <2>4 DEF Totals
  <2>5. CASE V # {}
    <3>1. PICK x \in V : TRUE
      BY <2>5
    <3>2. it[V] = f[x] + it[V \ {x}] /\ jt[V] = g[x] + jt[V \ {x}]
      BY <2>3, TotalsExchange
    <3>3. it[V \ {x}] = jt[V \ {x}]
      BY <2>2, <2>3
    <3> QED BY <2>3, <3>2, <3>3
  <2> QED BY <2>4, <2>5
<1> QED BY <1>1

(* What a sum is: a natural number, zero for nothing, and for a set the    *)
(* value at any element added to the sum over the others.                  *)
LEMMA SumStep ==
    ASSUME NEW S, IsFiniteSet(S), NEW f \in [S -> Nat]
    PROVE  /\ SumFunction(f) \in Nat
           /\ S = {} => SumFunction(f) = 0
           /\ \A x \in S : SumFunction(f) = f[x] + SumFunction([y \in S \ {x} |-> f[y]])
<1> DEFINE it == CHOOSE jt : Totals(f, jt)
<1>1. Totals(f, it)
  BY TotalsExist
<1>2. SumFunction(f) = it[S]
  BY SumIsTotal
<1>3. S = {} => it[S] = 0
  BY <1>1 DEF Totals
<1>4. ASSUME NEW x \in S PROVE it[S] = f[x] + SumFunction([y \in S \ {x} |-> f[y]])
  <2> DEFINE g == [y \in S \ {x} |-> f[y]]
             jt == CHOOSE kt : Totals(g, kt)
  <2>1. IsFiniteSet(S \ {x}) /\ g \in [S \ {x} -> Nat]
    BY FS_Subset
  <2>2. Totals(g, jt)
    BY <2>1, TotalsExist
  <2>3. SumFunction(g) = jt[S \ {x}]
    BY SumIsTotal
  <2>4. it[S \ {x}] = jt[S \ {x}]
    <3>1. \A y \in S \ {x} : f[y] = g[y]
      OBVIOUS
    <3> HIDE DEF it, jt, g
    <3> QED BY <1>1, <2>1, <2>2, <3>1, TotalsAgree
  <2>5. it[S] = f[x] + it[S \ {x}]
    BY <1>1, TotalsExchange
  <2> QED BY <2>3, <2>4, <2>5
<1>5. it[S] \in Nat
  BY <1>1, TotalsExchange
<1> HIDE DEF it
<1> QED BY <1>2, <1>3, <1>4, <1>5

\* An element is taken out.
TakesOut(S, f, x, g) ==
    /\ IsFiniteSet(S) /\ f \in [S -> Nat] /\ x \in S /\ g \in [S \ {x} -> Nat]
    /\ \A y \in S \ {x} : g[y] = f[y]

LEMMA SumTakeOut ==
    ASSUME NEW S, NEW f, NEW x, NEW g, TakesOut(S, f, x, g)
    PROVE  SumFunction(f) = f[x] + SumFunction(g)
<1>1. g = [y \in S \ {x} |-> f[y]]
  BY DEF TakesOut
<1>2. IsFiniteSet(S) /\ f \in [S -> Nat] /\ x \in S
  BY DEF TakesOut
<1>3. \A z \in S : SumFunction(f) = f[z] + SumFunction([y \in S \ {z} |-> f[y]])
  BY <1>2, SumStep
<1>4. SumFunction(f) = f[x] + SumFunction([y \in S \ {x} |-> f[y]])
  BY <1>2, <1>3
<1> QED BY <1>1, <1>4

\* The sum over two sets that have no element in common.
Splits(f, S, g, T, h) ==
    /\ IsFiniteSet(S) /\ IsFiniteSet(T) /\ S \cap T = {}
    /\ f \in [S \cup T -> Nat] /\ g \in [S -> Nat] /\ h \in [T -> Nat]
    /\ \A x \in S : f[x] = g[x]
    /\ \A x \in T : f[x] = h[x]

LEMMA SumSplit ==
    ASSUME NEW f, NEW S, NEW g, NEW T, NEW h, Splits(f, S, g, T, h)
    PROVE  SumFunction(f) = SumFunction(g) + SumFunction(h)
<1> USE DEF Splits
<1> DEFINE Part(U) == [x \in U |-> f[x]]
           Bad == {U \in SUBSET T : SumFunction(Part(S \cup U)) #
                                    SumFunction(Part(S)) + SumFunction(Part(U))}
<1>1. ASSUME NEW U \in SUBSET (S \cup T)
      PROVE  /\ SumFunction(Part(U)) \in Nat
             /\ U = {} => SumFunction(Part(U)) = 0
             /\ \A x \in U : SumFunction(Part(U)) = f[x] + SumFunction(Part(U \ {x}))
  <2>1. IsFiniteSet(S \cup T)
    BY FS_Union
  <2>2. IsFiniteSet(U) /\ Part(U) \in [U -> Nat]
    BY <2>1, FS_Subset
  <2>3. \A x \in U : [y \in U \ {x} |-> Part(U)[y]] = Part(U \ {x}) /\ Part(U)[x] = f[x]
    OBVIOUS
  <2> HIDE DEF Part
  <2>4. /\ SumFunction(Part(U)) \in Nat
        /\ U = {} => SumFunction(Part(U)) = 0
        /\ \A x \in U : SumFunction(Part(U)) =
               Part(U)[x] + SumFunction([y \in U \ {x} |-> Part(U)[y]])
    BY <2>2, SumStep, SMTT(30)
  <2> QED BY <2>3, <2>4
<1>2. Bad = {}
  <2> SUFFICES ASSUME Bad # {} PROVE FALSE
    OBVIOUS
  <2>1. PICK U \in Bad : \A V \in SUBSET U : V # U => V \notin Bad
    <3> HIDE DEF Bad
    <3>1. Bad \in SUBSET SUBSET T
      BY DEF Bad
    <3> QED BY <3>1, SmallestSet
  <2>2. U \in SUBSET T /\ SumFunction(Part(S \cup U)) #
                          SumFunction(Part(S)) + SumFunction(Part(U))
    BY <2>1
  <2>3. SumFunction(Part(S)) \in Nat
    BY <1>1
  <2>4. CASE U = {}
    <3>1. SumFunction(Part(U)) = 0 /\ S \cup U = S
      BY <1>1, <2>4
    <3> HIDE DEF Part
    <3> QED BY <2>2, <2>3, <3>1
  <2>5. CASE U # {}
    <3>1. PICK x \in U : TRUE
      BY <2>5
    <3>2. SumFunction(Part(U)) = f[x] + SumFunction(Part(U \ {x}))
      BY <1>1, <2>2
    <3>3. SumFunction(Part(S \cup U)) = f[x] + SumFunction(Part(S \cup (U \ {x})))
      <4>1. (S \cup U) \ {x} = S \cup (U \ {x})
        BY <2>2
      <4> HIDE DEF Part
      <4> QED BY <1>1, <2>2, <4>1
    <3>4. SumFunction(Part(S \cup (U \ {x}))) = SumFunction(Part(S)) + SumFunction(Part(U \ {x}))
      BY <2>1, <2>2
    <3>5. SumFunction(Part(U \ {x})) \in Nat /\ f[x] \in Nat
      BY <1>1, <2>2
    <3> HIDE DEF Part
    <3> QED BY <2>2, <2>3, <3>2, <3>3, <3>4, <3>5
  <2> QED BY <2>4, <2>5
<1>3. T \in SUBSET T /\ f = Part(S \cup T) /\ g = Part(S) /\ h = Part(T)
  OBVIOUS
<1> HIDE DEF Part
<1>4. SumFunction(Part(S \cup T)) = SumFunction(Part(S)) + SumFunction(Part(T))
  BY <1>2, <1>3
<1> QED BY <1>3, <1>4

\* Sums over sets that correspond one to one are the same.
Reindexes(e, S, b, f, T) ==
    /\ IsFiniteSet(S) /\ f \in [T -> Nat] /\ b \in [S -> T] /\ e \in [S -> Nat]
    /\ \A x, y \in S : b[x] = b[y] => x = y
    /\ \A z \in T : \E x \in S : b[x] = z
    /\ \A x \in S : e[x] = f[b[x]]

LEMMA SumReindex ==
    ASSUME NEW e, NEW S, NEW b, NEW f, NEW T, Reindexes(e, S, b, f, T)
    PROVE  SumFunction(e) = SumFunction(f)
<1> USE DEF Reindexes
<1> DEFINE Image(U) == {b[x] : x \in U}
           Left(U) == [x \in U |-> f[b[x]]]
           Right(U) == [z \in Image(U) |-> f[z]]
           Bad == {U \in SUBSET S : SumFunction(Left(U)) # SumFunction(Right(U))}
<1>0. IsFiniteSet(T) /\ Image(S) = T
  <2>1. b \in Surjection(S, T)
    BY DEF Surjection
  <2> QED BY <2>1, FS_Surjection
<1>1. ASSUME NEW U \in SUBSET S
      PROVE  /\ IsFiniteSet(U) /\ IsFiniteSet(Image(U))
             /\ Left(U) \in [U -> Nat] /\ Right(U) \in [Image(U) -> Nat]
             /\ Image(U) \in SUBSET T
  BY <1>0, FS_Subset
<1>2. Bad = {}
  <2> SUFFICES ASSUME Bad # {} PROVE FALSE
    OBVIOUS
  <2>1. PICK U \in Bad : \A V \in SUBSET U : V # U => V \notin Bad
    <3> HIDE DEF Bad
    <3>1. Bad \in SUBSET SUBSET S
      BY DEF Bad
    <3> QED BY <3>1, SmallestSet
  <2>2. U \in SUBSET S /\ SumFunction(Left(U)) # SumFunction(Right(U))
    BY <2>1
  <2>3. CASE U = {}
    <3>1. Image(U) = {}
      BY <2>3
    <3>2. SumFunction(Left(U)) = 0 /\ SumFunction(Right(U)) = 0
      BY <1>1, <2>2, <2>3, <3>1, SumStep
    <3> QED BY <2>2, <3>2
  <2>4. CASE U # {}
    <3>1. PICK x \in U : TRUE
      BY <2>4
    <3>2. /\ [y \in U \ {x} |-> Left(U)[y]] = Left(U \ {x}) /\ Left(U)[x] = f[b[x]]
          /\ Image(U) \ {b[x]} = Image(U \ {x}) /\ b[x] \in Image(U)
      BY <2>2
    <3>3. [z \in Image(U) \ {b[x]} |-> Right(U)[z]] = Right(U \ {x}) /\ Right(U)[b[x]] = f[b[x]]
      BY <3>2
    <3>4. SumFunction(Left(U)) = f[b[x]] + SumFunction(Left(U \ {x}))
      <4>1. \A y \in U \ {x} : Left(U \ {x})[y] = Left(U)[y]
        OBVIOUS
      <4>2. U \ {x} \in SUBSET S
        BY <2>2
      <4>3. Left(U) \in [U -> Nat]
        BY <1>1, <2>2
      <4>4. Left(U \ {x}) \in [U \ {x} -> Nat]
        BY <1>1, <4>2
      <4>5. IsFiniteSet(U)
        BY <1>1, <2>2
      <4> HIDE DEF Left
      <4>6. TakesOut(U, Left(U), x, Left(U \ {x}))
        BY <4>1, <4>3, <4>4, <4>5 DEF TakesOut
      <4>7. SumFunction(Left(U)) = Left(U)[x] + SumFunction(Left(U \ {x}))
        BY <4>6, SumTakeOut
      <4> QED BY <3>2, <4>7
    <3>5. SumFunction(Right(U)) = f[b[x]] + SumFunction(Right(U \ {x}))
      <4>1. \A z \in Image(U) \ {b[x]} : Right(U \ {x})[z] = Right(U)[z]
        BY <3>2
      <4>2. U \ {x} \in SUBSET S
        BY <2>2
      <4>3. Right(U) \in [Image(U) -> Nat]
        BY <1>1, <2>2
      <4>4. Right(U \ {x}) \in [Image(U) \ {b[x]} -> Nat]
        BY <1>1, <3>2, <4>2
      <4>5. IsFiniteSet(Image(U))
        BY <1>1, <2>2
      <4>6. b[x] \in Image(U)
        OBVIOUS
      <4> HIDE DEF Right, Image
      <4>7. TakesOut(Image(U), Right(U), b[x], Right(U \ {x}))
        BY <4>1, <4>3, <4>4, <4>5, <4>6 DEF TakesOut
      <4>8. SumFunction(Right(U)) = Right(U)[b[x]] + SumFunction(Right(U \ {x}))
        BY <4>7, SumTakeOut
      <4> QED BY <3>3, <4>8
    <3>6. SumFunction(Left(U \ {x})) = SumFunction(Right(U \ {x}))
      BY <2>1, <2>2
    <3> HIDE DEF Left, Right, Image
    <3> QED BY <2>2, <3>4, <3>5, <3>6
  <2> QED BY <2>3, <2>4
<1>3. S \in SUBSET S /\ Right(S) = f /\ Left(S) = e
  BY <1>0
<1>4. SumFunction(Left(S)) = SumFunction(Right(S))
  BY <1>2, <1>3
<1> QED BY <1>3, <1>4

-----------------------------------------------------------------------------
\* Types.

AppointmentRows == [status : {"none", "cancelled"} \cup Active, version : Nat, start : Int,
                    shape : Seq(RequestSegments), aversion : Nat, cversion : Nat]
SegmentRows == [appt : Appts, version : Nat, order : Nat \ {0}, segment : PlanRows,
                released : BOOLEAN]

ConfigTyped == config \in Configs /\ config.activated <= config.version

RowsTyped ==
    /\ authority \in [name : Authorities, version : Nat]
    /\ mirror \subseteq ExtBusy
    /\ quotes \in [Quotes -> QuoteRows \cup {None}]
    /\ attempts \in [Keys -> AttemptRows \cup {None}]
    /\ appts \in [Appts -> AppointmentRows]
    /\ segments \subseteq SegmentRows /\ IsFiniteSet(segments)
    /\ now \in Nat

\* A segment row is of a plan that fits into the day.
InTheDay == \A s \in segments : 0 <= s.segment.from /\ s.segment.to <= Day

\* An appointment that was never made has gone through no version.
NoneIsBlank == \A a \in Appts : appts[a].status = "none" => appts[a].version = 0

(* A live appointment's plan, and no other, is unreleased: the inductive   *)
(* form has every part that the properties of the calendar rest on.        *)
CalendarInv ==
    /\ ConfigTyped /\ RowsTyped /\ InTheDay /\ NoneIsBlank
    /\ PlanIsCurrent /\ NoStaffOverlap /\ OperationsCountOnce

-----------------------------------------------------------------------------
\* The configuration.

LEMMA MutateTypes ==
    ASSUME ConfigTyped, NEW edited \in Configs, edited.activated <= config.version + 1,
           Mutate(config.version, edited)
    PROVE  ConfigTyped'
<1>1. config' = [edited EXCEPT !.version = config.version + 1]
  BY DEF Mutate
<1>2. config.version + 1 \in Nat
  BY DEF ConfigTyped, Configs
<1>3. config' \in Configs /\ config'.version = config.version + 1
      /\ config'.activated = edited.activated
  BY <1>1, <1>2 DEF Configs
<1> QED BY <1>3 DEF ConfigTyped

LEMMA ConfigureTypes ==
    ASSUME ConfigTyped, Configure PROVE ConfigTyped'
<1>0. config \in Configs /\ config.activated <= config.version + 1 /\ config.version \in Nat
  BY DEF ConfigTyped, Configs
<1>1. ASSUME NEW input \in ConfigInputs, PutConfig(config.version, input) PROVE ConfigTyped'
  <2> DEFINE edited == [config EXCEPT
                           !.step = input.step, !.notice = input.notice,
                           !.maxParty = input.maxParty,
                           !.before = input.before, !.after = input.after,
                           !.rescheduleCutoff = input.rescheduleCutoff,
                           !.cancellationCutoff = input.cancellationCutoff]
  <2>1. /\ input \in ConfigValues /\ input.step \in Nat \ {0} /\ input.notice \in Nat
        /\ input.maxParty \in Nat /\ input.before \in Nat /\ input.after \in Nat
    BY <1>1, CalendarInputs DEF PutConfig, ValidConfig, ConfigValues
  <2>2. edited \in Configs /\ edited.activated = config.activated
    BY <1>0, <2>1 DEF Configs, ConfigValues
  <2>3. Mutate(config.version, edited)
    BY <1>1 DEF PutConfig
  <2> HIDE DEF edited
  <2> QED BY <1>0, <2>2, <2>3, MutateTypes
<1>2. ASSUME NEW periods \in HoursInputs, PutHours(config.version, periods) PROVE ConfigTyped'
  <2> DEFINE edited == [config EXCEPT !.hours = periods]
  <2>1. edited \in Configs /\ edited.activated = config.activated
    BY <1>0, CalendarInputs DEF Configs
  <2>2. Mutate(config.version, edited)
    BY <1>2 DEF PutHours
  <2> HIDE DEF edited
  <2> QED BY <1>0, <2>1, <2>2, MutateTypes
<1>3. ASSUME NEW i \in ProfileInputs,
             PutStaffProfile(config.version, i.staff, i.periods, i.services)
      PROVE  ConfigTyped'
  <2> DEFINE policies == [s \in Services |->
                            [config.policies[s] EXCEPT
                               !.staff = IF s \in i.services THEN @ \cup {i.staff}
                                                             ELSE @ \ {i.staff}]]
             edited == [config EXCEPT !.weekly[i.staff] = i.periods, !.policies = policies]
  <2>1. i.staff \in Staff /\ i.periods \in SUBSET Periods
    BY CalendarInputs
  <2>2. policies \in [Services -> Policies]
    <3> SUFFICES ASSUME NEW s \in Services PROVE policies[s] \in Policies
      OBVIOUS
    <3>1. config.policies[s] \in Policies
      BY <1>0 DEF Configs
    <3> QED BY <2>1, <3>1 DEF Policies
  <2>3. edited \in Configs /\ edited.activated = config.activated
    <3> HIDE DEF policies
    <3> QED BY <1>0, <2>1, <2>2 DEF Configs
  <2>4. Mutate(config.version, edited)
    BY <1>3 DEF PutStaffProfile
  <2> HIDE DEF edited
  <2> QED BY <1>0, <2>3, <2>4, MutateTypes
<1>4. ASSUME NEW i \in PolicyInputs, PutServicePolicy(config.version, i.service, i.policy)
      PROVE  ConfigTyped'
  <2> DEFINE edited == [config EXCEPT !.policies[i.service] = i.policy]
  <2>1. edited \in Configs /\ edited.activated = config.activated
    BY <1>0, CalendarInputs DEF Configs
  <2>2. Mutate(config.version, edited)
    BY <1>4 DEF PutServicePolicy
  <2> HIDE DEF edited
  <2> QED BY <1>0, <2>1, <2>2, MutateTypes
<1>5. ASSUME NEW i \in ResourceInputs, PutResource(config.version, i.pool, i.capacity)
      PROVE  ConfigTyped'
  <2> DEFINE edited == [config EXCEPT !.capacity[i.pool] = i.capacity]
  <2>1. edited \in Configs /\ edited.activated = config.activated
    BY <1>0, CalendarInputs DEF Configs
  <2>2. Mutate(config.version, edited)
    BY <1>5 DEF PutResource
  <2> HIDE DEF edited
  <2> QED BY <1>0, <2>1, <2>2, MutateTypes
<1>6. ASSUME NEW p \in Pools, ArchiveResource(config.version, p) PROVE ConfigTyped'
  <2> DEFINE edited == [config EXCEPT !.archived = @ \cup {p}]
  <2>1. edited \in Configs /\ edited.activated = config.activated
    BY <1>0 DEF Configs
  <2>2. Mutate(config.version, edited)
    BY <1>6 DEF ArchiveResource
  <2> HIDE DEF edited
  <2> QED BY <1>0, <2>1, <2>2, MutateTypes
<1>7. ASSUME NEW e \in ExceptionInputs, CreateException(config.version, e) PROVE ConfigTyped'
  <2> DEFINE edited == [config EXCEPT !.exceptions = @ \cup {e}]
  <2>1. edited \in Configs /\ edited.activated = config.activated
    BY <1>0, CalendarInputs DEF Configs
  <2>2. Mutate(config.version, edited)
    BY <1>7 DEF CreateException
  <2> HIDE DEF edited
  <2> QED BY <1>0, <2>1, <2>2, MutateTypes
<1>8. ASSUME NEW e \in config.exceptions, CancelException(config.version, e) PROVE ConfigTyped'
  <2> DEFINE edited == [config EXCEPT !.exceptions = @ \ {e}]
  <2>1. edited \in Configs /\ edited.activated = config.activated
    BY <1>0 DEF Configs
  <2>2. Mutate(config.version, edited)
    BY <1>8 DEF CancelException
  <2> HIDE DEF edited
  <2> QED BY <1>0, <2>1, <2>2, MutateTypes
<1>9. CASE Activate(config.version)
  <2> DEFINE edited == [config EXCEPT !.activated = config.version + 1]
  <2>1. edited \in Configs /\ edited.activated = config.version + 1
    BY <1>0 DEF Configs
  <2>2. Mutate(config.version, edited)
    BY <1>9 DEF Activate
  <2> HIDE DEF edited
  <2> QED BY <1>0, <2>1, <2>2, MutateTypes
<1>10. ASSUME NEW s \in Staff, StaffChanged(s) PROVE ConfigTyped'
  <2>1. config.version + 1 \in Nat
        /\ (IF s \in config.liveStaff THEN config.liveStaff \ {s}
                                      ELSE config.liveStaff \cup {s}) \in SUBSET Staff
    BY <1>0 DEF Configs
  <2>2. config' \in Configs /\ config'.version = config.version + 1
        /\ config'.activated = config.activated
    BY <1>0, <1>10, <2>1 DEF StaffChanged, Configs
  <2> QED BY <1>0, <2>2 DEF ConfigTyped
<1> QED BY <1>1, <1>2, <1>3, <1>4, <1>5, <1>6, <1>7, <1>8, <1>9, <1>10 DEF Configure

LEMMA ConfigureLeaves ==
    ASSUME Configure
    PROVE  UNCHANGED <<authority, mirror, quotes, attempts, appts, segments, now>>
BY DEF Configure, PutConfig, PutHours, PutStaffProfile, PutServicePolicy, PutResource,
   ArchiveResource, CreateException, CancelException, Activate, StaffChanged, Mutate

-----------------------------------------------------------------------------
\* Plans.

\* The segments of a request that is planned from a root start.
LEMMA PlannedTypes ==
    ASSUME ConfigTyped, NEW request \in Seq(RequestSegments), NEW root \in Nat,
           NEW f \in [1 .. Len(request) -> Staff]
    PROVE  /\ PlannedSegments(request, root, f) \in Seq(PlanRows)
           /\ Len(PlannedSegments(request, root, f)) = Len(request)
           /\ \A i \in 1 .. Len(request) :
                  PlannedSegments(request, root, f)[i].service = request[i].service
<1>1. ASSUME NEW i \in 1 .. Len(request) PROVE SegmentStart(request, i, root) \in Int
  <2> DEFINE before == {j \in 1 .. i - 1 : request[j].guest = request[i].guest}
             lengths == [j \in before |-> Duration[request[j].service]]
  <2>1. IsFiniteSet(before)
    <3>1. IsFiniteSet(1 .. i - 1)
      BY FS_Interval
    <3> QED BY <3>1, FS_Subset
  <2>2. lengths \in [before -> Nat]
    <3>1. \A j \in before : request[j] \in RequestSegments
      OBVIOUS
    <3> QED BY <3>1, CalendarConstants DEF RequestSegments
  <2>3. SumFunction(lengths) \in Nat
    BY <2>1, <2>2, SumStep
  <2> QED BY <2>3 DEF SegmentStart
<1>2. ASSUME NEW i \in 1 .. Len(request) PROVE PlannedSegment(request, i, root, f[i]) \in PlanRows
  <2>1. request[i] \in RequestSegments /\ f[i] \in Staff
    OBVIOUS
  <2>2. /\ request[i].service \in Services /\ request[i].guest \in Nat \cup {None}
        /\ Duration[request[i].service] \in Int
    BY <2>1, CalendarConstants DEF RequestSegments
  <2>3. config.policies[request[i].service] \in Policies /\ config.before \in Nat
        /\ config.after \in Nat
    BY <2>2 DEF ConfigTyped, Configs
  <2>4. /\ Buffer(config.policies[request[i].service].before, config.before) \in Int
        /\ Buffer(config.policies[request[i].service].after, config.after) \in Int
        /\ config.policies[request[i].service].units \in [Pools -> Nat]
    <3>1. PICK policy \in Policies : policy = config.policies[request[i].service]
      BY <2>3
    <3>2. policy.before \in Minutes /\ policy.after \in Minutes /\ policy.units \in [Pools -> Nat]
      BY DEF Policies
    <3>3. \A x \in Minutes, y \in Nat : Buffer(x, y) \in Int
      BY DEF Minutes, Buffer
    <3> QED BY <2>3, <3>1, <3>2, <3>3
  <2> HIDE DEF PlannedSegments
  <2>5. PICK row : row = PlannedSegment(request, i, root, f[i])
    OBVIOUS
  <2>6. row = [service |-> row.service, guest |-> row.guest, staff |-> row.staff,
               start |-> row.start, end |-> row.end, from |-> row.from, to |-> row.to,
               units |-> row.units]
    BY <2>5 DEF PlannedSegment
  <2>7. row.service \in Services /\ row.guest \in Nat \cup {None} /\ row.staff \in Staff
        /\ row.units \in [Pools -> Nat]
    BY <2>1, <2>2, <2>4, <2>5 DEF PlannedSegment
  <2>8. row.start \in Int /\ row.end \in Int
    BY <1>1, <2>2, <2>5 DEF PlannedSegment
  <2>9. row.from \in Int /\ row.to \in Int
    BY <1>1, <2>2, <2>4, <2>5 DEF PlannedSegment
  <2> QED BY <2>5, <2>6, <2>7, <2>8, <2>9 DEF PlanRows
<1> QED BY <1>2 DEF PlannedSegments, PlannedSegment

\* A planned start has a plan that is valid, and the planner returns it.
LEMMA PlanIsValid ==
    ASSUME ConfigTyped, NEW request \in Seq(RequestSegments), NEW excluded, now \in Nat,
           NEW root \in PlannedStarts(request, excluded)
    PROVE  LET plan == AssignAggregateSegments(request, root, excluded)
           IN  /\ root \in 0 .. Day
               /\ plan \in Seq(PlanRows) /\ Len(plan) = Len(request)
               /\ \A i \in 1 .. Len(request) : plan[i].service = request[i].service
               /\ ValidPlan(plan, excluded)
               /\ ~ UnresolvedExternalConflict
<1>1. root \in 0 .. Day - 1 /\ Assignments(request, root, excluded) # {}
      /\ ~ UnresolvedExternalConflict
  BY DEF PlannedStarts, PlannerReady
<1>2. Assignments(request, root, excluded) \in SUBSET [1 .. Len(request) -> Staff]
      /\ Len(request) \in Nat
  BY DEF Assignments
<1>3. PICK f \in [1 .. Len(request) -> Staff] :
          /\ f = First(Assignments(request, root, excluded))
          /\ f \in Assignments(request, root, excluded)
  BY <1>1, <1>2, FirstIsOne
<1>4. ValidPlan(PlannedSegments(request, root, f), excluded)
  BY <1>3 DEF Assignments
<1>5. root \in Nat /\ root \in 0 .. Day
  BY <1>1, CalendarConstants
<1> QED BY <1>1, <1>3, <1>4, <1>5, PlannedTypes DEF AssignAggregateSegments

-----------------------------------------------------------------------------
\* Rows.

LEMMA QuoteIsRow ==
    ASSUME RowsTyped, NEW q \in Quotes, quotes[q] # None
    PROVE  quotes[q] \in QuoteRows
BY DEF RowsTyped

LEMMA NewQuoteType ==
    ASSUME ConfigTyped, RowsTyped, NEW request \in Requests, NormalizedRequest(request),
           NEW op \in {"book", "reschedule"}, NEW excluded \in Appts \cup {None},
           NEW tversion \in Nat, NEW aversion \in Nat
    PROVE  NewQuote(request, op, excluded, tversion, aversion,
                    PlanAggregateAvailability(request, excluded)) \in QuoteRows
<1> DEFINE roots == PlannedStarts(request, excluded)
           slots == PlanAggregateAvailability(request, excluded)
<1>1. request \in Seq(RequestSegments) /\ request # <<>>
  BY CalendarInputs DEF NormalizedRequest
<1>2. now \in Nat /\ now + QuoteTTL \in Nat /\ config.version \in Nat
  BY CalendarConstants DEF RowsTyped, ConfigTyped, Configs
<1>3. \A root \in roots : root \in 0 .. Day
      /\ AssignAggregateSegments(request, root, excluded) \in Seq(PlanRows)
  BY <1>1, <1>2, PlanIsValid
<1>4. slots \in [roots -> Seq(PlanRows)] /\ roots \in SUBSET (0 .. Day)
  BY <1>3 DEF PlanAggregateAvailability, roots
<1>5. slots \in UNION {[rs -> Seq(PlanRows)] : rs \in SUBSET (0 .. Day)}
  BY <1>4
<1> HIDE DEF slots
<1>6. None \in Keys \cup {None}
  OBVIOUS
<1> QED BY <1>1, <1>2, <1>5, <1>6 DEF NewQuote, QuoteRows, slots

LEMMA ConsumedType ==
    ASSUME RowsTyped, NEW q \in Quotes, quotes[q] # None, NEW k \in Keys
    PROVE  /\ Consumed(q, k) \in [Quotes -> QuoteRows \cup {None}]
           /\ Consumed(q, k)[q] \in QuoteRows /\ Consumed(q, k)[q].usedBy = k
           /\ \A p \in Quotes \ {q} : Consumed(q, k)[p] = quotes[p]
<1>1. quotes[q] \in QuoteRows
  BY QuoteIsRow
<1>2. [quotes[q] EXCEPT !.usedBy = k] \in QuoteRows /\ [quotes[q] EXCEPT !.usedBy = k].usedBy = k
  BY <1>1 DEF QuoteRows
<1> HIDE DEF QuoteRows
<1> QED BY <1>2 DEF Consumed, RowsTyped

LEMMA ReleasedType ==
    ASSUME RowsTyped, NEW a \in Appts
    PROVE  /\ Released(a) \subseteq SegmentRows /\ IsFiniteSet(Released(a))
           /\ {s \in Released(a) : ~ s.released} = {s \in LiveSegments : s.appt # a}
           /\ \A s \in Released(a) : \E t \in segments : s.segment = t.segment
<1> DEFINE Release(s) == [s EXCEPT !.released = TRUE]
<1>1. ASSUME NEW s \in segments
      PROVE  /\ Release(s) \in SegmentRows /\ Release(s).released
             /\ Release(s).segment = s.segment
  BY <1>1 DEF RowsTyped, SegmentRows
<1>2. Released(a) = {IF s.appt = a THEN Release(s) ELSE s : s \in segments}
  BY DEF Released
<1>3. segments \subseteq SegmentRows
  BY DEF RowsTyped
<1>4. IsFiniteSet(Released(a))
  <2> DEFINE f == [s \in segments |-> IF s.appt = a THEN Release(s) ELSE s]
  <2>1. f \in Surjection(segments, Released(a))
    BY <1>2 DEF Surjection
  <2> HIDE DEF f
  <2> QED BY <2>1, FS_Surjection DEF RowsTyped
<1> HIDE DEF Release, SegmentRows
<1> QED BY <1>1, <1>2, <1>3, <1>4 DEF LiveSegments

LEMMA AppointmentPlanType ==
    ASSUME NEW a \in Appts, NEW v \in Nat, NEW plan \in Seq(PlanRows)
    PROVE  /\ AppointmentPlan(a, v, plan) \subseteq SegmentRows
           /\ IsFiniteSet(AppointmentPlan(a, v, plan))
           /\ \A s \in AppointmentPlan(a, v, plan) : ~ s.released
<1>1. ASSUME NEW i \in DOMAIN plan
      PROVE  [appt |-> a, version |-> v, order |-> i, segment |-> plan[i], released |-> FALSE]
                 \in SegmentRows
  BY <1>1 DEF SegmentRows
<1>2. IsFiniteSet(AppointmentPlan(a, v, plan))
  <2> DEFINE Row(i) == [appt |-> a, version |-> v, order |-> i, segment |-> plan[i],
                        released |-> FALSE]
             f == [i \in DOMAIN plan |-> Row(i)]
  <2>1. AppointmentPlan(a, v, plan) = {Row(i) : i \in DOMAIN plan}
    BY DEF AppointmentPlan
  <2>2. f \in Surjection(DOMAIN plan, AppointmentPlan(a, v, plan))
    BY <2>1 DEF Surjection
  <2>3. IsFiniteSet(DOMAIN plan)
    BY FS_Interval
  <2> HIDE DEF f
  <2> QED BY <2>2, <2>3, FS_Surjection
<1> HIDE DEF SegmentRows
<1> QED BY <1>1, <1>2 DEF AppointmentPlan

(* What a booking or a reschedule comes down to: the appointment's old     *)
(* plan is released and a plan that is valid now takes its place.          *)
Books(a, v, plan, excluded) ==
    /\ plan \in Seq(PlanRows) /\ plan # <<>> /\ ValidPlan(plan, excluded)
    /\ ~ UnresolvedExternalConflict
    /\ excluded = a \/ (excluded = None /\ \A s \in LiveSegments : s.appt # a)
    /\ v \in Nat
    /\ segments' \subseteq SegmentRows /\ IsFiniteSet(segments')
    /\ \A s \in segments' : \/ s \in AppointmentPlan(a, v, plan)
                            \/ \E t \in segments : s.segment = t.segment
    /\ LiveSegments' = {s \in LiveSegments : s.appt # a} \cup AppointmentPlan(a, v, plan)
    /\ appts' \in [Appts -> AppointmentRows]
    /\ appts'[a].status \in Active /\ appts'[a].version = v
    /\ Len(appts'[a].shape) = Len(plan)
    /\ \A i \in DOMAIN plan : plan[i].service = appts'[a].shape[i].service
    /\ \A b \in Appts \ {a} : appts'[b] = appts[b]

LEMMA CreateBooks ==
    ASSUME CalendarInv, NEW k \in Keys, NEW q \in Quotes, NEW root \in 0 .. Day, NEW a \in Appts,
           CreateAppointment(k, q, root, a)
    PROVE  Books(a, 1, quotes[q].slots[root], None)
<1> DEFINE plan == quotes[q].slots[root]
           request == quotes[q].request
<1>1. quotes[q] \in QuoteRows
  BY QuoteIsRow DEF CreateAppointment, QuoteUsable, CalendarInv
<1>2. request \in Seq(RequestSegments) /\ request # <<>> /\ quotes[q].aversion \in Nat
      /\ quotes[q].cversion \in Nat
  BY <1>1 DEF QuoteRows
<1>3. root \in PlannedStarts(request, None)
      /\ plan = AssignAggregateSegments(request, root, None)
  BY DEF CreateAppointment, ExactAggregatePlan
<1>4. /\ plan \in Seq(PlanRows) /\ Len(plan) = Len(request)
      /\ \A i \in 1 .. Len(request) : plan[i].service = request[i].service
      /\ ValidPlan(plan, None) /\ ~ UnresolvedExternalConflict
  <2> HIDE DEF plan, request
  <2> QED BY <1>2, <1>3, PlanIsValid DEF CalendarInv, RowsTyped
<1>5. plan # <<>> /\ plan[1] \in PlanRows
  BY <1>2, <1>4
<1>6. /\ appts' = [appts EXCEPT ![a] = ConfirmedAppointment(q, plan)]
      /\ segments' = segments \cup AppointmentPlan(a, 1, plan)
      /\ appts[a].status = "none"
  BY DEF CreateAppointment, NewAppointment, FirstOf
<1>7. ConfirmedAppointment(q, plan) \in AppointmentRows
  BY <1>2, <1>5 DEF RootStart, PlanRows, ConfirmedAppointment, AppointmentRows, Active
<1>8. ConfirmedAppointment(q, plan).status \in Active
      /\ ConfirmedAppointment(q, plan).version = 1
      /\ ConfirmedAppointment(q, plan).shape = request
  BY DEF ConfirmedAppointment, Active
<1>9. appts' \in [Appts -> AppointmentRows] /\ appts'[a] = ConfirmedAppointment(q, plan)
      /\ \A b \in Appts \ {a} : appts'[b] = appts[b]
  BY <1>6, <1>7 DEF CalendarInv, RowsTyped
<1>10. \A s \in LiveSegments : s.appt # a
  BY <1>6 DEF Active, CalendarInv, PlanIsCurrent
<1>11. /\ AppointmentPlan(a, 1, plan) \subseteq SegmentRows
       /\ IsFiniteSet(AppointmentPlan(a, 1, plan))
       /\ \A s \in AppointmentPlan(a, 1, plan) : ~ s.released
  BY <1>4, AppointmentPlanType
<1>12. LiveSegments' = {s \in LiveSegments : s.appt # a} \cup AppointmentPlan(a, 1, plan)
  BY <1>6, <1>10, <1>11 DEF LiveSegments
<1>13. segments' \subseteq SegmentRows /\ IsFiniteSet(segments')
  BY <1>6, <1>11, FS_Union DEF CalendarInv, RowsTyped
<1>14. DOMAIN plan = 1 .. Len(request)
  BY <1>2, <1>4
<1>15. \A s \in segments' : \/ s \in AppointmentPlan(a, 1, plan)
                            \/ \E t \in segments : s.segment = t.segment
  BY <1>6
<1>16. /\ appts'[a].status \in Active /\ appts'[a].version = 1
       /\ Len(appts'[a].shape) = Len(plan)
       /\ \A i \in DOMAIN plan : plan[i].service = appts'[a].shape[i].service
  BY <1>4, <1>8, <1>9, <1>14
<1> HIDE DEF plan, request
<1>17. Books(a, 1, plan, None)
  BY <1>4, <1>5, <1>9, <1>10, <1>12, <1>13, <1>15, <1>16 DEF Books
<1> QED BY <1>17 DEF plan

LEMMA RescheduleBooks ==
    ASSUME CalendarInv, NEW k \in Keys, NEW q \in Quotes, NEW root \in 0 .. Day, NEW a \in Appts,
           RescheduleAppointment(k, q, root, a, appts[a].version)
    PROVE  Books(a, appts[a].version + 1, quotes[q].slots[root], a)
<1> DEFINE plan == quotes[q].slots[root]
           request == quotes[q].request
           v == appts[a].version + 1
           moved == [appts[a] EXCEPT !.status = "rescheduled", !.version = v,
                                     !.start = RootStart(plan), !.cversion = quotes[q].cversion]
<1>1. quotes[q] \in QuoteRows
  BY QuoteIsRow DEF RescheduleAppointment, QuoteUsable, CalendarInv
<1>2. request \in Seq(RequestSegments) /\ request # <<>> /\ quotes[q].cversion \in Nat
  BY <1>1 DEF QuoteRows
<1>3. root \in PlannedStarts(request, a)
      /\ plan = AssignAggregateSegments(request, root, a)
  BY DEF RescheduleAppointment, ExactAggregatePlan
<1>4. /\ plan \in Seq(PlanRows) /\ Len(plan) = Len(request)
      /\ \A i \in 1 .. Len(request) : plan[i].service = request[i].service
      /\ ValidPlan(plan, a) /\ ~ UnresolvedExternalConflict
  BY <1>2, <1>3, PlanIsValid DEF CalendarInv, RowsTyped
<1>5. plan # <<>> /\ plan[1] \in PlanRows
  BY <1>2, <1>4
<1>6. /\ appts' = [appts EXCEPT ![a] = moved]
      /\ segments' = Released(a) \cup AppointmentPlan(a, v, plan)
      /\ ReplacementPreservesTargetShape(request, a)
  BY DEF RescheduleAppointment
<1>7. appts[a] \in AppointmentRows /\ v \in Nat
  BY DEF CalendarInv, RowsTyped, AppointmentRows
<1>8. /\ moved \in AppointmentRows /\ moved.status \in Active /\ moved.version = v
      /\ moved.shape = appts[a].shape
  BY <1>2, <1>5, <1>7 DEF RootStart, PlanRows, AppointmentRows, Active
<1>9. appts' \in [Appts -> AppointmentRows] /\ appts'[a] = moved
      /\ \A b \in Appts \ {a} : appts'[b] = appts[b]
  BY <1>6, <1>8 DEF CalendarInv, RowsTyped
<1>10. /\ AppointmentPlan(a, v, plan) \subseteq SegmentRows
       /\ IsFiniteSet(AppointmentPlan(a, v, plan))
       /\ \A s \in AppointmentPlan(a, v, plan) : ~ s.released
  BY <1>4, <1>7, AppointmentPlanType
<1>11. /\ Released(a) \subseteq SegmentRows /\ IsFiniteSet(Released(a))
       /\ {s \in Released(a) : ~ s.released} = {s \in LiveSegments : s.appt # a}
       /\ \A s \in Released(a) : \E t \in segments : s.segment = t.segment
  BY ReleasedType DEF CalendarInv
<1>12. LiveSegments' = {s \in LiveSegments : s.appt # a} \cup AppointmentPlan(a, v, plan)
  BY <1>6, <1>10, <1>11 DEF LiveSegments
<1>13. segments' \subseteq SegmentRows /\ IsFiniteSet(segments')
  BY <1>6, <1>10, <1>11, FS_Union
<1>14. DOMAIN plan = 1 .. Len(request)
  BY <1>2, <1>4
<1>15. \A s \in segments' : \/ s \in AppointmentPlan(a, v, plan)
                            \/ \E t \in segments : s.segment = t.segment
  BY <1>6, <1>11
<1>16. /\ appts'[a].status \in Active /\ appts'[a].version = v
       /\ Len(appts'[a].shape) = Len(plan)
       /\ \A i \in DOMAIN plan : plan[i].service = appts'[a].shape[i].service
  BY <1>4, <1>6, <1>8, <1>9, <1>14 DEF ReplacementPreservesTargetShape
<1> HIDE DEF plan, request, v
<1>17. Books(a, v, plan, a)
  BY <1>4, <1>5, <1>7, <1>9, <1>12, <1>13, <1>15, <1>16 DEF Books
<1> QED BY <1>17 DEF plan, v

-----------------------------------------------------------------------------
\* Steps.

(* The live segments of the other appointments are what the planner was    *)
(* told is occupied.                                                       *)
LEMMA KeptAreOccupied ==
    ASSUME CalendarInv, NEW a \in Appts, NEW v, NEW plan, NEW excluded,
           Books(a, v, plan, excluded)
    PROVE  OccupiedSegments(excluded) = {s \in LiveSegments : s.appt # a}
<1>1. excluded = a \/ (excluded = None /\ \A s \in LiveSegments : s.appt # a)
  BY DEF Books
<1>2. \A s \in LiveSegments : s.appt \in Appts /\ appts[s.appt].status \in Active
  <2> SUFFICES ASSUME NEW s \in LiveSegments
               PROVE  s.appt \in Appts /\ appts[s.appt].status \in Active
    OBVIOUS
  <2>1. s.appt \in Appts
    BY DEF CalendarInv, RowsTyped, LiveSegments, SegmentRows
  <2> QED BY <2>1 DEF CalendarInv, PlanIsCurrent
<1>3. None \notin Appts
  BY CalendarConstants
<1> QED BY <1>1, <1>2, <1>3 DEF OccupiedSegments, LiveSegments

LEMMA BooksInTheDay ==
    ASSUME CalendarInv, NEW a \in Appts, NEW v, NEW plan, NEW excluded,
           Books(a, v, plan, excluded)
    PROVE  InTheDay'
<1>1. ASSUME NEW s \in AppointmentPlan(a, v, plan)
      PROVE  0 <= s.segment.from /\ s.segment.to <= Day
  <2>1. PICK i \in DOMAIN plan : s.segment = plan[i]
    BY <1>1 DEF AppointmentPlan
  <2>2. plan[i] \in PlanRows /\ plan[i].from >= 0 /\ plan[i].to <= Day
    BY DEF Books, ValidPlan
  <2>3. plan[i].from \in Int
    BY <2>2 DEF PlanRows
  <2> QED BY <2>1, <2>2, <2>3
<1>2. \A s \in segments' : \/ s \in AppointmentPlan(a, v, plan)
                           \/ \E t \in segments : s.segment = t.segment
  BY DEF Books
<1> QED BY <1>1, <1>2 DEF InTheDay, CalendarInv

LEMMA BooksNoOverlap ==
    ASSUME CalendarInv, NEW a \in Appts, NEW v, NEW plan, NEW excluded,
           Books(a, v, plan, excluded)
    PROVE  NoStaffOverlap'
<1> DEFINE Kept == {s \in LiveSegments : s.appt # a}
           New == AppointmentPlan(a, v, plan)
<1>1. LiveSegments' = Kept \cup New
  BY DEF Books
<1>2. ASSUME NEW s \in Kept, NEW t \in New, s.segment.staff = t.segment.staff
      PROVE  ~ RangesOverlap(s.segment, t.segment)
  <2>1. PICK i \in DOMAIN plan : t.segment = plan[i]
    BY DEF AppointmentPlan
  <2>2. s \in OccupiedSegments(excluded)
    BY KeptAreOccupied
  <2> DEFINE c == [staff |-> s.segment.staff, from |-> s.segment.from, to |-> s.segment.to]
  <2>3. c \in StaffConflicts(excluded)
    BY <2>2 DEF StaffConflicts
  <2>4. ~ HasStaffConflict(StaffConflicts(excluded), plan[i])
    BY DEF Books, ValidPlan
  <2>5. ~ (c.staff = plan[i].staff /\ RangesOverlap(c, plan[i]))
    BY <2>3, <2>4 DEF HasStaffConflict
  <2> QED BY <1>2, <2>1, <2>5 DEF RangesOverlap
<1>3. ASSUME NEW s \in New, NEW t \in New, s # t, s.segment.staff = t.segment.staff
      PROVE  ~ RangesOverlap(s.segment, t.segment)
  <2>1. PICK i \in DOMAIN plan :
            s = [appt |-> a, version |-> v, order |-> i, segment |-> plan[i], released |-> FALSE]
    BY DEF AppointmentPlan
  <2>2. PICK j \in DOMAIN plan :
            t = [appt |-> a, version |-> v, order |-> j, segment |-> plan[j], released |-> FALSE]
    BY DEF AppointmentPlan
  <2>3. i # j /\ i \in Int /\ j \in Int
    <3>1. DOMAIN plan = 1 .. Len(plan) /\ Len(plan) \in Nat
      BY DEF Books
    <3>2. i \in Int /\ j \in Int
      BY <3>1
    <3>3. i = j => s = t
      BY <2>1, <2>2
    <3> QED BY <1>3, <3>2, <3>3
  <2>4. i < j \/ j < i
    BY <2>3
  <2>5. ~ HasPlannedStaffConflict(plan)
    BY DEF Books, ValidPlan
  <2>6. plan[i].staff = plan[j].staff
    BY <1>3, <2>1, <2>2
  <2>7. ~ RangesOverlap(plan[i], plan[j])
    BY <2>4, <2>5, <2>6 DEF HasPlannedStaffConflict, RangesOverlap
  <2> QED BY <2>1, <2>2, <2>7
<1>4. \A s, t \in Kept : s # t /\ s.segment.staff = t.segment.staff =>
          ~ RangesOverlap(s.segment, t.segment)
  BY DEF CalendarInv, NoStaffOverlap
<1>5. \A r, u : RangesOverlap(r, u) => RangesOverlap(u, r)
  BY DEF RangesOverlap
<1> HIDE DEF Kept, New
<1>6. ASSUME NEW s \in Kept \cup New, NEW t \in Kept \cup New,
             s # t, s.segment.staff = t.segment.staff
      PROVE  ~ RangesOverlap(s.segment, t.segment)
  BY <1>2, <1>3, <1>4, <1>5, <1>6
<1> QED BY <1>1, <1>6 DEF NoStaffOverlap, RangesOverlap

LEMMA BooksCurrent ==
    ASSUME CalendarInv, NEW a \in Appts, NEW v, NEW plan, NEW excluded,
           Books(a, v, plan, excluded)
    PROVE  PlanIsCurrent' /\ NoneIsBlank'
<1> DEFINE Live(b) == {s \in LiveSegments : s.appt = b}
           New == AppointmentPlan(a, v, plan)
           Row(i) == [appt |-> a, version |-> v, order |-> i, segment |-> plan[i],
                      released |-> FALSE]
           Current(b, live) ==
               IF appts'[b].status \in Active
               THEN /\ {s.order : s \in live} = DOMAIN appts'[b].shape
                    /\ Cardinality(live) = Len(appts'[b].shape)
                    /\ \A s \in live :
                           /\ s.version = appts'[b].version
                           /\ s.segment.service = appts'[b].shape[s.order].service
               ELSE live = {}
<1>1. /\ LiveSegments' = {s \in LiveSegments : s.appt # a} \cup New
      /\ plan \in Seq(PlanRows) /\ appts' \in [Appts -> AppointmentRows]
      /\ appts'[a].status \in Active /\ appts'[a].version = v
      /\ Len(appts'[a].shape) = Len(plan)
      /\ \A i \in DOMAIN plan : plan[i].service = appts'[a].shape[i].service
      /\ \A b \in Appts \ {a} : appts'[b] = appts[b]
  BY DEF Books
<1>2. New = {Row(i) : i \in DOMAIN plan}
  BY DEF AppointmentPlan
<1>3. Live(a)' = New
  BY <1>1, <1>2
<1>4. DOMAIN plan = 1 .. Len(plan) /\ Len(plan) \in Nat
  BY <1>1
<1>5. DOMAIN appts'[a].shape = DOMAIN plan
  BY <1>1, <1>4 DEF AppointmentRows
<1>6. {s.order : s \in New} = DOMAIN plan
  <2>1. \A i \in DOMAIN plan : Row(i) \in New /\ Row(i).order = i
    BY <1>2
  <2>2. \A s \in New : s.order \in DOMAIN plan
    BY <1>2
  <2> HIDE DEF New, Row
  <2> QED BY <2>1, <2>2
<1>7. Cardinality(New) = Len(plan)
  <2> DEFINE f == [i \in 1 .. Len(plan) |-> Row(i)]
  <2>1. f \in Bijection(1 .. Len(plan), New)
    BY <1>2, <1>4 DEF Bijection, Injection, Surjection, IsInjective
  <2>2. IsFiniteSet(1 .. Len(plan)) /\ Cardinality(1 .. Len(plan)) = Len(plan)
    <3> HIDE DEF f, New, Row
    <3>1. 1 \in Int /\ Len(plan) \in Int
      BY <1>4
    <3>2. /\ IsFiniteSet(1 .. Len(plan))
          /\ Cardinality(1 .. Len(plan)) = IF 1 > Len(plan) THEN 0 ELSE Len(plan) - 1 + 1
      BY <3>1, FS_Interval
    <3> QED BY <1>4, <3>2
  <2> HIDE DEF f, New
  <2> QED BY <2>1, <2>2, FS_Bijection DEF ExistsBijection
<1>8. Current(a, Live(a)')
  <2>1. \A s \in New : s.version = v /\ s.segment.service = plan[s.order].service
                       /\ s.order \in DOMAIN plan
    BY <1>2
  <2> HIDE DEF New, Row
  <2> QED BY <1>1, <1>3, <1>5, <1>6, <1>7, <2>1
<1>9. ASSUME NEW b \in Appts, b # a PROVE Current(b, Live(b)')
  <2>1. Live(b)' = Live(b)
    BY <1>1, <1>2, <1>9
  <2>2. appts'[b] = appts[b]
    BY <1>1, <1>9
  <2> HIDE DEF New
  <2>3. IF appts[b].status \in Active
        THEN /\ {s.order : s \in Live(b)} = DOMAIN appts[b].shape
             /\ Cardinality(Live(b)) = Len(appts[b].shape)
             /\ \A s \in Live(b) : /\ s.version = appts[b].version
                                   /\ s.segment.service = appts[b].shape[s.order].service
        ELSE Live(b) = {}
    BY Zenon DEF CalendarInv, PlanIsCurrent
  <2> HIDE DEF Live
  <2> QED BY <2>1, <2>2, <2>3
<1>10. PlanIsCurrent'
  BY <1>8, <1>9 DEF PlanIsCurrent
<1>11. NoneIsBlank'
  BY <1>1 DEF Active, NoneIsBlank, CalendarInv
<1> QED BY <1>10, <1>11

LEMMA CancelKeeps ==
    ASSUME CalendarInv, NEW k \in Keys, NEW a \in Appts,
           CancelAppointment(k, a, appts[a].version)
    PROVE  /\ LiveSegments' = {s \in LiveSegments : s.appt # a}
           /\ segments' \subseteq SegmentRows /\ IsFiniteSet(segments')
           /\ appts' \in [Appts -> AppointmentRows]
           /\ appts'[a].status = "cancelled" /\ appts'[a].version = appts[a].version + 1
           /\ \A b \in Appts \ {a} : appts'[b] = appts[b]
           /\ InTheDay' /\ NoneIsBlank' /\ NoStaffOverlap' /\ PlanIsCurrent'
<1> DEFINE gone == [appts[a] EXCEPT !.status = "cancelled", !.version = appts[a].version + 1]
<1>1. appts' = [appts EXCEPT ![a] = gone] /\ segments' = Released(a)
  BY DEF CancelAppointment, CalendarInv, RowsTyped
<1>2. appts[a] \in AppointmentRows /\ appts[a].version + 1 \in Nat
  BY DEF CalendarInv, RowsTyped, AppointmentRows
<1>3. gone \in AppointmentRows /\ gone.status = "cancelled"
      /\ gone.version = appts[a].version + 1
  BY <1>2 DEF AppointmentRows
<1>4. appts' \in [Appts -> AppointmentRows] /\ appts'[a] = gone
      /\ \A b \in Appts \ {a} : appts'[b] = appts[b]
  BY <1>1, <1>3 DEF CalendarInv, RowsTyped
<1>5. /\ Released(a) \subseteq SegmentRows /\ IsFiniteSet(Released(a))
      /\ {s \in Released(a) : ~ s.released} = {s \in LiveSegments : s.appt # a}
      /\ \A s \in Released(a) : \E t \in segments : s.segment = t.segment
  BY ReleasedType DEF CalendarInv
<1>6. LiveSegments' = {s \in LiveSegments : s.appt # a}
  BY <1>1, <1>5 DEF LiveSegments
<1>7. InTheDay'
  BY <1>1, <1>5 DEF InTheDay, CalendarInv
<1> HIDE DEF gone
<1>8. "cancelled" \notin Active /\ "cancelled" # "none"
  BY DEF Active
<1>9. NoneIsBlank'
  BY <1>3, <1>4, <1>8 DEF NoneIsBlank, CalendarInv
<1>10. NoStaffOverlap'
  BY <1>6 DEF NoStaffOverlap, CalendarInv, RangesOverlap
<1>11. PlanIsCurrent'
  <2> DEFINE Live(b) == {s \in LiveSegments : s.appt = b}
             Current(b, live) ==
                 IF appts'[b].status \in Active
                 THEN /\ {s.order : s \in live} = DOMAIN appts'[b].shape
                      /\ Cardinality(live) = Len(appts'[b].shape)
                      /\ \A s \in live :
                             /\ s.version = appts'[b].version
                             /\ s.segment.service = appts'[b].shape[s.order].service
                 ELSE live = {}
  <2>1. Live(a)' = {} /\ ~ (appts'[a].status \in Active)
    BY <1>3, <1>4, <1>6, <1>8
  <2>2. ASSUME NEW b \in Appts, b # a PROVE Current(b, Live(b)')
    <3>1. Live(b)' = Live(b) /\ appts'[b] = appts[b]
      BY <1>4, <1>6, <2>2
    <3> QED BY <3>1 DEF CalendarInv, PlanIsCurrent
  <2>3. \A b \in Appts : Current(b, Live(b)')
    BY <2>1, <2>2
  <2> QED BY <2>3 DEF PlanIsCurrent
<1> QED BY <1>3, <1>4, <1>1, <1>5, <1>6, <1>7, <1>9, <1>10, <1>11

(* An operation that advances its appointment by one version is counted    *)
(* once, and a quote it consumes is its own.                               *)
LEMMA OneMoreOperation ==
    ASSUME CalendarInv, NEW k \in Keys, attempts[k] = None,
           NEW row \in AttemptRows, attempts' = [attempts EXCEPT ![k] = row],
           row.version = appts[row.appt].version + 1,
           appts'[row.appt].version = row.version,
           \A b \in Appts \ {row.appt} : appts'[b] = appts[b],
           \/ row.quote = None /\ quotes' = quotes
           \/ /\ row.quote \in Quotes /\ quotes[row.quote] # None
              /\ quotes[row.quote].usedBy = None
              /\ quotes' = Consumed(row.quote, k)
    PROVE  OperationsCountOnce'
<1> DEFINE Mine(b) == {j \in Keys : attempts[j] # None /\ attempts[j].appt = b}
           a == row.appt
<1>1. a \in Appts /\ row # None
  BY CalendarRows DEF AttemptRows
<1>2. /\ attempts'[k] = row /\ \A j \in Keys \ {k} : attempts'[j] = attempts[j]
      /\ attempts \in [Keys -> AttemptRows \cup {None}]
  BY DEF CalendarInv, RowsTyped
<1>3. ASSUME NEW b \in Appts
      PROVE  /\ appts'[b].version = Cardinality(Mine(b)')
             /\ {attempts'[j].version : j \in Mine(b)'} = 1 .. appts'[b].version
  <2>1. /\ appts[b].version = Cardinality(Mine(b))
        /\ {attempts[j].version : j \in Mine(b)} = 1 .. appts[b].version
    BY DEF CalendarInv, OperationsCountOnce
  <2>2. CASE b # a
    <3>1. Mine(b)' = Mine(b)
      BY <1>2, <2>2
    <3>2. {attempts'[j].version : j \in Mine(b)} = {attempts[j].version : j \in Mine(b)}
      BY <1>2
    <3> HIDE DEF Mine
    <3> QED BY <2>1, <2>2, <3>1, <3>2
  <2>3. CASE b = a
    <3>1. Mine(b)' = Mine(b) \cup {k} /\ k \notin Mine(b)
      BY <1>1, <1>2, <2>3
    <3>2. IsFiniteSet(Mine(b))
      BY CalendarRows, FS_Subset
    <3>3. Cardinality(Mine(b)') = Cardinality(Mine(b)) + 1
      <4> HIDE DEF Mine
      <4> QED BY <3>1, <3>2, FS_AddElement
    <3>4. appts[b].version \in Nat
      BY DEF CalendarInv, RowsTyped, AppointmentRows
    <3>5. {attempts'[j].version : j \in Mine(b)'} =
              {attempts[j].version : j \in Mine(b)} \cup {row.version}
      BY <1>2, <3>1
    <3> HIDE DEF Mine
    <3> QED BY <2>1, <2>3, <3>3, <3>4, <3>5
  <2> QED BY <2>2, <2>3
<1>4. ASSUME NEW j \in Keys, attempts'[j] # None, attempts'[j].quote # None
      PROVE  quotes'[attempts'[j].quote] # None /\ quotes'[attempts'[j].quote].usedBy = j
  BY <1>2, <1>4, ConsumedType, CalendarRows, CalendarConstants DEF CalendarInv,
     OperationsCountOnce, AttemptRows
<1>5. \A b \in Appts :
          /\ appts'[b].version = Cardinality(Mine(b)')
          /\ {attempts'[j].version : j \in Mine(b)'} = 1 .. appts'[b].version
  BY <1>3
<1> QED BY <1>4, <1>5 DEF OperationsCountOnce

LEMMA CalendarInvInit == Init => CalendarInv
<1> SUFFICES ASSUME Init PROVE CalendarInv
  OBVIOUS
<1>1. ConfigTyped
  BY CalendarInputs DEF Init, ConfigTyped
<1>2. NoAppointment \in AppointmentRows
  BY DEF NoAppointment, AppointmentRows
<1>3. RowsTyped
  BY <1>2, FS_EmptySet DEF Init, RowsTyped, Authorities
<1>4. InTheDay /\ NoneIsBlank /\ NoStaffOverlap
  BY DEF Init, InTheDay, NoneIsBlank, NoAppointment, NoStaffOverlap, LiveSegments
<1>5. PlanIsCurrent
  BY DEF Init, PlanIsCurrent, LiveSegments, NoAppointment, Active
<1>6. OperationsCountOnce
  <2>1. \A a \in Appts : {k \in Keys : attempts[k] # None /\ attempts[k].appt = a} = {}
    BY DEF Init
  <2>2. \A a \in Appts : appts[a].version = 0
    BY DEF Init, NoAppointment
  <2>3. Cardinality({}) = 0 /\ 1 .. 0 = {}
    BY FS_EmptySet
  <2>4. \A k \in Keys : attempts[k] = None
    BY DEF Init
  <2> QED BY <2>1, <2>2, <2>3, <2>4 DEF OperationsCountOnce
<1> QED BY <1>1, <1>3, <1>4, <1>5, <1>6 DEF CalendarInv

\* Quotes that no operation has consumed come and go.
LEMMA QuotedStep ==
    ASSUME CalendarInv, quotes' \in [Quotes -> QuoteRows \cup {None}],
           \A p \in Quotes : quotes[p] # None /\ quotes[p].usedBy # None => quotes'[p] = quotes[p],
           UNCHANGED <<config, authority, mirror, attempts, appts, segments, now>>
    PROVE  CalendarInv'
<1>1. ConfigTyped' /\ RowsTyped' /\ InTheDay' /\ NoneIsBlank'
  BY DEF CalendarInv, ConfigTyped, RowsTyped, InTheDay, NoneIsBlank
<1>2. PlanIsCurrent' /\ NoStaffOverlap'
  BY DEF CalendarInv, PlanIsCurrent, NoStaffOverlap, LiveSegments, RangesOverlap
<1>3. OperationsCountOnce'
  <2>1. ASSUME NEW j \in Keys, attempts[j] # None, attempts[j].quote # None
        PROVE  quotes'[attempts[j].quote] # None /\ quotes'[attempts[j].quote].usedBy = j
    BY <2>1, CalendarConstants DEF CalendarInv, OperationsCountOnce, RowsTyped, AttemptRows
  <2> QED BY <2>1 DEF CalendarInv, OperationsCountOnce
<1> QED BY <1>1, <1>2, <1>3 DEF CalendarInv

(* The configuration, the authority, the mirror and the clock are not what *)
(* the rows are about.                                                     *)
LEMMA SurroundingStep ==
    ASSUME CalendarInv, ConfigTyped', authority' \in [name : Authorities, version : Nat],
           mirror' \subseteq ExtBusy, now' \in Nat,
           UNCHANGED <<quotes, attempts, appts, segments>>
    PROVE  CalendarInv'
<1>1. RowsTyped' /\ InTheDay' /\ NoneIsBlank'
  BY DEF CalendarInv, RowsTyped, InTheDay, NoneIsBlank
<1>2. PlanIsCurrent' /\ NoStaffOverlap'
  BY DEF CalendarInv, PlanIsCurrent, NoStaffOverlap, LiveSegments, RangesOverlap
<1>3. OperationsCountOnce'
  BY DEF CalendarInv, OperationsCountOnce
<1> QED BY <1>1, <1>2, <1>3 DEF CalendarInv

LEMMA CheckStep ==
    ASSUME CalendarInv, NEW q \in Quotes, NEW request \in Requests,
           \/ CheckAvailability(q, request)
           \/ \E a \in Appts : CheckReplacement(q, request, a)
    PROVE  CalendarInv'
<1>1. quotes[q] = None
  BY DEF CheckAvailability, CheckReplacement, QuoteFree, FirstOf
<1>2. CASE CheckAvailability(q, request)
  <2> DEFINE quote == NewQuote(request, "book", None, 0, authority.version,
                               PlanAggregateAvailability(request, None))
  <2>1. quote \in QuoteRows
    BY <1>2, NewQuoteType DEF CheckAvailability, CalendarInv, RowsTyped
  <2> HIDE DEF QuoteRows
  <2>2. quotes' = [quotes EXCEPT ![q] = quote]
        /\ UNCHANGED <<config, authority, mirror, attempts, appts, segments, now>>
    BY <1>2 DEF CheckAvailability
  <2> HIDE DEF quote
  <2> QED BY <1>1, <2>1, <2>2, QuotedStep DEF CalendarInv, RowsTyped
<1>3. ASSUME NEW a \in Appts, CheckReplacement(q, request, a) PROVE CalendarInv'
  <2> DEFINE quote == NewQuote(request, "reschedule", a, appts[a].version, appts[a].aversion,
                               PlanAggregateAvailability(request, a))
  <2>0. appts[a].version \in Nat /\ appts[a].aversion \in Nat
    BY DEF CalendarInv, RowsTyped, AppointmentRows
  <2>1. quote \in QuoteRows
    BY <1>3, <2>0, NewQuoteType DEF CheckReplacement, CalendarInv
  <2>2. quotes' = [quotes EXCEPT ![q] = quote]
        /\ UNCHANGED <<config, authority, mirror, attempts, appts, segments, now>>
    BY <1>3 DEF CheckReplacement
  <2> HIDE DEF quote
  <2> QED BY <1>1, <2>1, <2>2, QuotedStep DEF CalendarInv, RowsTyped
<1> QED BY <1>2, <1>3

\* The rows an accepted operation leaves.
LEMMA OperationRows ==
    ASSUME CalendarInv, NEW k \in Keys, NEW row \in AttemptRows,
           attempts' = [attempts EXCEPT ![k] = row],
           quotes' \in [Quotes -> QuoteRows \cup {None}],
           appts' \in [Appts -> AppointmentRows], segments' \subseteq SegmentRows,
           IsFiniteSet(segments'), UNCHANGED <<config, authority, mirror, now>>
    PROVE  ConfigTyped' /\ RowsTyped'
BY DEF CalendarInv, ConfigTyped, RowsTyped

LEMMA CreateStep ==
    ASSUME CalendarInv, NEW k \in Keys, NEW q \in Quotes, NEW root \in 0 .. Day, NEW a \in Appts,
           CreateAppointment(k, q, root, a)
    PROVE  CalendarInv'
<1> DEFINE row == Attempt("book", a, 1, q, root)
           plan == quotes[q].slots[root]
<1>1. Books(a, 1, plan, None)
  BY CreateBooks
<1>2. /\ attempts' = [attempts EXCEPT ![k] = row] /\ attempts[k] = None
      /\ quotes' = Consumed(q, k) /\ quotes[q] # None /\ quotes[q].usedBy = None
      /\ appts[a].status = "none" /\ UNCHANGED <<config, authority, mirror, now>>
  BY DEF CreateAppointment, NewOperation, NewAppointment, FirstOf, QuoteUsable
<1>3. row \in AttemptRows
  BY DEF Attempt, AttemptRows
<1>4. row.appt = a /\ row.version = 1 /\ row.quote = q
  BY DEF Attempt
<1> HIDE DEF row, plan
<1>5. appts[a].version = 0
  BY <1>2 DEF CalendarInv, NoneIsBlank
<1>6. /\ appts' \in [Appts -> AppointmentRows]
      /\ segments' \subseteq SegmentRows /\ IsFiniteSet(segments')
      /\ appts'[a].version = 1 /\ \A b \in Appts \ {a} : appts'[b] = appts[b]
  BY <1>1 DEF Books
<1>7. OperationsCountOnce'
  <2>1. row.version = appts[row.appt].version + 1
    BY <1>4, <1>5
  <2> QED BY <1>2, <1>3, <1>4, <1>6, <2>1, OneMoreOperation
<1>8. quotes' \in [Quotes -> QuoteRows \cup {None}]
  BY <1>2, ConsumedType DEF CalendarInv
<1>9. ConfigTyped' /\ RowsTyped'
  BY <1>2, <1>3, <1>6, <1>8, OperationRows
<1>10. InTheDay' /\ NoneIsBlank' /\ PlanIsCurrent' /\ NoStaffOverlap'
  BY <1>1, BooksInTheDay, BooksCurrent, BooksNoOverlap
<1> QED BY <1>7, <1>9, <1>10 DEF CalendarInv

LEMMA RescheduleStep ==
    ASSUME CalendarInv, NEW k \in Keys, NEW q \in Quotes, NEW root \in 0 .. Day, NEW a \in Appts,
           RescheduleAppointment(k, q, root, a, appts[a].version)
    PROVE  CalendarInv'
<1> DEFINE v == appts[a].version + 1
           row == Attempt("reschedule", a, v, q, root)
           plan == quotes[q].slots[root]
<1>0. v \in Nat
  BY DEF CalendarInv, RowsTyped, AppointmentRows
<1>1. Books(a, v, plan, a)
  BY RescheduleBooks
<1>2. /\ attempts' = [attempts EXCEPT ![k] = row] /\ attempts[k] = None
      /\ quotes' = Consumed(q, k) /\ quotes[q] # None /\ quotes[q].usedBy = None
      /\ UNCHANGED <<config, authority, mirror, now>>
  BY DEF RescheduleAppointment, NewOperation, FirstOf, QuoteUsable
<1>3. row \in AttemptRows
  BY <1>0 DEF Attempt, AttemptRows
<1>4. row.appt = a /\ row.version = v /\ row.quote = q
  BY DEF Attempt
<1> HIDE DEF row, plan
<1>6. /\ appts' \in [Appts -> AppointmentRows]
      /\ segments' \subseteq SegmentRows /\ IsFiniteSet(segments')
      /\ appts'[a].version = v /\ \A b \in Appts \ {a} : appts'[b] = appts[b]
  BY <1>1 DEF Books
<1>7. OperationsCountOnce'
  BY <1>2, <1>3, <1>4, <1>6, OneMoreOperation
<1>8. quotes' \in [Quotes -> QuoteRows \cup {None}]
  BY <1>2, ConsumedType DEF CalendarInv
<1>9. ConfigTyped' /\ RowsTyped'
  BY <1>2, <1>3, <1>6, <1>8, OperationRows
<1>10. InTheDay' /\ NoneIsBlank' /\ PlanIsCurrent' /\ NoStaffOverlap'
  <2> HIDE DEF v
  <2> QED BY <1>1, BooksInTheDay, BooksCurrent, BooksNoOverlap
<1> QED BY <1>7, <1>9, <1>10 DEF CalendarInv

LEMMA CancelStep ==
    ASSUME CalendarInv, NEW k \in Keys, NEW a \in Appts,
           CancelAppointment(k, a, appts[a].version)
    PROVE  CalendarInv'
<1> DEFINE row == Attempt("cancel", a, appts[a].version + 1, None, appts[a].start)
<1>1. /\ attempts' = [attempts EXCEPT ![k] = row] /\ attempts[k] = None
      /\ UNCHANGED <<config, authority, mirror, quotes, now>>
  BY DEF CancelAppointment, NewOperation, FirstOf
<1>2. row \in AttemptRows
  BY DEF CalendarInv, RowsTyped, AppointmentRows, Attempt, AttemptRows
<1>3. row.appt = a /\ row.version = appts[a].version + 1 /\ row.quote = None
  BY DEF Attempt
<1> HIDE DEF row
<1>4. /\ segments' \subseteq SegmentRows /\ IsFiniteSet(segments') /\ appts' \in [Appts -> AppointmentRows]
      /\ appts'[a].version = appts[a].version + 1
      /\ \A b \in Appts \ {a} : appts'[b] = appts[b]
      /\ InTheDay' /\ NoneIsBlank' /\ NoStaffOverlap' /\ PlanIsCurrent'
  BY CancelKeeps
<1>5. OperationsCountOnce'
  BY <1>1, <1>2, <1>3, <1>4, OneMoreOperation
<1>6. ConfigTyped' /\ RowsTyped'
  BY <1>1, <1>2, <1>4, OperationRows DEF CalendarInv, RowsTyped
<1> QED BY <1>4, <1>5, <1>6 DEF CalendarInv

LEMMA CalendarInvStep == CalendarInv /\ [Next]_vars => CalendarInv'
<1> SUFFICES ASSUME CalendarInv, [Next]_vars PROVE CalendarInv'
  OBVIOUS
<1>0. ConfigTyped /\ authority \in [name : Authorities, version : Nat] /\ mirror \subseteq ExtBusy
      /\ now \in Nat
  BY DEF CalendarInv, RowsTyped
<1>1. CASE UNCHANGED vars
  BY <1>0, <1>1, SurroundingStep DEF vars, ConfigTyped
<1>2. CASE Execute
  BY <1>2, CheckStep, CreateStep, RescheduleStep, CancelStep DEF Execute
<1>3. CASE Configure
  BY <1>0, <1>3, ConfigureTypes, ConfigureLeaves, SurroundingStep
<1>4. ASSUME NEW m \in ExtBusy, MirrorChanged(m) PROVE CalendarInv'
  BY <1>0, <1>4, SurroundingStep DEF MirrorChanged, ConfigTyped
<1>5. ASSUME NEW q \in Quotes, CleanupQuote(q) PROVE CalendarInv'
  BY <1>5, QuotedStep DEF CleanupQuote, CalendarInv, RowsTyped
<1>6. CASE Tick
  BY <1>0, <1>6, SurroundingStep DEF Tick, ConfigTyped
<1>7. ASSUME NEW target \in Authorities, SwitchAuthority(target) PROVE CalendarInv'
  BY <1>0, <1>7, SurroundingStep DEF SwitchAuthority, SetAuthority, ConfigTyped
<1> QED BY <1>1, <1>2, <1>3, <1>4, <1>5, <1>6, <1>7 DEF Next, Environment

-----------------------------------------------------------------------------
\* Theorems.

\* The inductive invariant.
THEOREM CalendarInvariant == Spec => []CalendarInv
BY CalendarInvInit, CalendarInvStep, PTL DEF Spec

(* The tables of the calendar hold rows of the kinds they were made for,   *)
(* and a configuration is activated at no version it does not have.        *)
THEOREM CalendarTypeCorrect == Spec => []TypeOK
<1>1. CalendarInv => TypeOK
  <2> SUFFICES ASSUME CalendarInv PROVE TypeOK
    OBVIOUS
  <2>1. config.version \in Nat /\ config.activated \in Nat /\ config.activated <= config.version
    BY DEF CalendarInv, ConfigTyped, Configs
  <2>2. authority.name \in Authorities /\ authority.version \in Nat
    BY DEF CalendarInv, RowsTyped
  <2>3. \A a \in Appts : appts[a].status \in {"none", "cancelled"} \cup Active
    BY DEF CalendarInv, RowsTyped, AppointmentRows
  <2>4. \A s \in segments : s.appt \in Appts /\ s.segment.staff \in Staff
    BY DEF CalendarInv, RowsTyped, SegmentRows, PlanRows
  <2> QED BY <2>1, <2>2, <2>3, <2>4 DEF TypeOK, CalendarInv, RowsTyped
<1> QED BY <1>1, CalendarInvariant, PTL

(* No staff member is ever booked twice at one instant, whatever was       *)
(* rescheduled, reconfigured, mirrored or switched in between.             *)
THEOREM StaffAreNeverDoubleBooked == Spec => []NoStaffOverlap
<1>1. CalendarInv => NoStaffOverlap
  BY DEF CalendarInv
<1> QED BY <1>1, CalendarInvariant, PTL

(* The rows of an appointment, its plan, its quotes and its operations say *)
(* the same of it.                                                         *)
THEOREM CalendarRowsAgree == Spec => []RowsAgree
<1>1. CalendarInv => RowsAgree
  BY DEF CalendarInv, RowsAgree
<1> QED BY <1>1, CalendarInvariant, PTL

-----------------------------------------------------------------------------
\* The ledger.

\* Cells that different appointments hold are different cells of the day.
CellsApart ==
    /\ HeldCells \in [Appts -> SUBSET (Staff \X (0 .. Day))]
    /\ \A a, b \in Appts : a # b => HeldCells[a] \cap HeldCells[b] = {}

LEMMA CellsOfTheDay == CalendarInv => CellsApart
<1> SUFFICES ASSUME CalendarInv PROVE CellsApart
  OBVIOUS
<1> DEFINE Of(s) == {<<s.segment.staff, t>> : t \in s.segment.from .. s.segment.to - 1}
           Live(a) == {x \in LiveSegments : x.appt = a}
<1>1. \A a \in Appts : HeldCells[a] = UNION {Of(s) : s \in Live(a)}
  BY DEF HeldCells
<1>2. ASSUME NEW s \in LiveSegments
      PROVE  /\ s.segment.staff \in Staff /\ s.segment.from \in Int /\ s.segment.to \in Int
             /\ 0 <= s.segment.from /\ s.segment.to <= Day
  BY <1>2 DEF CalendarInv, RowsTyped, LiveSegments, SegmentRows, PlanRows, InTheDay
<1>3. ASSUME NEW a \in Appts, NEW cell \in HeldCells[a]
      PROVE  \E s \in Live(a) : cell \in Of(s)
  BY <1>1, <1>3
<1>4. ASSUME NEW a \in Appts, NEW cell \in HeldCells[a] PROVE cell \in Staff \X (0 .. Day)
  <2>1. PICK s \in Live(a) : cell \in Of(s)
    BY <1>3
  <2>2. PICK t \in s.segment.from .. s.segment.to - 1 : cell = <<s.segment.staff, t>>
    BY <2>1
  <2>3. s.segment.staff \in Staff /\ t \in 0 .. Day
    BY <1>2, <2>2, CalendarConstants
  <2> QED BY <2>2, <2>3
<1>5. ASSUME NEW a \in Appts, NEW b \in Appts, a # b,
             NEW cell, cell \in HeldCells[a], cell \in HeldCells[b]
      PROVE  FALSE
  <2>1. PICK s \in Live(a) : cell \in Of(s)
    BY <1>3, <1>5
  <2>2. PICK r \in Live(b) : cell \in Of(r)
    BY <1>3, <1>5
  <2>3. PICK t \in s.segment.from .. s.segment.to - 1 : cell = <<s.segment.staff, t>>
    BY <2>1
  <2>4. PICK u \in r.segment.from .. r.segment.to - 1 : cell = <<r.segment.staff, u>>
    BY <2>2
  <2>5. s.segment.staff = r.segment.staff /\ t = u
    BY <2>3, <2>4
  <2>6. s # r
    BY <1>5, <2>1, <2>2
  <2>7. ~ RangesOverlap(s.segment, r.segment)
    BY <2>1, <2>2, <2>5, <2>6 DEF CalendarInv, NoStaffOverlap
  <2>8. s.segment.from < r.segment.to /\ r.segment.from < s.segment.to
    BY <1>2, <2>1, <2>2, <2>3, <2>4, <2>5
  <2> QED BY <2>7, <2>8 DEF RangesOverlap
<1>6. HeldCells \in [Appts -> SUBSET (Staff \X (0 .. Day))]
  BY <1>4 DEF HeldCells
<1> QED BY <1>5, <1>6 DEF CellsApart

\* A step that changes the plan of one appointment only.
LEMMA OthersKeepTheirCells ==
    ASSUME NEW a \in Appts, NEW New, \A s \in New : s.appt = a,
           LiveSegments' = {s \in LiveSegments : s.appt # a} \cup New
    PROVE  \A b \in Appts \ {a} : HeldCells'[b] = HeldCells[b]
<1> DEFINE Of(s) == {<<s.segment.staff, t>> : t \in s.segment.from .. s.segment.to - 1}
           Live(b) == {x \in LiveSegments : x.appt = b}
<1> SUFFICES ASSUME NEW b \in Appts, b # a PROVE HeldCells'[b] = HeldCells[b]
  OBVIOUS
<1>1. HeldCells[b] = UNION {Of(s) : s \in Live(b)}
      /\ HeldCells'[b] = UNION {Of(s) : s \in Live(b)'}
  BY DEF HeldCells
<1>2. Live(b)' = {x \in LiveSegments' : x.appt = b}
  OBVIOUS
<1>3. Live(b)' = Live(b)
  BY <1>2
<1> HIDE DEF Live, Of
<1> QED BY <1>1, <1>3

LEMMA LedgerInit == Init => Ledger!Init
<1> SUFFICES ASSUME Init PROVE HeldCells = [a \in Appts |-> {}]
  BY DEF Ledger!Init
<1>1. LiveSegments = {}
  BY DEF Init, LiveSegments
<1>2. \A a \in Appts : {x \in LiveSegments : x.appt = a} = {}
  BY <1>1
<1> QED BY <1>2 DEF HeldCells

LEMMA LedgerStep ==
    CalendarInv /\ CellsApart' /\ [Next]_vars => [Ledger!Next]_HeldCells
<1> SUFFICES ASSUME CalendarInv, CellsApart', [Next]_vars PROVE [Ledger!Next]_HeldCells
  OBVIOUS
<1>1. CASE segments' = segments
  BY <1>1 DEF HeldCells, LiveSegments
<1>2. ASSUME NEW a \in Appts, NEW New, \A s \in New : s.appt = a,
             LiveSegments' = {s \in LiveSegments : s.appt # a} \cup New
      PROVE  Ledger!Next
  <2>1. \A b \in Appts \ {a} : HeldCells'[b] = HeldCells[b]
    BY <1>2, OthersKeepTheirCells
  <2>2. /\ HeldCells' \in [Appts -> SUBSET (Staff \X (0 .. Day))]
        /\ \A c, b \in Appts : c # b => HeldCells'[c] \cap HeldCells'[b] = {}
    BY DEF CellsApart
  <2>3. Ledger!Rebook(a)
    BY <2>1, <2>2 DEF Ledger!Rebook
  <2> QED BY <2>3 DEF Ledger!Next
<1>3. ASSUME NEW a \in Appts, NEW v, NEW plan, NEW excluded, Books(a, v, plan, excluded)
      PROVE  Ledger!Next
  <2>1. LiveSegments' = {s \in LiveSegments : s.appt # a} \cup AppointmentPlan(a, v, plan)
    BY <1>3 DEF Books
  <2>2. \A s \in AppointmentPlan(a, v, plan) : s.appt = a
    BY DEF AppointmentPlan
  <2> QED BY <1>2, <2>1, <2>2
<1>4. ASSUME NEW k \in Keys, NEW a \in Appts, CancelAppointment(k, a, appts[a].version)
      PROVE  Ledger!Next
  <2>1. PICK New : New = {}
    OBVIOUS
  <2>2. LiveSegments' = {s \in LiveSegments : s.appt # a} \cup New
    BY <1>4, <2>1, CancelKeeps
  <2>3. \A s \in New : s.appt = a
    BY <2>1
  <2> QED BY <1>2, <2>2, <2>3
<1>5. ASSUME NEW k \in Keys, NEW q \in Quotes, NEW root \in 0 .. Day, NEW a \in Appts,
             \/ CreateAppointment(k, q, root, a)
             \/ RescheduleAppointment(k, q, root, a, appts[a].version)
      PROVE  Ledger!Next
  BY <1>3, <1>5, CreateBooks, RescheduleBooks
<1>6. CASE Execute
  BY <1>1, <1>4, <1>5, <1>6 DEF CheckAvailability, CheckReplacement, Execute
<1>7. CASE UNCHANGED vars \/ Configure \/ Environment
           \/ \E target \in Authorities : SwitchAuthority(target)
  BY <1>1, <1>7, ConfigureLeaves DEF vars, Environment, MirrorChanged, CleanupQuote, Tick,
     SwitchAuthority
<1> QED BY <1>6, <1>7 DEF Next

(* The calendar implements the ledger of cells: a step changes what one    *)
(* appointment holds, to cells of the day that no other appointment holds. *)
THEOREM CalendarImplementsLedger == Spec => ImplementsLedger
<1>1. Spec => Ledger!Init /\ [][Ledger!Next]_HeldCells
  BY LedgerInit, LedgerStep, CellsOfTheDay, CalendarInvariant, PTL DEF Spec
<1> QED BY <1>1 DEF ImplementsLedger, Ledger!Spec

-----------------------------------------------------------------------------
\* Writes.

\* The units of a pool that rows have in use.
LEMMA UnitsOfRows ==
    ASSUME NEW rows, NEW pool, NEW tick, NEW f,
           f = [s \in {x \in rows : x.segment.from <= tick /\ tick < x.segment.to} |->
                  s.segment.units[pool]]
    PROVE  UnitsOf(rows, pool, tick) = SumFunction(f)
<1> DEFINE held == [s \in rows |-> s.segment]
           here == {x \in DOMAIN held : held[x].from <= tick /\ tick < held[x].to}
<1>1. here = {x \in rows : x.segment.from <= tick /\ tick < x.segment.to}
  OBVIOUS
<1>2. f = [x \in here |-> held[x].units[pool]]
  BY <1>1
<1>3. UnitsOf(rows, pool, tick) = SumFunction([x \in here |-> held[x].units[pool]])
  BY DEF UnitsOf, UnitsAt
<1> HIDE DEF held, here
<1> QED BY <1>2, <1>3

\* The units that are in use once a plan is added to the rows.
LEMMA UnitsAddUp ==
    ASSUME NEW a \in Appts, NEW v \in Nat, NEW plan \in Seq(PlanRows), NEW pool \in Pools,
           NEW tick \in Int, NEW Kept, IsFiniteSet(Kept), Kept \subseteq SegmentRows,
           \A s \in Kept : s.appt # a
    PROVE  UnitsOf(Kept \cup AppointmentPlan(a, v, plan), pool, tick) =
               UnitsOf(Kept, pool, tick) + UnitsPlanned(plan, pool, tick)
<1> DEFINE New == AppointmentPlan(a, v, plan)
           Row(i) == [appt |-> a, version |-> v, order |-> i, segment |-> plan[i],
                      released |-> FALSE]
           Here(s) == s.segment.from <= tick /\ tick < s.segment.to
           KeptHere == {s \in Kept : Here(s)}
           NewHere == {s \in New : Here(s)}
           AllHere == {s \in Kept \cup New : Here(s)}
           Places == {i \in DOMAIN plan : plan[i].from <= tick /\ tick < plan[i].to}
           f == [s \in AllHere |-> s.segment.units[pool]]
           g == [i \in Places |-> plan[i].units[pool]]
           h == [s \in NewHere |-> s.segment.units[pool]]
           k == [s \in KeptHere |-> s.segment.units[pool]]
           b == [i \in Places |-> Row(i)]
<1>1. New = {Row(i) : i \in DOMAIN plan}
  BY DEF AppointmentPlan
<1>2. New \subseteq SegmentRows /\ IsFiniteSet(New)
  BY AppointmentPlanType
<1>3. \A s \in SegmentRows : s.segment.units[pool] \in Nat
  BY DEF SegmentRows, PlanRows
<1>4. AllHere = KeptHere \cup NewHere /\ KeptHere \cap NewHere = {}
  BY <1>1
<1>5. IsFiniteSet(KeptHere) /\ IsFiniteSet(NewHere)
  BY <1>2, FS_Subset
<1>6. f \in [KeptHere \cup NewHere -> Nat]
  BY <1>2, <1>3, <1>4
<1>7. k \in [KeptHere -> Nat] /\ h \in [NewHere -> Nat]
  BY <1>2, <1>3
<1>8. SumFunction(f) = SumFunction(k) + SumFunction(h)
  <2>1. \A s \in KeptHere : f[s] = k[s]
    BY <1>4
  <2>2. \A s \in NewHere : f[s] = h[s]
    BY <1>4
  <2> HIDE DEF f, k, h, KeptHere, NewHere, AllHere
  <2>3. KeptHere \cap NewHere = {}
    BY <1>4
  <2>4. IsFiniteSet(KeptHere)
    BY <1>5
  <2>5. IsFiniteSet(NewHere)
    BY <1>5
  <2>6. k \in [KeptHere -> Nat]
    BY <1>7
  <2>7. h \in [NewHere -> Nat]
    BY <1>7
  <2>8. Splits(f, KeptHere, k, NewHere, h)
    BY <1>6, <2>1, <2>2, <2>3, <2>4, <2>5, <2>6, <2>7 DEF Splits
  <2> QED BY <2>8, SumSplit
<1>9. SumFunction(h) = SumFunction(g)
  <2>1. b \in [Places -> NewHere] /\ \A i, j \in Places : b[i] = b[j] => i = j
    BY <1>1
  <2>2. \A s \in NewHere : \E i \in Places : b[i] = s
    BY <1>1
  <2>3. IsFiniteSet(Places)
    BY FS_Interval, FS_Subset
  <2>4. \A i \in Places : g[i] = h[b[i]]
    <3> SUFFICES ASSUME NEW i \in Places PROVE g[i] = h[b[i]]
      OBVIOUS
    <3>1. b[i] \in NewHere /\ b[i] = Row(i)
      BY <2>1
    <3>2. Row(i).segment = plan[i]
      OBVIOUS
    <3> HIDE DEF NewHere, Row, b
    <3> QED BY <3>1, <3>2
  <2>5. g \in [Places -> Nat]
    <3>1. \A i \in Places : h[b[i]] \in Nat
      BY <1>7, <2>1
    <3> HIDE DEF h, b, Places
    <3> QED BY <2>4, <3>1
  <2> HIDE DEF h, b, Places, NewHere, g
  <2>6. b \in [Places -> NewHere]
    BY <2>1
  <2>7. \A i, j \in Places : b[i] = b[j] => i = j
    BY <2>1
  <2>8. h \in [NewHere -> Nat]
    BY <1>7
  <2>9. Reindexes(g, Places, b, h, NewHere)
    BY <2>2, <2>3, <2>4, <2>5, <2>6, <2>7, <2>8 DEF Reindexes
  <2> QED BY <2>9, SumReindex
<1>10. UnitsOf(Kept \cup New, pool, tick) = SumFunction(f)
  BY UnitsOfRows
<1>11. UnitsOf(Kept, pool, tick) = SumFunction(k)
  BY UnitsOfRows
<1>12. UnitsPlanned(plan, pool, tick) = SumFunction(g)
  BY DEF UnitsPlanned, UnitsAt
<1> HIDE DEF f, g, h, k
<1> QED BY <1>8, <1>9, <1>10, <1>11, <1>12

\* A plan that was valid when it was booked fits the day it was booked in.
LEMMA BooksFitTheDay ==
    ASSUME CalendarInv, NEW a \in Appts, NEW v, NEW plan, NEW excluded,
           Books(a, v, plan, excluded)
    PROVE  WritesFitTheDay
<1> DEFINE Kept == {s \in LiveSegments : s.appt # a}
           New == AppointmentPlan(a, v, plan)
<1>1. LiveSegments' = Kept \cup New /\ LiveSegments' = {x \in segments' : ~ x.released}
  BY DEF Books, LiveSegments
<1>2. /\ plan \in Seq(PlanRows) /\ ValidPlan(plan, excluded) /\ v \in Nat
      /\ ~ UnresolvedExternalConflict
  BY DEF Books
<1>3. OccupiedSegments(excluded) = Kept
  BY KeptAreOccupied
<1>4. Kept \subseteq SegmentRows /\ IsFiniteSet(Kept) /\ Kept \subseteq segments
      /\ \A s \in Kept : s.appt # a
  BY FS_Subset DEF LiveSegments, CalendarInv, RowsTyped
<1> SUFFICES ASSUME NEW s \in segments' \ segments, ~ s.released
             PROVE  /\ ScopeAllowsRange(config.hours, s.segment, "salon", None)
                    /\ ScopeAllowsRange(config.weekly[s.segment.staff], s.segment,
                                        "staff", s.segment.staff)
                    /\ \A m \in mirror : m.staff # 0 /\
                           ~ (m.staff = s.segment.staff /\ RangesOverlap(m, s.segment))
                    /\ \A pool \in Pools, tick \in s.segment.from .. s.segment.to - 1 :
                           s.segment.units[pool] > 0 =>
                               UnitsOf({x \in segments' : ~ x.released}, pool, tick)
                                   <= EffectiveCapacity(pool, tick)
  BY DEF WritesFitTheDay
<1>5. s \in New
  BY <1>1, <1>4
<1>6. PICK i \in DOMAIN plan : s.segment = plan[i]
  BY <1>5 DEF AppointmentPlan
<1>7. /\ plan[i].from >= 0 /\ plan[i].to <= Day
      /\ ScopeAllowsRange(config.hours, plan[i], "salon", None)
      /\ ScopeAllowsRange(config.weekly[plan[i].staff], plan[i], "staff", plan[i].staff)
      /\ ~ HasStaffConflict(StaffConflicts(excluded), plan[i])
  BY <1>2 DEF ValidPlan
<1>8. ASSUME NEW m \in mirror
      PROVE  m.staff # 0 /\ ~ (m.staff = plan[i].staff /\ RangesOverlap(m, plan[i]))
  BY <1>2, <1>7, <1>8 DEF UnresolvedExternalConflict, StaffConflicts, HasStaffConflict
<1>9. ASSUME NEW pool \in Pools, NEW tick \in plan[i].from .. plan[i].to - 1,
             plan[i].units[pool] > 0
      PROVE  UnitsOf({x \in segments' : ~ x.released}, pool, tick)
                 <= EffectiveCapacity(pool, tick)
  <2>1. plan[i].from \in Int /\ plan[i].to \in Int
    <3>1. plan[i] \in PlanRows
      BY <1>2
    <3> QED BY <3>1 DEF PlanRows
  <2>2. tick \in 0 .. Day - 1
    BY <1>7, <2>1, CalendarConstants
  <2>3. ResourcesFit(plan, excluded)
    BY <1>2 DEF ValidPlan
  <2>4. UnitsBooked(excluded, pool, tick) + UnitsPlanned(plan, pool, tick)
            <= EffectiveCapacity(pool, tick)
    BY <1>9, <2>2, <2>3 DEF ResourcesFit
  <2>5. UnitsOf(Kept \cup New, pool, tick) =
            UnitsOf(Kept, pool, tick) + UnitsPlanned(plan, pool, tick)
    BY <1>2, <1>4, <2>2, UnitsAddUp
  <2>6. UnitsBooked(excluded, pool, tick) = UnitsOf(Kept, pool, tick)
    BY <1>3 DEF UnitsBooked
  <2> HIDE DEF Kept, New
  <2> QED BY <1>1, <2>4, <2>5, <2>6
<1> QED BY <1>6, <1>7, <1>8, <1>9

\* What is written was checked against the state it is written in.
LEMMA FencedStep ==
    CalendarInv /\ [Next]_vars => [WritesFitTheDay /\ CreatesUnderAuthority]_vars
<1> SUFFICES ASSUME CalendarInv, Next PROVE WritesFitTheDay /\ CreatesUnderAuthority
  OBVIOUS
<1>1. CASE segments' = segments /\ appts' = appts
  BY <1>1 DEF WritesFitTheDay, CreatesUnderAuthority
<1>2. ASSUME NEW k \in Keys, NEW q \in Quotes, NEW root \in 0 .. Day, NEW a \in Appts,
             CreateAppointment(k, q, root, a)
      PROVE  WritesFitTheDay /\ CreatesUnderAuthority
  <2> DEFINE plan == quotes[q].slots[root]
  <2>1. Books(a, 1, plan, None)
    BY <1>2, CreateBooks
  <2>2. WritesFitTheDay
    BY <2>1, BooksFitTheDay
  <2>3. appts'[a] = ConfirmedAppointment(q, plan)
    BY <1>2 DEF CreateAppointment, CalendarInv, RowsTyped
  <2>4. appts'[a].aversion = quotes[q].aversion /\ appts'[a].cversion = quotes[q].cversion
    BY <2>3 DEF ConfirmedAppointment
  <2>5. /\ authority.name = Internal /\ authority.version = quotes[q].aversion
        /\ quotes[q].cversion = config.version /\ config.activated = config.version
    BY <1>2 DEF CreateAppointment, QuoteUsable
  <2>6. authority = [name |-> Internal, version |-> appts'[a].aversion]
    BY <2>4, <2>5 DEF CalendarInv, RowsTyped
  <2>7. \A b \in Appts \ {a} : appts'[b] = appts[b]
    BY <2>1 DEF Books
  <2> HIDE DEF plan
  <2>8. CreatesUnderAuthority
    BY <2>4, <2>5, <2>6, <2>7 DEF CreatesUnderAuthority
  <2> QED BY <2>2, <2>8
<1>3. ASSUME NEW k \in Keys, NEW q \in Quotes, NEW root \in 0 .. Day, NEW a \in Appts,
             RescheduleAppointment(k, q, root, a, appts[a].version)
      PROVE  WritesFitTheDay /\ CreatesUnderAuthority
  <2>1. PICK plan : Books(a, appts[a].version + 1, plan, a)
    BY <1>3, RescheduleBooks
  <2>2. WritesFitTheDay
    BY <2>1, BooksFitTheDay
  <2>3. appts[a].status # "none"
    BY <1>3 DEF RescheduleAppointment, LifecycleTarget, Active
  <2>4. \A b \in Appts \ {a} : appts'[b] = appts[b]
    BY <2>1 DEF Books
  <2> QED BY <2>2, <2>3, <2>4 DEF CreatesUnderAuthority
<1>4. ASSUME NEW k \in Keys, NEW a \in Appts, CancelAppointment(k, a, appts[a].version)
      PROVE  WritesFitTheDay /\ CreatesUnderAuthority
  BY <1>4, CancelKeeps DEF LiveSegments, CancelAppointment, LifecycleTarget, Active,
     WritesFitTheDay, CreatesUnderAuthority
<1>5. CASE Execute
  BY <1>1, <1>2, <1>3, <1>4, <1>5 DEF CheckAvailability, CheckReplacement, Execute
<1>6. CASE Configure \/ Environment \/ \E target \in Authorities : SwitchAuthority(target)
  BY <1>1, <1>6, ConfigureLeaves DEF Environment, MirrorChanged, CleanupQuote, Tick,
     SwitchAuthority
<1> QED BY <1>5, <1>6 DEF Next

(* A booking fits the opening hours, the weekly periods and exceptions,    *)
(* the provider's mirror and the capacities in force when it is written,   *)
(* and an appointment is created under the authority of its quote.         *)
THEOREM CalendarWritesAreFenced == Spec => WritesAreFenced
<1>1. Spec => [][WritesFitTheDay /\ CreatesUnderAuthority]_vars
  BY FencedStep, CalendarInvariant, PTL DEF Spec
<1> QED BY <1>1 DEF WritesAreFenced

-----------------------------------------------------------------------------
\* ************************** The authority switch *************************

-----------------------------------------------------------------------------
\* Types.

Settings == [authority : Targets, version : 1 .. MaxSwitches, mode : Modes]
Snapshots == [ready : BOOLEAN, evidence : Nat]
RunRows == [status : {"evaluating", "preview_ready", "preview_blocked", "committed"},
            source : Targets, target : Targets, version : Nat,
            rollbackOf : Runs \cup {NoCall}, snapshot : Snapshots]
CallRows == [op : Ops, reviewed : Settings, route : Targets \cup {"none"}]
RequestStatuses == {"none", "pending", "contacted", "resolved", "dismissed"}

\* The types of all rows.
RowTypes ==
    /\ settings \in Settings
    /\ facts \in [version : Nat, activated : Nat, services : {0, 1},
                  providerReady : BOOLEAN, evidence : Nat]
    /\ edits \in Nat
    /\ runs \in [Runs -> RunRows \cup {NoRun}]
    /\ evaluated \subseteq Runs
    /\ bookings \in [Ops -> [authority : Targets \cup {"none"}, live : BOOLEAN, version : Nat]]
    /\ requests \in [Ops -> [status : RequestStatuses, target : Targets \cup {"none"},
                             version : Nat]]
    /\ calls \in [Callers -> CallRows \cup {[op |-> NoCall]}]

(* An open request has gone through as many transitions as its status says *)
(* and a closed one through at most two.                                   *)
RequestVersions ==
    \A op \in Ops :
        /\ requests[op].status = "none" => requests[op].version = 0
        /\ requests[op].status = "pending" => requests[op].version = 1
        /\ requests[op].status = "contacted" => requests[op].version = 2
        /\ requests[op].version <= 3

\* A committed switch made a version of the authority before this one.
CommittedIsPast ==
    \A r \in Committed : runs[r].version \in 1 .. settings.version - 1

SwitchInv == RowTypes /\ RequestVersions /\ CommittedIsPast /\ AuthorityHistory

-----------------------------------------------------------------------------
\* What a target reports is a snapshot.
LEMMA EvaluationType ==
    ASSUME RowTypes, NEW target \in Targets
    PROVE  EvaluateTarget(target) \in Snapshots
BY DEF RowTypes, EvaluateTarget, Targets, Calendar, External, OwnerManual, OwnerManualReadiness,
       CalendarReadiness, ProviderReadiness, Snapshots

LEMMA RowTypesInit == SwitchInit => RowTypes
BY SwitchConstants DEF SwitchInit, RowTypes, Settings, Targets, Modes, NoRun, NoBooking, NoRequest,
   RequestStatuses, CallRows, RunRows

\* Edits and facts.
LEMMA EditTypes ==
    ASSUME RowTypes, (\E mode \in Modes : UpdateBookingMode(mode)) \/ FactsChange
    PROVE  RowTypes'
<1>1. ASSUME NEW mode \in Modes, UpdateBookingMode(mode) PROVE RowTypes'
  BY <1>1 DEF UpdateBookingMode, Edit, RowTypes, Settings
<1>2. CASE FactsChange
  <2>1. facts' \in [version : Nat, activated : Nat, services : {0, 1},
                    providerReady : BOOLEAN, evidence : Nat]
    <3> DEFINE Facts == [version : Nat, activated : Nat, services : {0, 1},
                         providerReady : BOOLEAN, evidence : Nat]
    <3>1. facts \in Facts /\ (~ facts.providerReady) \in BOOLEAN
      BY DEF RowTypes
    <3>2. facts.version + 1 \in Nat /\ facts.evidence + 1 \in Nat /\ 1 - facts.services \in {0, 1}
      BY <3>1
    <3>3. [facts EXCEPT !.version = @ + 1] \in Facts
      BY <3>1, <3>2
    <3>4. [facts EXCEPT !.version = @ + 1, !.activated = facts.version + 1] \in Facts
      BY <3>1, <3>2
    <3>5. [facts EXCEPT !.version = @ + 1, !.services = 1 - @] \in Facts
      BY <3>1, <3>2
    <3>6. [facts EXCEPT !.evidence = @ + 1] \in Facts
      BY <3>1, <3>2
    <3>7. [facts EXCEPT !.providerReady = ~ @] \in Facts
      BY <3>1
    <3> QED BY <1>2, <3>3, <3>4, <3>5, <3>6, <3>7 DEF FactsChange
  <2>2. edits' \in Nat
    BY <1>2 DEF FactsChange, Edit, RowTypes
  <2> QED BY <1>2, <2>1, <2>2 DEF FactsChange, RowTypes
<1> QED BY <1>1, <1>2

\* Previews and commits.
LEMMA RunTypes ==
    ASSUME RowTypes, NEW r \in Runs,
           \/ \E target \in Targets, prior \in Runs \cup {NoCall} : Preview(r, target, prior)
           \/ CreateOrReplayPreview(r) \/ EvaluateCommit(r) \/ Commit(r)
    PROVE  RowTypes'
<1>1. ASSUME NEW target \in Targets, NEW prior \in Runs \cup {NoCall}, Preview(r, target, prior)
      PROVE  RowTypes'
  BY <1>1, EvaluationType DEF RowTypes, Settings, RunRows, Preview
<1>2. CASE CreateOrReplayPreview(r)
  BY <1>2 DEF CreateOrReplayPreview, RowTypes, NoRun, RunRows
<1>3. CASE EvaluateCommit(r)
  BY <1>3 DEF EvaluateCommit, RowTypes
<1>4. CASE Commit(r) /\ CommitAllowed(r)
  <2>0. /\ settings' = [settings EXCEPT !.authority = runs[r].target, !.version = @ + 1]
        /\ runs' = [runs EXCEPT ![r].status = "committed"]
        /\ settings.version < MaxSwitches
    BY <1>4 DEF Commit
  <2>1. runs[r] \in RunRows
    BY <1>4 DEF CommitAllowed, RowTypes, NoRun
  <2>2. runs' \in [Runs -> RunRows \cup {NoRun}]
    BY <2>0, <2>1 DEF RunRows, RowTypes
  <2>3. settings' \in Settings
    <3>1. runs[r].target \in Targets
      BY <2>1 DEF RunRows
    <3>2. settings.version + 1 \in 1 .. MaxSwitches
      BY <2>0, SwitchConstants DEF RowTypes, Settings
    <3> QED BY <2>0, <3>1, <3>2 DEF RowTypes, Settings
  <2> QED BY <1>4, <2>2, <2>3 DEF Commit, RowTypes
<1>5. CASE Commit(r) /\ ~ CommitAllowed(r)
  BY <1>5 DEF Commit, RowTypes
<1> QED BY <1>1, <1>2, <1>3, <1>4, <1>5

\* The route taken is one of the three executors.
LEMMA RouteType ==
    ASSUME RowTypes, NEW c \in Callers, calls[c].op # NoCall
    PROVE  RouteOf(c) \in Targets \cup {"refused"}
<1>1. calls[c] \in CallRows
  BY DEF RowTypes
<1>2. PersistedOrigins(calls[c].op) \subseteq Targets
  BY <1>1 DEF RowTypes, PersistedOrigins, Origins, CallRows, Targets
<1>3. PolicyRoute(c) \in Targets \cup {"refused"}
  BY <1>1 DEF PolicyRoute, CallRows, Settings, Targets
<1> QED BY <1>2, <1>3 DEF RouteOf

\* Conversation actions and the owner's queue.
LEMMA WorkTypes ==
    ASSUME RowTypes,
           \/ \E c \in Callers :
                 \/ \E op \in Ops : CheckConversationAvailability(c, op)
                 \/ ExecuteConversationAction(c)
                 \/ \E route \in {Calendar, External} : ExecuteBooking(c, route)
                 \/ CreateOrReplay(c)
           \/ \E op \in Ops :
                 \/ SettleExternal(op)
                 \/ \E to \in {"contacted", "resolved", "dismissed"} : Transition(op, to)
    PROVE  RowTypes'
<1>1. ASSUME NEW c \in Callers, NEW op \in Ops, CheckConversationAvailability(c, op)
      PROVE  RowTypes'
  BY <1>1 DEF CheckConversationAvailability, RowTypes, CallRows
<1>2. ASSUME NEW c \in Callers, Hangup(c)
      PROVE  calls' \in [Callers -> CallRows \cup {[op |-> NoCall]}]
  BY <1>2 DEF Hangup, RowTypes
<1>3. ASSUME NEW c \in Callers, ExecuteConversationAction(c)
      PROVE  RowTypes'
  <2>1. calls[c] \in CallRows
    BY <1>3 DEF ExecuteConversationAction, RowTypes
  <2>2. RouteOf(c) # "refused" => calls' \in [Callers -> CallRows \cup {[op |-> NoCall]}]
    BY <1>3, <2>1, RouteType DEF ExecuteConversationAction, RowTypes, CallRows
  <2>3. calls' \in [Callers -> CallRows \cup {[op |-> NoCall]}]
    BY <1>2, <1>3, <2>2 DEF ExecuteConversationAction
  <2> QED BY <1>3, <2>3 DEF ExecuteConversationAction, RowTypes
<1>4. ASSUME NEW c \in Callers, NEW route \in {Calendar, External}, ExecuteBooking(c, route)
      PROVE  RowTypes'
  <2>1. calls[c] \in CallRows
    BY <1>4 DEF ExecuteBooking, Routed, RowTypes
  <2>2. bookings' \in [Ops -> [authority : Targets \cup {"none"}, live : BOOLEAN, version : Nat]]
    <3> DEFINE Row == [authority : Targets \cup {"none"}, live : BOOLEAN, version : Nat]
    <3>1. calls[c].op \in Ops /\ settings.version \in Nat
      BY <2>1 DEF CallRows, RowTypes, Settings
    <3>2. [authority |-> route, live |-> route = External, version |-> settings.version]
              \in Row
      BY <3>1 DEF Targets
    <3>3. bookings \in [Ops -> Row]
      BY DEF RowTypes
    <3> HIDE DEF Row
    <3>4. bookings' \in [Ops -> Row]
      BY <1>4, <3>1, <3>2, <3>3 DEF ExecuteBooking
    <3> QED BY <3>4 DEF Row
  <2>3. calls' \in [Callers -> CallRows \cup {[op |-> NoCall]}]
    BY <1>2, <1>4 DEF ExecuteBooking
  <2> QED BY <1>4, <2>2, <2>3 DEF ExecuteBooking, RowTypes
<1>5. ASSUME NEW c \in Callers, CreateOrReplay(c)
      PROVE  RowTypes'
  BY <1>2, <1>5 DEF CreateOrReplay, Routed, RowTypes, CallRows, Settings, RequestStatuses
<1>6. ASSUME NEW op \in Ops, SettleExternal(op) PROVE RowTypes'
  <2>1. bookings' \in [Ops -> [authority : Targets \cup {"none"}, live : BOOLEAN, version : Nat]]
    <3> DEFINE Row == [authority : Targets \cup {"none"}, live : BOOLEAN, version : Nat]
    <3>1. bookings \in [Ops -> Row]
      BY DEF RowTypes
    <3>2. [bookings[op] EXCEPT !.live = FALSE] \in Row
      BY <3>1
    <3> HIDE DEF Row
    <3>3. bookings' \in [Ops -> Row]
      BY <1>6, <3>1, <3>2 DEF SettleExternal
    <3> QED BY <3>3 DEF Row
  <2> QED BY <1>6, <2>1 DEF SettleExternal, RowTypes
<1>7. ASSUME NEW op \in Ops, NEW to \in {"contacted", "resolved", "dismissed"}, Transition(op, to)
      PROVE  RowTypes'
  <2>1. requests' \in [Ops -> [status : RequestStatuses, target : Targets \cup {"none"},
                               version : Nat]]
    BY <1>7, SMTT(30) DEF Transition, RowTypes, RequestStatuses
  <2> QED BY <1>7, <2>1 DEF Transition, RowTypes
<1> QED BY <1>1, <1>3, <1>4, <1>5, <1>6, <1>7

LEMMA RowTypesStep == RowTypes /\ [SwitchNext]_switchVars => RowTypes'
<1> SUFFICES ASSUME RowTypes, [SwitchNext]_switchVars PROVE RowTypes'
  OBVIOUS
<1>1. CASE UNCHANGED switchVars
  BY <1>1 DEF switchVars, RowTypes
<1>2. CASE SwitchNext
  BY <1>2, EditTypes, RunTypes, WorkTypes DEF SwitchNext
<1> QED BY <1>1, <1>2

-----------------------------------------------------------------------------
\* The owner's requests and the history of the authority.

LEMMA SwitchInvInit == SwitchInit => SwitchInv
<1> SUFFICES ASSUME SwitchInit PROVE SwitchInv
  OBVIOUS
<1>1. RowTypes
  BY RowTypesInit
<1>2. RequestVersions
  BY DEF SwitchInit, RequestVersions, NoRequest
<1>3. Committed = {} /\ settings.version = 1
  BY DEF SwitchInit, Committed, NoRun
<1>4. CommittedIsPast /\ AuthorityHistory
  BY <1>3 DEF SwitchInit, CommittedIsPast, AuthorityHistory
<1> QED BY <1>1, <1>2, <1>4 DEF SwitchInv

\* A request advances by the transitions its status allows.
LEMMA RequestStep ==
    ASSUME SwitchInv, SwitchNext
    PROVE  RequestVersions'
<1>1. CASE requests' = requests
  BY <1>1 DEF SwitchInv, RequestVersions
<1>2. ASSUME NEW c \in Callers, CreateOrReplay(c)
      PROVE  RequestVersions'
  BY <1>1, <1>2 DEF CreateOrReplay, SwitchInv, RowTypes, RequestVersions
<1>3. ASSUME NEW op \in Ops, NEW to \in {"contacted", "resolved", "dismissed"}, Transition(op, to)
      PROVE  RequestVersions'
  BY <1>3 DEF Transition, TransitionAllowed, SwitchInv, RequestVersions, RowTypes
<1>4. requests' = requests \/ (\E c \in Callers : CreateOrReplay(c))
      \/ \E op \in Ops, to \in {"contacted", "resolved", "dismissed"} : Transition(op, to)
  BY DEF SwitchNext, UpdateBookingMode, FactsChange, Preview, CreateOrReplayPreview,
     EvaluateCommit, Commit, CheckConversationAvailability, ExecuteConversationAction,
     ExecuteBooking, SettleExternal
<1> QED BY <1>1, <1>2, <1>3, <1>4

\* Steps that leave the authority alone and commit nothing.
LEMMA HistoryFrame ==
    ASSUME CommittedIsPast, AuthorityHistory,
           Committed' = Committed, \A r \in Committed : runs'[r] = runs[r],
           settings'.version = settings.version, settings'.authority = settings.authority,
           settings'.mode \in AllowedConversationBookingModes(settings.authority)
    PROVE  CommittedIsPast' /\ AuthorityHistory'
<1>1. CommittedIsPast'
  BY DEF CommittedIsPast
<1>2. ASSUME NEW v \in 1 .. settings.version - 1
      PROVE  Cardinality({r \in Committed' : runs'[r].version = v}) = 1
  BY <1>2 DEF AuthorityHistory
<1> QED BY <1>1, <1>2 DEF AuthorityHistory, AllowedConversationBookingModes

(* The switch appends one version to the history: it starts from the       *)
(* authority that is in force.                                             *)
LEMMA CommitHistory ==
    ASSUME SwitchInv, NEW r \in Runs, Commit(r), CommitAllowed(r)
    PROVE  CommittedIsPast' /\ AuthorityHistory'
<1> DEFINE V == settings.version
<1>1. /\ V \in Nat /\ V >= 1 /\ V < MaxSwitches
      /\ runs[r] \in RunRows /\ r \notin Committed
      /\ runs[r].version = V /\ runs[r].source = settings.authority
      /\ settings' = [settings EXCEPT !.authority = runs[r].target, !.version = @ + 1]
      /\ runs' = [runs EXCEPT ![r].status = "committed"]
  BY DEF SwitchInv, RowTypes, Settings, Commit, CommitAllowed, AuthorityUnchanged, Committed, NoRun
<1>2. settings'.version = V + 1 /\ settings'.authority = runs[r].target
      /\ settings'.mode = settings.mode
  BY <1>1 DEF SwitchInv, RowTypes, Settings
<1>3. /\ Committed' = Committed \cup {r}
      /\ \A q \in Committed : runs'[q] = runs[q]
      /\ runs'[r].version = V /\ runs'[r].source = runs[r].source /\ runs'[r].target = runs[r].target
  BY <1>1 DEF Committed, SwitchInv, RowTypes, RunRows
<1>4. \A q \in Committed : runs[q].version \in 1 .. V - 1
  BY DEF SwitchInv, CommittedIsPast
<1> HIDE DEF V
<1>5. CommittedIsPast'
  BY <1>1, <1>2, <1>3, <1>4 DEF CommittedIsPast
<1>6. ASSUME NEW v \in 1 .. settings'.version - 1
      PROVE  Cardinality({q \in Committed' : runs'[q].version = v}) = 1
  <2>1. CASE v = V
    <3>1. {q \in Committed' : runs'[q].version = v} = {r}
      BY <1>1, <1>3, <1>4, <2>1
    <3> QED BY <3>1, FS_Singleton
  <2>2. CASE v # V
    BY <1>1, <1>2, <1>3, <2>2 DEF SwitchInv, AuthorityHistory, V
  <2> QED BY <2>1, <2>2
<1>7. ASSUME NEW q \in Committed', NEW s \in Committed', runs'[s].version = runs'[q].version + 1
      PROVE  runs'[s].source = runs'[q].target
  BY <1>1, <1>3, <1>4, <1>7 DEF SwitchInv, AuthorityHistory, V
<1>8. ASSUME NEW q \in Committed', runs'[q].version = settings'.version - 1
      PROVE  runs'[q].target = settings'.authority
  BY <1>1, <1>2, <1>3, <1>4, <1>8
<1>9. settings'.mode \in AllowedConversationBookingModes(settings'.authority)
  BY <1>2 DEF SwitchInv, RowTypes, Settings, Commit, CommitAllowed, ReadinessFence,
     AllowedConversationBookingModes, OwnerManual, Calendar, External
<1> QED BY <1>5, <1>6, <1>7, <1>8, <1>9 DEF AuthorityHistory

LEMMA HistoryStep ==
    ASSUME SwitchInv, SwitchNext
    PROVE  CommittedIsPast' /\ AuthorityHistory'
<1>1. CommittedIsPast /\ AuthorityHistory
      /\ settings.mode \in AllowedConversationBookingModes(settings.authority)
  BY DEF SwitchInv, AuthorityHistory
<1>2. CASE UNCHANGED <<settings, runs>>
  BY <1>1, <1>2, HistoryFrame DEF Committed
<1>3. ASSUME NEW mode \in Modes, UpdateBookingMode(mode)
      PROVE  CommittedIsPast' /\ AuthorityHistory'
  BY <1>1, <1>3, HistoryFrame DEF UpdateBookingMode, SwitchInv, RowTypes, Settings, Committed
<1>4. ASSUME NEW r \in Runs, r \notin Committed, settings' = settings,
             NEW row, row.status # "committed", runs' = [runs EXCEPT ![r] = row]
      PROVE  CommittedIsPast' /\ AuthorityHistory'
  BY <1>1, <1>4, HistoryFrame DEF Committed, SwitchInv, RowTypes
<1>5. ASSUME NEW r \in Runs, NEW target \in Targets, NEW prior \in Runs \cup {NoCall},
             Preview(r, target, prior)
      PROVE  CommittedIsPast' /\ AuthorityHistory'
  <2> DEFINE row == [status |-> "evaluating", source |-> settings.authority, target |-> target,
                     version |-> settings.version, rollbackOf |-> prior,
                     snapshot |-> EvaluateTarget(target)]
  <2>1. r \notin Committed /\ settings' = settings /\ runs' = [runs EXCEPT ![r] = row]
    BY <1>5 DEF Preview, Committed, NoRun
  <2>2. row.status # "committed"
    OBVIOUS
  <2> HIDE DEF row
  <2> QED BY <1>4, <2>1, <2>2
<1>6. ASSUME NEW r \in Runs, CreateOrReplayPreview(r)
      PROVE  CommittedIsPast' /\ AuthorityHistory'
  <2>1. runs[r] \in RunRows /\ r \notin Committed
    BY <1>6 DEF CreateOrReplayPreview, Committed, SwitchInv, RowTypes, NoRun
  <2>2. PICK row : runs' = [runs EXCEPT ![r] = row] /\ row.status # "committed"
    <3>1. /\ NoRun.status # "committed"
          /\ \A st \in {"preview_ready", "preview_blocked"} :
                 [runs[r] EXCEPT !.status = st].status # "committed"
      BY <2>1 DEF RunRows, NoRun
    <3>2. CASE AuthorityUnchanged(r)
      <4> DEFINE row == [runs[r] EXCEPT !.status = IF runs[r].snapshot.ready THEN "preview_ready"
                                                   ELSE "preview_blocked"]
      <4>1. runs' = [runs EXCEPT ![r] = row]
        BY <1>6, <3>2 DEF CreateOrReplayPreview
      <4>2. row.status # "committed"
        BY <3>1
      <4> HIDE DEF row
      <4> QED BY <4>1, <4>2
    <3>3. CASE ~ AuthorityUnchanged(r)
      BY <1>6, <3>1, <3>3 DEF CreateOrReplayPreview
    <3> QED BY <3>2, <3>3
  <2> QED BY <1>4, <1>6, <2>1, <2>2 DEF CreateOrReplayPreview
<1>7. ASSUME NEW r \in Runs, Commit(r)
      PROVE  CommittedIsPast' /\ AuthorityHistory'
  BY <1>2, <1>7, CommitHistory DEF Commit
<1>8. \/ UNCHANGED <<settings, runs>>
      \/ \E mode \in Modes : UpdateBookingMode(mode)
      \/ \E r \in Runs :
            \/ \E target \in Targets, prior \in Runs \cup {NoCall} : Preview(r, target, prior)
            \/ CreateOrReplayPreview(r) \/ Commit(r)
  BY DEF SwitchNext, FactsChange, EvaluateCommit, CheckConversationAvailability,
     ExecuteConversationAction, ExecuteBooking, CreateOrReplay, SettleExternal, Transition
<1> QED BY <1>2, <1>3, <1>5, <1>6, <1>7, <1>8

LEMMA SwitchInvStep == SwitchInv /\ [SwitchNext]_switchVars => SwitchInv'
<1> SUFFICES ASSUME SwitchInv, [SwitchNext]_switchVars PROVE SwitchInv'
  OBVIOUS
<1>1. RowTypes'
  BY RowTypesStep DEF SwitchInv
<1>2. CASE UNCHANGED switchVars
  BY <1>1, <1>2, HistoryFrame DEF switchVars, SwitchInv, AuthorityHistory, Committed,
     RequestVersions
<1>3. CASE SwitchNext
  BY <1>1, <1>3, RequestStep, HistoryStep DEF SwitchInv
<1> QED BY <1>2, <1>3

-----------------------------------------------------------------------------
\* Theorems.

\* The inductive invariant holds of every reachable state of the switch.
THEOREM SwitchInvariant == SwitchSpec => []SwitchInv
<1> QED BY SwitchInvInit, SwitchInvStep, PTL DEF SwitchSpec

\* The rows of the switch keep their types and bounds.
THEOREM SwitchTypeCorrect == SwitchSpec => []SwitchTypeOK
<1>1. SwitchInv => SwitchTypeOK
  <2> SUFFICES ASSUME SwitchInv PROVE SwitchTypeOK
    OBVIOUS
  <2>1. \A r \in Runs : runs[r].status \in
           {"none", "evaluating", "preview_ready", "preview_blocked", "committed"}
    BY DEF SwitchInv, RowTypes, RunRows, NoRun
  <2>2. \A op \in Ops : bookings[op].authority \in Targets \cup {"none"}
    BY DEF SwitchInv, RowTypes
  <2>3. \A op \in Ops : requests[op].version \in 0 .. 3
    <3> SUFFICES ASSUME NEW op \in Ops PROVE requests[op].version \in 0 .. 3
      OBVIOUS
    <3>1. requests[op].version \in Nat /\ requests[op].version <= 3
      BY DEF SwitchInv, RowTypes, RequestVersions
    <3> QED BY <3>1
  <2> QED BY <2>1, <2>2, <2>3 DEF SwitchTypeOK, SwitchInv, RowTypes, Settings
<1> QED BY <1>1, SwitchInvariant, PTL

(* However previews, commits and edits interleave, the committed switches  *)
(* are the history of the authority, without a gap and without a fork, and *)
(* the booking mode is one the authority in force can serve.               *)
THEOREM HistoryIsLinear == SwitchSpec => []AuthorityHistory
<1>1. SwitchInv => AuthorityHistory
  BY DEF SwitchInv
<1> QED BY <1>1, SwitchInvariant, PTL

(* A commit changes the authority only with no provider call open and to a *)
(* target that is ready, with the evidence the preview had, at that moment.*)
THEOREM SwitchesAreDrained == SwitchSpec => SwitchIsDrained
<1> DEFINE Drained ==
      settings'.authority # settings.authority =>
          /\ ~ LiveExternalExecution
          /\ EvaluateTarget(settings'.authority).ready
          /\ \E r \in Runs : /\ runs[r].status # "committed"
                             /\ runs'[r].status = "committed"
                             /\ EvaluateTarget(runs[r].target).evidence
                                    = runs[r].snapshot.evidence
<1>1. ASSUME SwitchInv, NEW r \in Runs, Commit(r), CommitAllowed(r)
      PROVE  Drained
  <2>1. runs[r] \in RunRows /\ runs[r].target \in Targets
    BY <1>1 DEF CommitAllowed, SwitchInv, RowTypes, RunRows, NoRun
  <2>2. settings'.authority = runs[r].target /\ runs'[r].status = "committed"
    <3>1. /\ settings' = [settings EXCEPT !.authority = runs[r].target, !.version = @ + 1]
          /\ runs' = [runs EXCEPT ![r].status = "committed"]
      BY <1>1 DEF Commit
    <3>2. settings \in Settings /\ runs \in [Runs -> RunRows \cup {NoRun}]
      BY <1>1 DEF SwitchInv, RowTypes
    <3>3. settings'.authority = runs[r].target
      BY <3>1, <3>2 DEF Settings
    <3>4. runs'[r].status = "committed"
      BY <2>1, <3>1, <3>2 DEF RunRows
    <3> QED BY <3>3, <3>4
  <2>3. ~ LiveExternalExecution /\ runs[r].status # "committed"
    BY <1>1 DEF CommitAllowed
  <2>4. facts.services # 0 => facts.services > 0
    BY <1>1 DEF SwitchInv, RowTypes
  <2>5. EvaluateTarget(runs[r].target).ready
        /\ EvaluateTarget(runs[r].target).evidence = runs[r].snapshot.evidence
    BY <1>1, <2>1, <2>4 DEF CommitAllowed, ReadinessFence, EvaluateTarget, OwnerManualReadiness,
       CalendarReadiness, ProviderReadiness, Targets, Calendar, External, OwnerManual
  <2> QED BY <2>2, <2>3, <2>5
<1>2. ASSUME SwitchInv, NEW mode \in Modes, UpdateBookingMode(mode)
      PROVE  settings'.authority = settings.authority
  BY <1>2 DEF UpdateBookingMode, SwitchInv, RowTypes, Settings
<1>3. SwitchInv /\ [SwitchNext]_switchVars => [Drained]_switchVars
  <2> SUFFICES ASSUME SwitchInv, SwitchNext PROVE Drained
    OBVIOUS
  <2>1. \/ settings' = settings
        \/ \E mode \in Modes : UpdateBookingMode(mode)
        \/ \E r \in Runs : Commit(r) /\ CommitAllowed(r)
    BY DEF SwitchNext, FactsChange, Preview, CreateOrReplayPreview, EvaluateCommit, Commit,
       CheckConversationAvailability, ExecuteConversationAction, ExecuteBooking, CreateOrReplay,
       SettleExternal, Transition
  <2> HIDE DEF Drained
  <2>2. settings'.authority = settings.authority => Drained
    BY DEF Drained
  <2> QED BY <1>1, <1>2, <2>1, <2>2
<1>4. SwitchSpec => [][Drained]_switchVars
  BY <1>3, SwitchInvariant, PTL DEF SwitchSpec
<1> QED BY <1>4 DEF SwitchIsDrained

(* A booking is created by the authority in force in the epoch the caller  *)
(* was quoted, a request only while approval is required, and what the     *)
(* owner has closed stays closed.                                          *)
THEOREM WorkIsAuthorized == SwitchSpec => WorkFollowsPolicy
<1> DEFINE Follows(op) ==
      /\ bookings[op] = NoBooking /\ bookings'[op] # NoBooking =>
             /\ bookings'[op].authority = settings.authority
             /\ \E c \in Callers : calls[c].op = op
                                   /\ calls[c].reviewed.version = settings.version
      /\ requests[op] = NoRequest /\ requests'[op] # NoRequest =>
             /\ settings.mode = "pending_approval"
             /\ requests'[op].target = settings.authority
      /\ requests[op].status \in {"resolved", "dismissed"} =>
             requests'[op] = requests[op]
<1>1. ASSUME SwitchInv, NEW c \in Callers, NEW route \in {Calendar, External},
             ExecuteBooking(c, route), NEW op \in Ops
      PROVE  Follows(op)
  BY <1>1 DEF ExecuteBooking, SwitchInv, RowTypes, CreateFence
<1>2. ASSUME SwitchInv, NEW c \in Callers, CreateOrReplay(c), NEW op \in Ops
      PROVE  Follows(op)
  BY <1>2 DEF CreateOrReplay, SwitchInv, RowTypes, RequestFence, NoRequest
<1>3. ASSUME SwitchInv, NEW o \in Ops, NEW to \in {"contacted", "resolved", "dismissed"},
             Transition(o, to), NEW op \in Ops
      PROVE  Follows(op)
  BY <1>3 DEF Transition, TransitionAllowed, NoRequest, SwitchInv, RowTypes
<1>4. ASSUME SwitchInv, NEW o \in Ops, SettleExternal(o), NEW op \in Ops
      PROVE  Follows(op)
  <2>1. requests' = requests
    BY <1>4 DEF SettleExternal
  <2>2. bookings[op] = NoBooking => bookings'[op] = bookings[op]
    <3>1. ~ NoBooking.live
      BY DEF NoBooking
    <3>2. bookings[o].live /\ bookings' = [bookings EXCEPT ![o].live = FALSE]
      BY <1>4 DEF SettleExternal
    <3>3. bookings[o] # NoBooking
      BY <3>1, <3>2
    <3> QED BY <1>4, <3>2, <3>3 DEF SwitchInv, RowTypes
  <2> QED BY <2>1, <2>2
<1>5. SwitchInv /\ [SwitchNext]_switchVars => [\A op \in Ops : Follows(op)]_switchVars
  <2> SUFFICES ASSUME SwitchInv, SwitchNext, NEW op \in Ops PROVE Follows(op)
    OBVIOUS
  <2>1. \/ UNCHANGED <<bookings, requests>>
        \/ \E c \in Callers : CreateOrReplay(c)
             \/ \E route \in {Calendar, External} : ExecuteBooking(c, route)
        \/ \E o \in Ops : SettleExternal(o)
             \/ \E to \in {"contacted", "resolved", "dismissed"} : Transition(o, to)
    BY DEF SwitchNext, UpdateBookingMode, FactsChange, Preview, CreateOrReplayPreview,
       EvaluateCommit, Commit, CheckConversationAvailability, ExecuteConversationAction
  <2>2. CASE UNCHANGED <<bookings, requests>>
    BY <2>2
  <2> HIDE DEF Follows
  <2> QED BY <1>1, <1>2, <1>3, <1>4, <2>1, <2>2
<1>6. SwitchSpec => [][\A op \in Ops : Follows(op)]_switchVars
  BY <1>5, SwitchInvariant, PTL DEF SwitchSpec
<1> QED BY <1>6 DEF WorkFollowsPolicy

-----------------------------------------------------------------------------
\* The two together.

(* A behaviour of the two is a behaviour of each: a step of one leaves the *)
(* other's rows alone.                                                     *)
THEOREM CalendarIsKept == MCSpec => Spec
<1>1. MCInit => Init
  BY DEF MCInit
<1>2. [MCNext]_<<part, vars, switchVars>> => [Next]_vars
  BY DEF MCNext
<1> QED BY <1>1, <1>2, PTL DEF MCSpec, Spec

\* The same of the switch of authority.
THEOREM SwitchIsKept == MCSpec => SwitchSpec
<1>1. MCInit => SwitchInit
  BY DEF MCInit
<1>2. [MCNext]_<<part, vars, switchVars>> => [SwitchNext]_switchVars
  BY DEF MCNext
<1> QED BY <1>1, <1>2, PTL DEF MCSpec, SwitchSpec

\* The tables of both hold rows of the kinds they were made for.
THEOREM SchedulingTypeCorrect == MCSpec => []SchedulingTypeOK
<1>1. TypeOK /\ SwitchTypeOK => SchedulingTypeOK
  BY DEF SchedulingTypeOK
<1> QED BY <1>1, CalendarIsKept, SwitchIsKept, CalendarTypeCorrect, SwitchTypeCorrect, PTL

\* No staff member is booked twice at one instant.
THEOREM SchedulingNeverDoubleBooks == MCSpec => []NoStaffOverlap
BY CalendarIsKept, StaffAreNeverDoubleBooked, PTL

(* The rows of an appointment say the same of it, and the committed        *)
(* switches are the history of the authority in force.                     *)
THEOREM SchedulingBooksAgree == MCSpec => []BooksAgree
<1>1. RowsAgree /\ AuthorityHistory => BooksAgree
  BY DEF BooksAgree
<1> QED BY <1>1, CalendarIsKept, SwitchIsKept, CalendarRowsAgree, HistoryIsLinear, PTL

(* Nothing is written but under the authority, the configuration and the   *)
(* mode in force, and the authority changes only once it is drained.       *)
THEOREM SchedulingIsFenced == MCSpec => SwitchIsFenced
<1>1. MCSpec => WritesAreFenced /\ SwitchIsDrained /\ WorkFollowsPolicy
  BY CalendarIsKept, SwitchIsKept, CalendarWritesAreFenced, SwitchesAreDrained,
     WorkIsAuthorized
<1> QED BY <1>1 DEF SwitchIsFenced

\* The calendar implements the ledger of cells beside the switch too.
THEOREM SchedulingImplementsLedger == MCSpec => ImplementsLedger
BY CalendarIsKept, CalendarImplementsLedger
=============================================================================
