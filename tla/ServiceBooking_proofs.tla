------------------------- MODULE ServiceBooking_proofs -------------------------
(***************************************************************************)
(* What the locks of the service transactions are worth, for any number of *)
(* handlers, services, groups and pieces: between the assessment and the   *)
(* writing nothing it relied on changes.                                   *)
(***************************************************************************)
EXTENDS ServiceBooking, FiniteSetTheorems, WellFoundedInduction, TLAPS

-----------------------------------------------------------------------------
(* Sums *)

\* Every set of numbers has a least one: induction without a predicate to instantiate.
LEMMA Least == ASSUME NEW T \in SUBSET Nat, T # {} PROVE \E n \in T : \A m \in T : n <= m
<1>1. IsWellFoundedOn(OpToRel(<, Nat), Nat)
  BY NatLessThanWellFounded
<1>2. PICK n \in T : \A m \in T : ~(<<m, n>> \in OpToRel(<, Nat))
  BY <1>1, WFMin
<1>3. \A m \in T : ~(m < n)
  BY <1>2 DEF OpToRel
<1> QED BY <1>3

Pick(s) == CHOOSE x \in s : TRUE
Rest(s) == s \ {Pick(s)}
Countable(S) == IsFiniteSet(S) /\ \A x \in S : x.qty \in Nat

\* The function by which the fold over S is defined.
SumOver(S) == CHOOSE sum : sum = [s \in SUBSET S |-> IF s = {} THEN 0 ELSE Pick(s).qty + sum[Rest(s)]]

\* f adds up the members of D.
AddsUp(f, D) == \A s \in D : f[s] = IF s = {} THEN 0 ELSE Pick(s).qty + f[Rest(s)]

LEMMA QuantityIsSum == ASSUME NEW S PROVE Quantity(S) = SumOver(S)[S]
  BY DEF Quantity, MapThenSumSet, MapThenFoldSet, SumOver, Pick, Rest

LEMMA RestIsLess ==
  ASSUME NEW S, IsFiniteSet(S), NEW s \in SUBSET S, s # {}
  PROVE  /\ Pick(s) \in s /\ Pick(s) \in S /\ Rest(s) \in SUBSET S /\ Rest(s) \subseteq s
         /\ Cardinality(s) \in Nat /\ Cardinality(Rest(s)) \in Nat
         /\ Cardinality(Rest(s)) = Cardinality(s) - 1
<1>1. Pick(s) \in s
  BY DEF Pick
<1>2. IsFiniteSet(s)
  BY FS_Subset
<1>3. Cardinality(Rest(s)) = Cardinality(s) - 1 /\ IsFiniteSet(Rest(s))
  BY <1>1, <1>2, FS_RemoveElement DEF Rest
<1>4. Cardinality(s) \in Nat /\ Cardinality(Rest(s)) \in Nat
  BY <1>2, <1>3, FS_CardinalityType
<1> QED
  BY <1>1, <1>3, <1>4 DEF Rest

\* The fold is defined: there is a function that adds up all small subsets.
LEMMA SumExists ==
  ASSUME NEW S, Countable(S)
  PROVE  \E f \in [SUBSET S -> Nat] : AddsUp(f, SUBSET S)
<1> DEFINE Small(n) == {s \in SUBSET S : Cardinality(s) <= n}
           Bad == {n \in Nat : ~\E f \in [Small(n) -> Nat] : AddsUp(f, Small(n))}
<1>1. IsFiniteSet(S) /\ \A x \in S : x.qty \in Nat
  BY DEF Countable
<1>2. \A s \in SUBSET S : Cardinality(s) \in Nat /\ Cardinality(s) <= Cardinality(S)
                          /\ (Cardinality(s) = 0 => s = {})
  BY <1>1, FS_Subset, FS_CardinalityType, FS_EmptySet
<1>3. Bad = {}
  <2> SUFFICES ASSUME Bad # {} PROVE FALSE
    OBVIOUS
  <2>1. PICK n \in Bad : \A m \in Bad : n <= m
    <3>1. Bad \in SUBSET Nat
      OBVIOUS
    <3> HIDE DEF Bad
    <3> QED BY <3>1, Least
  <2>2. n \in Nat /\ ~\E f \in [Small(n) -> Nat] : AddsUp(f, Small(n))
    OBVIOUS
  <2>3. CASE n = 0
    <3> DEFINE f == [s \in Small(0) |-> 0]
    <3>1. f \in [Small(0) -> Nat] /\ AddsUp(f, Small(0))
      BY <1>2 DEF AddsUp
    <3> QED BY <2>2, <2>3, <3>1
  <2>4. CASE n # 0
    <3>1. n - 1 \in Nat /\ ~(n <= n - 1)
      BY <2>2, <2>4
    <3>2. n - 1 \notin Bad
      BY <2>1, <3>1
    <3>3. PICK f \in [Small(n - 1) -> Nat] : AddsUp(f, Small(n - 1))
      BY <3>1, <3>2
    <3> DEFINE g == [s \in Small(n) |-> IF s = {} THEN 0 ELSE Pick(s).qty + f[Rest(s)]]
    <3>4. \A s \in Small(n) : s # {} => Rest(s) \in Small(n - 1) /\ Rest(s) \in Small(n) /\ Pick(s).qty \in Nat
      BY <1>1, <2>2, RestIsLess
    <3>5. g \in [Small(n) -> Nat]
      <4>1. \A s \in Small(n) : s # {} => Pick(s).qty + f[Rest(s)] \in Nat
        BY <3>3, <3>4
      <4> QED BY <4>1
    <3>6. \A s \in Small(n - 1) : s \in Small(n) /\ g[s] = f[s]
      BY <1>2, <2>2, <3>3 DEF AddsUp
    <3>7. AddsUp(g, Small(n))
      BY <3>4, <3>6 DEF AddsUp
    <3> QED BY <2>2, <3>5, <3>7
  <2> QED BY <2>3, <2>4
<1>4. Cardinality(S) \in Nat /\ Small(Cardinality(S)) = SUBSET S
  BY <1>1, <1>2, FS_CardinalityType
<1>5. Cardinality(S) \notin Bad
  BY <1>3
<1> QED
  BY <1>4, <1>5

LEMMA SumIsUnique ==
  ASSUME NEW S, Countable(S), NEW f, NEW g, AddsUp(f, SUBSET S), AddsUp(g, SUBSET S)
  PROVE  \A s \in SUBSET S : f[s] = g[s]
<1> DEFINE Bad == {n \in Nat : \E s \in SUBSET S : Cardinality(s) = n /\ f[s] # g[s]}
<1>1. Bad = {}
  <2> SUFFICES ASSUME Bad # {} PROVE FALSE
    OBVIOUS
  <2>1. PICK n \in Bad : \A m \in Bad : n <= m
    <3>1. Bad \in SUBSET Nat
      OBVIOUS
    <3> HIDE DEF Bad
    <3> QED BY <3>1, Least
  <2>2. PICK s \in SUBSET S : n \in Nat /\ Cardinality(s) = n /\ f[s] # g[s]
    OBVIOUS
  <2>3. s # {}
    BY <2>2 DEF AddsUp
  <2>4. Cardinality(Rest(s)) \in Nat /\ ~(n <= Cardinality(Rest(s))) /\ Rest(s) \in SUBSET S
    BY <2>2, <2>3, RestIsLess DEF Countable
  <2>5. f[Rest(s)] = g[Rest(s)]
    BY <2>1, <2>4
  <2> QED BY <2>2, <2>3, <2>5 DEF AddsUp
<1>2. \A s \in SUBSET S : Cardinality(s) \in Nat
  BY FS_Subset, FS_CardinalityType DEF Countable
<1> QED
  BY <1>1, <1>2

LEMMA SumAddsUp ==
  ASSUME NEW S, Countable(S)
  PROVE  \A s \in SUBSET S : SumOver(S)[s] \in Nat /\ AddsUp(SumOver(S), SUBSET S)
<1>1. PICK f \in [SUBSET S -> Nat] : AddsUp(f, SUBSET S)
  BY SumExists
<1>2. f = [s \in SUBSET S |-> IF s = {} THEN 0 ELSE Pick(s).qty + f[Rest(s)]]
  BY <1>1 DEF AddsUp
<1>3. SumOver(S) = [s \in SUBSET S |-> IF s = {} THEN 0 ELSE Pick(s).qty + SumOver(S)[Rest(s)]]
  BY <1>2 DEF SumOver
<1> DEFINE h == SumOver(S)
<1> HIDE DEF h
<1>4. AddsUp(h, SUBSET S)
  BY <1>3 DEF AddsUp, h
<1> QED
  BY <1>1, <1>4, SumIsUnique DEF h

LEMMA SubsetCountable == ASSUME NEW S, Countable(S), NEW T \in SUBSET S PROVE Countable(T)
  BY FS_Subset DEF Countable

\* The sum of a set is that of one member and the rest.
LEMMA QuantityStep ==
  ASSUME NEW S, Countable(S)
  PROVE  /\ Quantity(S) \in Nat
         /\ S = {} => Quantity(S) = 0
         /\ S # {} => Quantity(S) = Pick(S).qty + Quantity(Rest(S))
<1>1. AddsUp(SumOver(S), SUBSET S) /\ \A s \in SUBSET S : SumOver(S)[s] \in Nat
  BY SumAddsUp
<1>2. ASSUME S # {} PROVE SumOver(S)[Rest(S)] = SumOver(Rest(S))[Rest(S)]
  <2>1. Rest(S) \in SUBSET S /\ Countable(Rest(S))
    BY SubsetCountable DEF Rest
  <2>2. AddsUp(SumOver(Rest(S)), SUBSET Rest(S))
    BY <2>1, SumAddsUp
  <2>3. AddsUp(SumOver(S), SUBSET Rest(S))
    BY <1>1, <2>1 DEF AddsUp
  <2> QED BY <2>1, <2>2, <2>3, SumIsUnique
<1> QED
  BY <1>1, <1>2, QuantityIsSum DEF AddsUp

\* Any member may be taken out first: the order of the fold does not matter.
LEMMA QuantityWithout ==
  ASSUME NEW S, Countable(S), NEW x \in S
  PROVE  Quantity(S) = x.qty + Quantity(S \ {x})
<1> DEFINE Bad == {n \in Nat : \E s \in SUBSET S, y \in S :
                     y \in s /\ Cardinality(s) = n /\ Quantity(s) # y.qty + Quantity(s \ {y})}
<1>1. \A s \in SUBSET S : Countable(s) /\ IsFiniteSet(s) /\ Cardinality(s) \in Nat /\ Quantity(s) \in Nat
  BY SubsetCountable, FS_CardinalityType, QuantityStep DEF Countable
<1>2. Bad = {}
  <2> SUFFICES ASSUME Bad # {} PROVE FALSE
    OBVIOUS
  <2>1. PICK n \in Bad : \A m \in Bad : n <= m
    <3>1. Bad \in SUBSET Nat
      OBVIOUS
    <3> HIDE DEF Bad
    <3> QED BY <3>1, Least
  <2>2. PICK s \in SUBSET S, y \in S : /\ y \in s /\ n \in Nat /\ Cardinality(s) = n
                                       /\ Quantity(s) # y.qty + Quantity(s \ {y})
    OBVIOUS
  <2> DEFINE p == Pick(s)
             r == Rest(s)
  <2>3. /\ p \in s /\ p \in S /\ r \in SUBSET S /\ r = s \ {p} /\ Quantity(s) = p.qty + Quantity(r)
        /\ Cardinality(r) \in Nat /\ ~(n <= Cardinality(r))
    BY <1>1, <2>2, RestIsLess, QuantityStep DEF Rest
  <2>9. \A t \in SUBSET S : \A z \in t : ~(n <= Cardinality(t)) => Quantity(t) = z.qty + Quantity(t \ {z})
    BY <1>1, <2>1
  <2>4. p # y
    BY <2>2, <2>3
  <2>5. Quantity(r) = y.qty + Quantity(r \ {y})
    <3>1. y \in r
      BY <2>2, <2>3, <2>4
    <3> QED BY <2>9, <2>3, <3>1
  <2>6. Quantity(s \ {y}) = p.qty + Quantity((s \ {y}) \ {p})
    <3>1. p \in s \ {y} /\ s \ {y} \in SUBSET S
      BY <2>3, <2>4
    <3>2. Cardinality(s \ {y}) \in Nat /\ ~(n <= Cardinality(s \ {y}))
      BY <1>1, <2>2, FS_RemoveElement
    <3> QED BY <2>9, <3>1, <3>2
  <2>7. (s \ {y}) \ {p} = r \ {y}
    BY <2>3
  <2>8. y.qty \in Nat /\ p.qty \in Nat /\ Quantity(r \ {y}) \in Nat
    BY <1>1, <2>3 DEF Countable
  <2>10. Quantity(s \ {y}) = p.qty + Quantity(r \ {y})
    BY <2>6, <2>7
  <2> DEFINE a == y.qty
             b == p.qty
             q == Quantity(r \ {y})
  <2>11. Quantity(s) = b + (a + q) /\ y.qty + Quantity(s \ {y}) = a + (b + q)
    BY <2>3, <2>5, <2>10
  <2>12. a \in Nat /\ b \in Nat /\ q \in Nat
    BY <2>8
  <2> HIDE DEF p, r, a, b, q
  <2>13. b + (a + q) = a + (b + q)
    BY <2>12
  <2> QED BY <2>2, <2>11, <2>13
<1> QED
  BY <1>1, <1>2

LEMMA QuantityWith ==
  ASSUME NEW S, Countable(S), NEW x, x.qty \in Nat
  PROVE  Quantity(S \cup {x}) <= Quantity(S) + x.qty /\ Countable(S \cup {x})
<1>1. Countable(S \cup {x})
  BY FS_AddElement DEF Countable
<1>2. Quantity(S) \in Nat
  BY QuantityStep
<1>3. CASE x \in S
  <2>1. S \cup {x} = S
    BY <1>3
  <2>2. Quantity(S) <= Quantity(S) + x.qty
    BY <1>2
  <2> QED BY <1>1, <2>1, <2>2
<1>4. CASE x \notin S
  <2>1. Quantity(S \cup {x}) = x.qty + Quantity((S \cup {x}) \ {x})
    BY <1>1, QuantityWithout
  <2>2. (S \cup {x}) \ {x} = S
    BY <1>4
  <2>3. Quantity(S \cup {x}) = x.qty + Quantity(S)
    BY <2>1, <2>2
  <2>4. x.qty + Quantity(S) <= Quantity(S) + x.qty
    BY <1>2
  <2> QED BY <1>1, <2>3, <2>4
<1> QED
  BY <1>3, <1>4

LEMMA QuantityOfPart ==
  ASSUME NEW S, Countable(S), NEW T \in SUBSET S
  PROVE  Quantity(T) <= Quantity(S)
<1> DEFINE Bad == {n \in Nat : \E s \in SUBSET S : T \subseteq s /\ Cardinality(s) = n /\ ~(Quantity(T) <= Quantity(s))}
<1>1. \A s \in SUBSET S : Countable(s) /\ IsFiniteSet(s) /\ Cardinality(s) \in Nat /\ Quantity(s) \in Nat
  BY SubsetCountable, FS_CardinalityType, QuantityStep DEF Countable
<1>2. Bad = {}
  <2> SUFFICES ASSUME Bad # {} PROVE FALSE
    OBVIOUS
  <2>1. PICK n \in Bad : \A m \in Bad : n <= m
    <3>1. Bad \in SUBSET Nat
      OBVIOUS
    <3> HIDE DEF Bad
    <3> QED BY <3>1, Least
  <2>2. PICK s \in SUBSET S : n \in Nat /\ T \subseteq s /\ Cardinality(s) = n /\ ~(Quantity(T) <= Quantity(s))
    OBVIOUS
  <2>3. PICK x \in s : x \notin T
    <3>1. T # s
      BY <1>1, <2>2
    <3> QED BY <2>2, <3>1
  <2>4. s \ {x} \in SUBSET S /\ T \subseteq s \ {x}
    BY <2>2, <2>3
  <2>5. Cardinality(s \ {x}) \in Nat /\ ~(n <= Cardinality(s \ {x}))
    BY <1>1, <2>2, <2>3, FS_RemoveElement
  <2>6. Quantity(T) <= Quantity(s \ {x})
    BY <2>1, <2>4, <2>5
  <2>7. Quantity(s) = x.qty + Quantity(s \ {x}) /\ x.qty \in Nat
    BY <1>1, QuantityWithout DEF Countable
  <2>8. Quantity(T) \in Nat /\ Quantity(s) \in Nat /\ Quantity(s \ {x}) \in Nat
    BY <1>1, <2>4
  <2> QED BY <2>2, <2>6, <2>7, <2>8
<1> QED
  BY <1>1, <1>2

\* A sum of ones counts.
LEMMA QuantityOfOnes ==
  ASSUME NEW S, IsFiniteSet(S), \A x \in S : x.qty = 1
  PROVE  Quantity(S) = Cardinality(S)
<1> DEFINE Bad == {n \in Nat : \E s \in SUBSET S : Cardinality(s) = n /\ Quantity(s) # n}
<1>1. Countable(S)
  BY DEF Countable
<1>2. \A s \in SUBSET S : Countable(s) /\ IsFiniteSet(s) /\ Cardinality(s) \in Nat
  BY <1>1, SubsetCountable, FS_CardinalityType DEF Countable
<1>3. Bad = {}
  <2> SUFFICES ASSUME Bad # {} PROVE FALSE
    OBVIOUS
  <2>1. PICK n \in Bad : \A m \in Bad : n <= m
    <3>1. Bad \in SUBSET Nat
      OBVIOUS
    <3> HIDE DEF Bad
    <3> QED BY <3>1, Least
  <2>2. PICK s \in SUBSET S : n \in Nat /\ Cardinality(s) = n /\ Quantity(s) # n
    OBVIOUS
  <2>3. s # {}
    BY <1>2, <2>2, QuantityStep, FS_EmptySet
  <2>4. Cardinality(Rest(s)) \in Nat /\ Cardinality(Rest(s)) = n - 1 /\ Rest(s) \in SUBSET S /\ Pick(s).qty = 1
    BY <2>2, <2>3, RestIsLess
  <2>5. Quantity(Rest(s)) = n - 1
    BY <2>1, <2>2, <2>4
  <2>6. Quantity(s) = Pick(s).qty + Quantity(Rest(s))
    BY <1>2, <2>3, QuantityStep
  <2> QED BY <2>2, <2>4, <2>5, <2>6
<1> QED
  BY <1>2, <1>3

-----------------------------------------------------------------------------
(* Places in an order *)

Below(f, S, x) == {y \in S : f[y] < f[x]}

\* f numbers the members of S differently.
Numbers(f, S) == (\A x \in S : f[x] \in Nat) /\ \A x, y \in S : f[x] = f[y] => x = y

\* Counting the smaller ones numbers a finite set without gaps, in the same order.
LEMMA Places ==
  ASSUME NEW S, IsFiniteSet(S), NEW f, Numbers(f, S)
  PROVE  /\ \A x \in S : Cardinality(Below(f, S, x)) \in 0 .. Cardinality(S) - 1
         /\ \A x, y \in S : f[x] < f[y] <=> Cardinality(Below(f, S, x)) < Cardinality(Below(f, S, y))
         /\ \A n \in 0 .. Cardinality(S) - 1 : \E x \in S : Cardinality(Below(f, S, x)) = n
         /\ Cardinality(S) \in Nat
<1> DEFINE place(x) == Cardinality(Below(f, S, x))
           N == Cardinality(S)
<1>1. N \in Nat
  BY FS_CardinalityType
<1>2. \A x \in S : /\ IsFiniteSet(Below(f, S, x)) /\ place(x) \in Nat /\ place(x) <= N
                   /\ Below(f, S, x) \in SUBSET S /\ (place(x) = N => Below(f, S, x) = S)
  <2> SUFFICES ASSUME NEW x \in S
               PROVE  /\ IsFiniteSet(Below(f, S, x)) /\ place(x) \in Nat /\ place(x) <= N
                      /\ Below(f, S, x) \in SUBSET S /\ (place(x) = N => Below(f, S, x) = S)
    OBVIOUS
  <2>1. Below(f, S, x) \in SUBSET S
    BY DEF Below
  <2> QED BY <2>1, FS_Subset, FS_CardinalityType
<1>3. \A x \in S : place(x) \in 0 .. N - 1
  <2> SUFFICES ASSUME NEW x \in S PROVE place(x) \in 0 .. N - 1
    OBVIOUS
  <2>1. x \notin Below(f, S, x)
    BY DEF Below, Numbers
  <2>2. place(x) # N
    BY <1>2, <2>1
  <2> HIDE DEF place, N
  <2> QED BY <1>1, <1>2, <2>2
<1>4. ASSUME NEW x \in S, NEW y \in S, f[x] < f[y] PROVE place(x) < place(y)
  <2>1. Below(f, S, x) \in SUBSET Below(f, S, y)
    BY <1>4 DEF Below, Numbers
  <2>2. x \in Below(f, S, y) /\ x \notin Below(f, S, x)
    BY <1>4 DEF Below, Numbers
  <2>3. place(x) <= place(y) /\ place(x) # place(y)
    BY <1>2, <2>1, <2>2, FS_Subset
  <2> HIDE DEF place
  <2> QED BY <1>2, <2>3
<1>5. \A x, y \in S : f[x] < f[y] <=> place(x) < place(y)
  <2> SUFFICES ASSUME NEW x \in S, NEW y \in S PROVE f[x] < f[y] <=> place(x) < place(y)
    OBVIOUS
  <2>1. CASE f[x] < f[y]
    BY <1>4, <2>1
  <2>2. CASE f[y] < f[x]
    <3>1. place(y) < place(x)
      BY <1>4, <2>2
    <3> HIDE DEF place
    <3> QED BY <1>2, <2>2, <3>1 DEF Numbers
  <2>3. CASE f[x] = f[y]
    <3>1. x = y
      BY <2>3 DEF Numbers
    <3> HIDE DEF place
    <3> QED BY <1>2, <2>3, <3>1 DEF Numbers
  <2> QED BY <2>1, <2>2, <2>3 DEF Numbers
<1>6. \A x, y \in S : place(x) = place(y) => x = y
  <2> SUFFICES ASSUME NEW x \in S, NEW y \in S, place(x) = place(y) PROVE x = y
    OBVIOUS
  <2>1. ~(place(x) < place(y)) /\ ~(place(y) < place(x))
    <3> HIDE DEF place
    <3> QED BY <1>2
  <2>2. ~(f[x] < f[y]) /\ ~(f[y] < f[x])
    BY <1>5, <2>1
  <2> QED BY <2>2 DEF Numbers
<1> DEFINE g == [x \in S |-> place(x)]
<1>7. g \in Injection(S, 0 .. N - 1)
  BY <1>3, <1>6 DEF Injection, IsInjective
<1>8. IsFiniteSet(0 .. N - 1) /\ Cardinality(0 .. N - 1) = N
  <2> HIDE DEF N
  <2>1. 0 \in Int /\ N - 1 \in Int
    BY <1>1
  <2>2. /\ IsFiniteSet(0 .. N - 1)
        /\ Cardinality(0 .. N - 1) = IF 0 > N - 1 THEN 0 ELSE N - 1 - 0 + 1
    BY <2>1, FS_Interval
  <2> QED BY <1>1, <2>2
<1>9. g \in Surjection(S, 0 .. N - 1)
  BY <1>7, <1>8, FS_Injection
<1>10. \A n \in 0 .. N - 1 : \E x \in S : place(x) = n
  BY <1>9 DEF Surjection
<1> QED
  BY <1>1, <1>3, <1>5, <1>10

\* The first n by code are n.
LEMMA FirstAreMany ==
  ASSUME NEW us \in SUBSET Nat, IsFiniteSet(us), NEW n \in Nat, n <= Cardinality(us)
  PROVE  IsFiniteSet(FirstByCode(n, us)) /\ Cardinality(FirstByCode(n, us)) = n
<1> DEFINE f == [u \in us |-> u]
           place(u) == Cardinality(Below(f, us, u))
           F == FirstByCode(n, us)
           g == [u \in F |-> place(u)]
           N == Cardinality(us)
<1>1. Numbers(f, us)
  BY DEF Numbers
<1>2. \A u \in us : Below(f, us, u) = {v \in us : v < u}
  BY DEF Below
<1> HIDE DEF f
<1>3. /\ \A u \in us : place(u) \in 0 .. N - 1
      /\ \A u, v \in us : f[u] < f[v] <=> place(u) < place(v)
      /\ \A m \in 0 .. N - 1 : \E u \in us : place(u) = m
      /\ N \in Nat
  BY <1>1, Places
<1>4. F = {u \in us : place(u) < n}
  BY <1>2 DEF FirstByCode
<1>5. \A u, v \in us : place(u) = place(v) => u = v
  <2> SUFFICES ASSUME NEW u \in us, NEW v \in us, place(u) = place(v) PROVE u = v
    OBVIOUS
  <2>1. ~(f[u] < f[v]) /\ ~(f[v] < f[u])
    <3> HIDE DEF place
    <3> QED BY <1>3
  <2> QED BY <1>1, <2>1 DEF Numbers
<1> HIDE DEF F, place, N
<1>6. \A u \in F : g[u] = place(u) /\ g[u] \in 0 .. n - 1
  BY <1>3, <1>4
<1>7. g \in [F -> 0 .. n - 1]
  BY <1>6
<1>8. \A u, v \in F : g[u] = g[v] => u = v
  BY <1>4, <1>5, <1>6
<1>9. \A m \in 0 .. n - 1 : \E u \in F : g[u] = m
  <2> SUFFICES ASSUME NEW m \in 0 .. n - 1 PROVE \E u \in F : g[u] = m
    OBVIOUS
  <2>1. m \in 0 .. N - 1 /\ m < n
    BY <1>3 DEF N
  <2>2. PICK u \in us : place(u) = m
    BY <1>3, <2>1
  <2> QED BY <1>4, <1>6, <2>1, <2>2
<1> HIDE DEF g
<1>10. g \in Injection(F, 0 .. n - 1) /\ g \in Surjection(F, 0 .. n - 1)
  BY <1>7, <1>8, <1>9 DEF Injection, IsInjective, Surjection
<1>11. IsFiniteSet(0 .. n - 1) /\ Cardinality(0 .. n - 1) = n
  <2>1. 0 \in Int /\ n - 1 \in Int
    OBVIOUS
  <2>2. /\ IsFiniteSet(0 .. n - 1)
        /\ Cardinality(0 .. n - 1) = IF 0 > n - 1 THEN 0 ELSE n - 1 - 0 + 1
    BY <2>1, FS_Interval
  <2> QED BY <2>2
<1> QED
  BY <1>10, <1>11, FS_Injection DEF F

\* GroupLocks is the required groups in the order of their ids.
LEMMA GroupsSorted ==
  ASSUME NEW i \in Items
  PROVE  /\ GroupLocks(i) \in Seq(Requires[i]) /\ Range(GroupLocks(i)) = Requires[i]
         /\ \A m, n \in DOMAIN GroupLocks(i) : m < n => IdOf[GroupLocks(i)[m]] < IdOf[GroupLocks(i)[n]]
<1> DEFINE S == Requires[i]
           N == Cardinality(S)
           place(g) == Cardinality(Below(IdOf, S, g))
           at(n) == CHOOSE g \in S : place(g) = n - 1
           s == GroupLocks(i)
<1>1. S \in SUBSET Groups /\ IsFiniteSet(S)
  BY Demands, GroupsInOrder, FS_Subset
<1>2. Numbers(IdOf, S)
  BY <1>1, GroupsInOrder DEF Numbers
<1>3. s = [n \in 1 .. N |-> at(n)]
  BY DEF GroupLocks, Below
<1>4. /\ \A g \in S : place(g) \in 0 .. N - 1
      /\ \A f, g \in S : IdOf[f] < IdOf[g] <=> place(f) < place(g)
      /\ \A n \in 0 .. N - 1 : \E g \in S : place(g) = n
      /\ N \in Nat
  <2> HIDE DEF S
  <2> QED BY <1>1, <1>2, Places
<1> HIDE DEF place, s, S
<1>5. \A n \in 1 .. N : at(n) \in S /\ place(at(n)) = n - 1
  <2> SUFFICES ASSUME NEW n \in 1 .. N PROVE at(n) \in S /\ place(at(n)) = n - 1
    OBVIOUS
  <2> HIDE DEF N
  <2>1. n - 1 \in 0 .. N - 1
    BY <1>4
  <2> QED BY <1>4, <2>1
<1> HIDE DEF at, N
<1>6. s \in Seq(S) /\ DOMAIN s = 1 .. N /\ \A n \in 1 .. N : s[n] \in S /\ place(s[n]) = n - 1
  BY <1>3, <1>4, <1>5
<1>7. \A m, n \in DOMAIN s : m < n => IdOf[s[m]] < IdOf[s[n]]
  <2> SUFFICES ASSUME NEW m \in 1 .. N, NEW n \in 1 .. N, m < n PROVE IdOf[s[m]] < IdOf[s[n]]
    BY <1>6
  <2>1. place(s[m]) < place(s[n])
    BY <1>4, <1>6
  <2> QED BY <1>4, <1>6, <2>1
<1>8. Range(s) = S
  <2>1. ASSUME NEW g \in S PROVE g \in Range(s)
    <3>1. place(g) \in 0 .. N - 1
      BY <1>4
    <3>2. place(g) + 1 \in 1 .. N
      BY <1>4, <3>1
    <3> DEFINE n == place(g) + 1
    <3>3. n \in 1 .. N /\ n - 1 = place(g)
      BY <3>1, <3>2
    <3> HIDE DEF n
    <3>4. s[n] \in S /\ place(s[n]) = place(g)
      BY <1>6, <3>3
    <3>5. ~(IdOf[s[n]] < IdOf[g]) /\ ~(IdOf[g] < IdOf[s[n]])
      BY <1>4, <3>1, <3>4
    <3>6. s[n] = g
      BY <1>2, <3>4, <3>5 DEF Numbers
    <3> QED BY <1>6, <3>3, <3>6 DEF Range
  <2> QED BY <1>6, <2>1 DEF Range
<1> QED
  BY <1>6, <1>7, <1>8 DEF s, S

-----------------------------------------------------------------------------
(* The invariant *)

Locks == Stays \cup Services \cup Groups \cup {Entitlement}

Rows == [status : {"none", "scheduled", "completed", "cancelled"}, item : Items \cup {None},
         slot : Slots \cup {None}, size : Nat, stay : Stays \cup {None}, entitled : BOOLEAN]

Allocations == [key : Services, group : Groups, piece : Resources \cup {None}, slot : Slots, qty : Nat]

\* A piece is allocated within its group, and whole.
Sound(a) == a.piece # None => a.piece \in Resources /\ a.group = GroupOf[a.piece] /\ a.qty = 1

Booked(row) == row = Absent \/ (row.item \in Items /\ row.slot \in Slots /\ row.status # "none")

RowsInv ==
  /\ service \in [Services -> Rows]
  /\ \A k \in Services : Booked(service[k])
  /\ stay \in [Stays -> {"open", "checked_out", "cancelled"}]
  /\ alloc \subseteq Allocations /\ \A a \in alloc : Sound(a)
  /\ block \subseteq [group : Groups, piece : Resources \cup {None}, slot : Slots]

\* The rows that a request has to lock before it may rely on what it reads.
Needs(req) == Requires[req.ask.item]
              \cup (IF req.op = "book" /\ req.ask.stay # None THEN {req.ask.stay} ELSE {})

\* A handler in flight: what it does not hold yet it still asks for.
InFlight(req) ==
  /\ req \in [op : {"book", "move"}, key : Services, ask : Rows, pick : Resources \cup {None},
             wants : Seq(Locks), held : SUBSET Locks, plan : {None} \cup SUBSET Allocations]
  /\ req.ask.item \in Items /\ req.ask.slot \in Slots /\ req.ask.status = "scheduled"
  /\ req.op = "move" => service[req.key] # Absent
  /\ Needs(req) \subseteq req.held \cup Range(req.wants)
  /\ req.plan # None => req.wants = <<>>

\* What a plan assigns is free, for as long as the handler holds the groups.
Planned(req) ==
  /\ \A p \in req.plan :
       /\ Sound(p) /\ p.key = req.key /\ p.slot = req.ask.slot /\ p.group \in Requires[req.ask.item]
       /\ \A a \in alloc : a.key # req.key /\ p.piece # None /\ a.piece = p.piece => ~Meets(a.slot, p.slot)
       /\ \A b \in block : p.group = b.group /\ Meets(p.slot, b.slot) => b.piece # None /\ b.piece # p.piece
  /\ req.op = "book" /\ req.ask.stay # None => stay[req.ask.stay] = "open"

HandlersInv ==
  /\ handler = [h \in Handlers |-> handler[h]]
  /\ \A h \in Handlers : handler[h] = Idle \/ InFlight(handler[h])
  /\ \A h \in Handlers : handler[h].plan # None => Planned(handler[h])

\* No row is locked twice.
LocksExclude == \A h, j \in Handlers : h # j => handler[h].held \cap handler[j].held = {}

BookingInv ==
  /\ RowsInv /\ HandlersInv /\ LocksExclude
  /\ PiecesGivenOnce /\ BlockedStaysFree /\ CheckedOutOwesNothing

-----------------------------------------------------------------------------
(* Locks that are asked for *)

LEMMA Concatenated ==
  ASSUME NEW S, NEW a \in Seq(S), NEW b \in Seq(S)
  PROVE  a \o b \in Seq(S) /\ Range(a \o b) = Range(a) \cup Range(b)
<1>1. a \o b \in Seq(S)
  OBVIOUS
<1>2. /\ Len(a) \in Nat /\ Len(b) \in Nat /\ DOMAIN a = 1 .. Len(a) /\ DOMAIN b = 1 .. Len(b)
      /\ DOMAIN (a \o b) = 1 .. Len(a) + Len(b)
      /\ \A i \in 1 .. Len(a) : (a \o b)[i] = a[i]
      /\ \A i \in 1 .. Len(b) : (a \o b)[Len(a) + i] = b[i]
  OBVIOUS
<1>3. \A x \in Range(a) : x \in Range(a \o b)
  <2> SUFFICES ASSUME NEW i \in 1 .. Len(a) PROVE a[i] \in Range(a \o b)
    BY <1>2 DEF Range
  <2>1. i \in DOMAIN (a \o b)
    BY <1>2
  <2> QED BY <1>2, <2>1 DEF Range
<1>4. \A x \in Range(b) : x \in Range(a \o b)
  <2> SUFFICES ASSUME NEW i \in 1 .. Len(b) PROVE b[i] \in Range(a \o b)
    BY <1>2 DEF Range
  <2>1. Len(a) + i \in DOMAIN (a \o b)
    BY <1>2
  <2> QED BY <1>2, <2>1 DEF Range
<1>5. \A x \in Range(a \o b) : x \in Range(a) \cup Range(b)
  <2> SUFFICES ASSUME NEW i \in 1 .. Len(a) + Len(b) PROVE (a \o b)[i] \in Range(a) \cup Range(b)
    BY <1>2 DEF Range
  <2>1. CASE i \in 1 .. Len(a)
    BY <1>2, <2>1 DEF Range
  <2>2. CASE i - Len(a) \in 1 .. Len(b)
    <3>1. (a \o b)[Len(a) + (i - Len(a))] = b[i - Len(a)] /\ Len(a) + (i - Len(a)) = i
      BY <1>2, <2>2
    <3> QED BY <1>2, <2>2, <3>1 DEF Range
  <2> QED BY <1>2, <2>1, <2>2
<1> QED
  BY <1>1, <1>3, <1>4, <1>5

LEMMA Single == ASSUME NEW S, NEW x \in S PROVE <<x>> \in Seq(S) /\ Range(<<x>>) = {x}
  BY DEF Range

LEMMA Nothing == ASSUME NEW S PROVE <<>> \in Seq(S) /\ Range(<<>>) = {}
  BY DEF Range

LEMMA Locked ==
  ASSUME NEW i \in Items
  PROVE  GroupLocks(i) \in Seq(Locks) /\ Range(GroupLocks(i)) = Requires[i]
<1>1. Requires[i] \subseteq Locks
  BY Demands DEF Locks
<1>2. GroupLocks(i) \in Seq(Requires[i]) /\ Range(GroupLocks(i)) = Requires[i]
  BY GroupsSorted
<1> QED
  BY <1>1, <1>2

\* The lock that is taken moves from the wanted to the held.
LEMMA TakesTheFirst ==
  ASSUME NEW wants \in Seq(Locks), wants # <<>>
  PROVE  Range(wants) \subseteq {Head(wants)} \cup Range(Tail(wants))
<1>1. ASSUME NEW i \in DOMAIN wants PROVE wants[i] \in {Head(wants)} \cup Range(Tail(wants))
  <2>1. CASE i = 1
    BY <2>1
  <2>2. CASE i # 1
    <3>1. i - 1 \in DOMAIN Tail(wants) /\ Tail(wants)[i - 1] = wants[i]
      BY <2>2
    <3> QED BY <3>1 DEF Range
  <2> QED BY <2>1, <2>2
<1> QED
  BY <1>1 DEF Range

LEMMA BookLocksNeeded ==
  ASSUME NEW ask \in Asks
  PROVE  /\ BookLocks(ask) \in Seq(Locks) /\ AgentBookLocks(ask) \in Seq(Locks)
         /\ Requires[ask.item] \cup (IF ask.stay # None THEN {ask.stay} ELSE {}) \subseteq Range(BookLocks(ask))
         /\ Requires[ask.item] \cup (IF ask.stay # None THEN {ask.stay} ELSE {}) \subseteq Range(AgentBookLocks(ask))
<1> DEFINE a == IF ask.stay = None THEN <<>> ELSE <<ask.stay>>
           b == IF ask.entitled THEN <<Entitlement>> ELSE <<>>
           c == GroupLocks(ask.item)
<1>1. ask.item \in Items /\ ask.stay \in Stays \cup {None}
  BY AsksOfCatalog
<1>2. c \in Seq(Locks) /\ Range(c) = Requires[ask.item]
  BY <1>1, Locked
<1>3. a \in Seq(Locks) /\ Range(a) = IF ask.stay # None THEN {ask.stay} ELSE {}
  <2>1. ask.stay # None => ask.stay \in Locks
    BY <1>1 DEF Locks
  <2> QED BY <2>1, Single, Nothing
<1>4. b \in Seq(Locks)
  <2>1. Entitlement \in Locks
    BY DEF Locks
  <2> QED BY <2>1, Single, Nothing
<1>5. BookLocks(ask) = (a \o b) \o c /\ AgentBookLocks(ask) = c \o a
  BY DEF BookLocks, AgentBookLocks
<1> HIDE DEF a, b, c
<1>6. a \o b \in Seq(Locks) /\ Range(a \o b) = Range(a) \cup Range(b)
  BY <1>3, <1>4, Concatenated
<1>7. (a \o b) \o c \in Seq(Locks) /\ Range((a \o b) \o c) = Range(a \o b) \cup Range(c)
  <2> DEFINE ab == a \o b
  <2>1. ab \in Seq(Locks)
    BY <1>6
  <2> HIDE DEF ab
  <2>2. ab \o c \in Seq(Locks) /\ Range(ab \o c) = Range(ab) \cup Range(c)
    BY <1>2, <2>1, Concatenated
  <2> QED BY <2>2 DEF ab
<1>8. c \o a \in Seq(Locks) /\ Range(c \o a) = Range(c) \cup Range(a)
  BY <1>2, <1>3, Concatenated
<1> QED
  BY <1>2, <1>3, <1>5, <1>6, <1>7, <1>8

-----------------------------------------------------------------------------
(* Steps of a handler that write no row *)

\* A handler with a plan holds what the plan relies on.
LEMMA PlansHold ==
  ASSUME BookingInv, NEW h \in Handlers, handler[h].plan # None
  PROVE  InFlight(handler[h]) /\ Planned(handler[h]) /\ Needs(handler[h]) \subseteq handler[h].held
<1>1. InFlight(handler[h])
  BY DEF BookingInv, HandlersInv, Idle
<1>2. handler[h].wants = <<>>
  BY <1>1 DEF InFlight
<1>3. Range(handler[h].wants) = {}
  BY <1>2 DEF Range
<1> QED
  BY <1>1, <1>3 DEF InFlight, BookingInv, HandlersInv

LEMMA HandlerKeeps ==
  ASSUME BookingInv, NEW h \in Handlers, NEW r,
         handler' = [handler EXCEPT ![h] = r], UNCHANGED <<service, alloc, block, stay>>,
         r = Idle \/ InFlight(r), r.plan # None => Planned(r),
         \A j \in Handlers \ {h} : r.held \cap handler[j].held = {}
  PROVE  BookingInv'
<1> USE DEF BookingInv
<1>1. \A j \in Handlers : handler'[j] = IF j = h THEN r ELSE handler[j]
  BY DEF HandlersInv
<1>2. RowsInv' /\ PiecesGivenOnce' /\ BlockedStaysFree' /\ CheckedOutOwesNothing'
  BY DEF RowsInv, PiecesGivenOnce, BlockedStaysFree, CheckedOutOwesNothing
<1>3. \A q : InFlight(q) => InFlight(q)'
  BY DEF InFlight, Needs
<1>4. \A q : Planned(q) => Planned(q)'
  BY DEF Planned
<1>5. HandlersInv'
  BY <1>1, <1>3, <1>4 DEF HandlersInv
<1>6. LocksExclude'
  BY <1>1 DEF LocksExclude
<1> QED
  BY <1>2, <1>5, <1>6

LEMMA GiveUpKeeps == ASSUME BookingInv, NEW h \in Handlers, GiveUp(h) PROVE BookingInv'
<1>1. handler' = [handler EXCEPT ![h] = Idle] /\ UNCHANGED <<service, alloc, block, stay>>
  BY DEF GiveUp
<1>2. Idle.plan = None /\ Idle.held = {}
  BY DEF Idle
<1> QED
  BY <1>1, <1>2, HandlerKeeps

LEMMA BeginKeeps ==
  ASSUME BookingInv, NEW h \in Handlers, NEW op \in {"book", "move"}, NEW k \in Services, NEW ask \in Rows,
         NEW pick \in Resources \cup {None}, NEW wants \in Seq(Locks), Begin(h, op, k, ask, pick, wants),
         ask.item \in Items, ask.slot \in Slots, ask.status = "scheduled",
         op = "move" => service[k] # Absent,
         Requires[ask.item] \subseteq Range(wants),
         op = "book" /\ ask.stay # None => ask.stay \in Range(wants)
  PROVE  BookingInv'
<1> DEFINE r == [op |-> op, key |-> k, ask |-> ask, pick |-> pick, wants |-> wants, held |-> {}, plan |-> None]
<1>1. handler' = [handler EXCEPT ![h] = r] /\ UNCHANGED <<service, alloc, block, stay>>
  BY DEF Begin
<1>2. InFlight(r)
  BY DEF InFlight, Needs
<1>3. r.plan = None /\ r.held = {}
  OBVIOUS
<1> HIDE DEF r
<1> QED
  BY <1>1, <1>2, <1>3, HandlerKeeps

LEMMA BookKeeps ==
  ASSUME BookingInv, NEW h \in Handlers, NEW k \in Services, NEW ask \in Asks,
         Book(h, k, ask) \/ AgentBook(h, k, ask)
  PROVE  BookingInv'
<1> DEFINE row == Asked(ask)
<1>1. /\ ask.item \in Items /\ ask.size \in Nat /\ ask.stay \in Stays \cup {None}
      /\ ask.slot \in Slots /\ ask.pick \in Resources \cup {None} /\ ask.entitled \in BOOLEAN
  BY AsksOfCatalog
<1>2. /\ row \in Rows /\ row.item = ask.item /\ row.slot = ask.slot /\ row.stay = ask.stay
      /\ row.status = "scheduled"
  BY <1>1 DEF Asked, Rows
<1> HIDE DEF row
<1>3. PICK wants \in {BookLocks(ask), AgentBookLocks(ask)}, pick \in Resources \cup {None} :
        Begin(h, "book", k, row, pick, wants)
  BY <1>1 DEF Book, AgentBook, row
<1>4. /\ wants \in Seq(Locks) /\ Requires[row.item] \subseteq Range(wants)
      /\ row.stay # None => row.stay \in Range(wants)
  <2>1. CASE wants = BookLocks(ask)
    BY <1>2, <2>1, BookLocksNeeded
  <2>2. CASE wants = AgentBookLocks(ask)
    BY <1>2, <2>2, BookLocksNeeded
  <2> QED BY <1>3, <2>1, <2>2
<1> QED
  BY <1>1, <1>2, <1>3, <1>4, BeginKeeps

LEMMA MoveKeeps ==
  ASSUME BookingInv, NEW h \in Handlers, NEW k \in Services, NEW move \in Moves,
         Reschedule(h, k, move) \/ AgentReschedule(h, k, move)
  PROVE  BookingInv'
<1> DEFINE row == Moved(k, move.slot)
           groups == GroupLocks(service[k].item)
<1>1. service[k] # Absent
  BY DEF Reschedule, AgentReschedule, Absent
<1>2. service[k] \in Rows /\ service[k].item \in Items
  BY <1>1 DEF BookingInv, RowsInv, Booked
<1>3. move.slot \in Slots /\ move.pick \in Resources \cup {None}
  BY MovesInSlots
<1>4. row \in Rows /\ row.item = service[k].item /\ row.slot = move.slot /\ row.status = "scheduled"
  BY <1>2, <1>3 DEF Moved, Asked, Rows
<1>5. groups \in Seq(Locks) /\ Range(groups) = Requires[row.item]
  BY <1>2, <1>4, Locked
<1>6. <<k>> \in Seq(Locks)
  BY DEF Locks
<1>7. PICK wants \in {<<k>> \o groups, groups \o <<k>>}, pick \in Resources \cup {None} :
        Begin(h, "move", k, row, pick, wants)
  BY <1>3 DEF Reschedule, AgentReschedule
<1> HIDE DEF row, groups
<1>8. wants \in Seq(Locks) /\ Requires[row.item] \subseteq Range(wants)
  <2> DEFINE own == <<k>>
  <2>1. own \in Seq(Locks)
    BY <1>6
  <2> HIDE DEF own
  <2>2. own \o groups \in Seq(Locks) /\ Range(own \o groups) = Range(own) \cup Range(groups)
    BY <1>5, <2>1, Concatenated
  <2>3. groups \o own \in Seq(Locks) /\ Range(groups \o own) = Range(groups) \cup Range(own)
    BY <1>5, <2>1, Concatenated
  <2>4. wants \in {own \o groups, groups \o own}
    BY <1>7 DEF own
  <2> QED BY <1>5, <2>2, <2>3, <2>4
<1>9. row.item \in Items /\ row.slot \in Slots
  BY <1>2, <1>3, <1>4
<1> QED
  BY <1>1, <1>4, <1>7, <1>8, <1>9, BeginKeeps

LEMMA AcquireKeeps == ASSUME BookingInv, NEW h \in Handlers, AcquireLock(h) PROVE BookingInv'
<1> DEFINE req == handler[h]
           lock == Head(req.wants)
           r == [req EXCEPT !.held = @ \cup {lock}, !.wants = Tail(@)]
<1>1. req.wants # <<>> /\ LockFree(lock) /\ UNCHANGED <<service, alloc, block, stay>>
  BY DEF AcquireLock
<1>2. handler' = [handler EXCEPT ![h] = r]
  BY DEF AcquireLock, BookingInv, HandlersInv
<1>3. InFlight(req) /\ req.plan = None
  BY <1>1 DEF BookingInv, HandlersInv, InFlight, Idle
<1>4. /\ req.wants \in Seq(Locks) /\ lock \in Locks /\ Tail(req.wants) \in Seq(Locks)
      /\ Range(req.wants) \subseteq {lock} \cup Range(Tail(req.wants))
  <2>1. req.wants \in Seq(Locks)
    BY <1>3 DEF InFlight
  <2>2. lock \in Locks /\ Tail(req.wants) \in Seq(Locks)
    BY <1>1, <2>1
  <2> QED BY <1>1, <2>1, <2>2, TakesTheFirst
<1>5. /\ r.held = req.held \cup {lock} /\ r.wants = Tail(req.wants) /\ r.plan = None
      /\ r.op = req.op /\ r.key = req.key /\ r.ask = req.ask /\ r.pick = req.pick
      /\ r \in [op : {"book", "move"}, key : Services, ask : Rows, pick : Resources \cup {None},
                wants : Seq(Locks), held : SUBSET Locks, plan : {None} \cup SUBSET Allocations]
  BY <1>3, <1>4 DEF InFlight
<1> HIDE DEF r
<1>6. InFlight(r)
  BY <1>3, <1>4, <1>5 DEF InFlight, Needs
<1>7. \A j \in Handlers \ {h} : r.held \cap handler[j].held = {}
  BY <1>1, <1>5 DEF LockFree, BookingInv, LocksExclude
<1> QED
  BY <1>1, <1>2, <1>5, <1>6, <1>7, HandlerKeeps

-----------------------------------------------------------------------------
(* The assessment *)

\* Nothing that is proposed is allocated to another service or blocked.
LEMMA AssignedIsFree ==
  ASSUME BookingInv, NEW i \in Items, NEW k \in Services, NEW slot \in Slots, NEW size \in Nat, NEW pick,
         Available(i, k, slot, size, pick), NEW p \in Assignments(i, k, slot, size, pick)
  PROVE  /\ p \in Allocations /\ Sound(p) /\ p.key = k /\ p.slot = slot /\ p.group \in Requires[i]
         /\ \A a \in alloc : a.key # k /\ p.piece # None /\ a.piece = p.piece => ~Meets(a.slot, p.slot)
         /\ \A b \in block : p.group = b.group /\ Meets(p.slot, b.slot) => b.piece # None /\ b.piece # p.piece
<1>1. PICK g \in Requires[i] :
        p \in IF g \in PoolGroups
                THEN {[key |-> k, group |-> g, piece |-> None, slot |-> slot, qty |-> DemandFor(i, g, size)]}
                ELSE {[key |-> k, group |-> g, piece |-> u, slot |-> slot, qty |-> 1] :
                        u \in FirstByCode(DemandFor(i, g, size), Candidates(i, g, k, slot, size, pick))}
  <2> DEFINE Of(g) ==
        IF g \in PoolGroups
          THEN {[key |-> k, group |-> g, piece |-> None, slot |-> slot, qty |-> DemandFor(i, g, size)]}
          ELSE {[key |-> k, group |-> g, piece |-> u, slot |-> slot, qty |-> 1] :
                  u \in FirstByCode(DemandFor(i, g, size), Candidates(i, g, k, slot, size, pick))}
  <2>1. Assignments(i, k, slot, size, pick) = UNION {Of(g) : g \in Requires[i]}
    BY DEF Assignments
  <2> HIDE DEF Of
  <2>2. \E g \in Requires[i] : p \in Of(g)
    BY <2>1
  <2> QED BY <2>2 DEF Of
<1>2. g \in Groups /\ DemandFor(i, g, size) \in Nat
  BY Demands DEF DemandFor
<1>3. /\ slot[1] \in Nat /\ slot[2] \in Nat
      /\ \A b \in block : b.slot[1] \in Nat /\ b.slot[2] \in Nat
  BY SlotsForward DEF BookingInv, RowsInv
<1>4. \A b \in block : b.group = g /\ Meets(slot, b.slot) => b.piece # None
  <2> SUFFICES ASSUME NEW b \in block, b.group = g, Meets(slot, b.slot) PROVE b.piece # None
    OBVIOUS
  <2>1. Meets(b.slot, slot)
    BY <1>3 DEF Meets
  <2>2. ~Blocked(g, None, slot)
    BY DEF Available
  <2> QED BY <2>1, <2>2 DEF Blocked
<1>5. CASE g \in PoolGroups
  <2>1. p = [key |-> k, group |-> g, piece |-> None, slot |-> slot, qty |-> DemandFor(i, g, size)]
    BY <1>1, <1>5
  <2> QED BY <1>2, <1>4, <2>1 DEF Allocations, Sound
<1>6. CASE g \notin PoolGroups
  <2>1. PICK u \in FreePieces(i, g, k, slot, size) :
          p = [key |-> k, group |-> g, piece |-> u, slot |-> slot, qty |-> 1]
    BY <1>1, <1>6 DEF FirstByCode, Candidates
  <2>2. /\ u \in Resources /\ GroupOf[u] = g /\ ~Blocked(g, u, slot)
        /\ \A a \in Others(k, slot) : a.piece # u
    BY DEF FreePieces
  <2>3. \A b \in block : b.group = g /\ Meets(slot, b.slot) => b.piece # u
    BY <1>3, <2>2 DEF Blocked, Meets
  <2>4. \A a \in alloc : a.key # k /\ a.piece = u => ~Meets(a.slot, slot)
    BY <2>2 DEF Others
  <2>5. p.key = k /\ p.group = g /\ p.piece = u /\ p.slot = slot /\ p.qty = 1
    BY <2>1
  <2>6. p \in Allocations
    BY <1>2, <2>1, <2>2 DEF Allocations
  <2> QED BY <1>4, <2>2, <2>3, <2>4, <2>5, <2>6 DEF Sound
<1> QED
  BY <1>5, <1>6

LEMMA AssessKeeps == ASSUME BookingInv, NEW h \in Handlers, Assess(h) PROVE BookingInv'
<1> DEFINE req == handler[h]
           plan == Assignments(req.ask.item, req.key, req.ask.slot, req.ask.size, req.pick)
           r == [req EXCEPT !.plan = plan]
<1>1. /\ req.op # "idle" /\ req.wants = <<>> /\ Granted(req)
      /\ UNCHANGED <<service, alloc, block, stay>>
  BY DEF Assess, Ready
<1>2. handler' = [handler EXCEPT ![h] = r]
  BY DEF Assess, BookingInv, HandlersInv
<1>3. InFlight(req)
  BY <1>1 DEF BookingInv, HandlersInv, Idle
<1>4. /\ req.ask.item \in Items /\ req.key \in Services /\ req.ask.slot \in Slots /\ req.ask.size \in Nat
      /\ Available(req.ask.item, req.key, req.ask.slot, req.ask.size, req.pick)
      /\ req.op = "book" /\ req.ask.stay # None => stay[req.ask.stay] = "open"
  BY <1>1, <1>3 DEF InFlight, Granted, Rows
<1>5. \A p \in plan :
         /\ p \in Allocations /\ Sound(p) /\ p.key = req.key /\ p.slot = req.ask.slot
         /\ p.group \in Requires[req.ask.item]
         /\ \A a \in alloc : a.key # req.key /\ p.piece # None /\ a.piece = p.piece => ~Meets(a.slot, p.slot)
         /\ \A b \in block : p.group = b.group /\ Meets(p.slot, b.slot) => b.piece # None /\ b.piece # p.piece
  BY <1>4, AssignedIsFree
<1> HIDE DEF plan
<1>6. plan \in SUBSET Allocations
  BY <1>5
<1>7. /\ r.plan = plan /\ r.held = req.held /\ r.wants = req.wants
      /\ r.op = req.op /\ r.key = req.key /\ r.ask = req.ask /\ r.pick = req.pick
      /\ r \in [op : {"book", "move"}, key : Services, ask : Rows, pick : Resources \cup {None},
                wants : Seq(Locks), held : SUBSET Locks, plan : {None} \cup SUBSET Allocations]
  BY <1>3, <1>6 DEF InFlight
<1> HIDE DEF r
<1>8. InFlight(r)
  BY <1>1, <1>3, <1>7 DEF InFlight, Needs
<1>9. Planned(r)
  BY <1>4, <1>5, <1>7 DEF Planned
<1>10. \A j \in Handlers \ {h} : r.held \cap handler[j].held = {}
  BY <1>7 DEF BookingInv, LocksExclude
<1> QED
  BY <1>1, <1>2, <1>8, <1>9, <1>10, HandlerKeeps

-----------------------------------------------------------------------------
(* The writing *)

\* Two plans in flight are for different groups, and so for different pieces.
LEMMA PlansApart ==
  ASSUME BookingInv, NEW h \in Handlers, NEW j \in Handlers, h # j,
         handler[h].plan # None, handler[j].plan # None,
         NEW p \in handler[h].plan, NEW q \in handler[j].plan, p.piece # None
  PROVE  p.piece # q.piece
<1>1. /\ Sound(p) /\ p.group \in Requires[handler[h].ask.item]
      /\ Sound(q) /\ q.group \in Requires[handler[j].ask.item]
  BY PlansHold DEF Planned
<1>2. p.group \in handler[h].held /\ q.group \in handler[j].held
  BY <1>1, PlansHold DEF Needs
<1>3. p.group # q.group
  BY <1>2 DEF BookingInv, LocksExclude
<1> QED
  BY <1>1, <1>3 DEF Sound

LEMMA CommitKeeps == ASSUME BookingInv, NEW h \in Handlers, Commit(h) PROVE BookingInv'
<1> USE DEF BookingInv
<1> DEFINE req == handler[h]
           k == req.key
<1>1. /\ req.plan # None /\ Written(req) /\ handler' = [handler EXCEPT ![h] = Idle]
      /\ UNCHANGED <<block, stay>>
  BY DEF Commit
<1>2. InFlight(req) /\ Planned(req)
  BY <1>1, PlansHold
<1>3. /\ k \in Services /\ req.ask \in Rows /\ req.ask.item \in Items /\ req.ask.slot \in Slots
      /\ req.ask.status = "scheduled" /\ req.op \in {"book", "move"}
      /\ req.op = "move" => service[k] # Absent
      /\ req.plan \subseteq Allocations
  BY <1>1, <1>2 DEF InFlight
<1>4. /\ alloc' = {a \in alloc : a.key # k} \cup req.plan
      /\ service' = [service EXCEPT ![k] = IF req.op = "book" THEN req.ask ELSE [@ EXCEPT !.slot = req.ask.slot]]
  BY <1>1 DEF Written
<1>5. /\ \A p \in req.plan :
           /\ Sound(p) /\ p.key = k /\ p.slot = req.ask.slot
           /\ \A a \in alloc : a.key # k /\ p.piece # None /\ a.piece = p.piece => ~Meets(a.slot, p.slot)
           /\ \A b \in block : p.group = b.group /\ Meets(p.slot, b.slot) => b.piece # None /\ b.piece # p.piece
      /\ req.op = "book" /\ req.ask.stay # None => stay[req.ask.stay] = "open"
  BY <1>2 DEF Planned
<1>6. \A j \in Handlers : handler'[j] = IF j = h THEN Idle ELSE handler[j]
  BY <1>1 DEF HandlersInv
<1>7. /\ service'[k] = IF req.op = "book" THEN req.ask ELSE [service[k] EXCEPT !.slot = req.ask.slot]
      /\ \A l \in Services \ {k} : service'[l] = service[l]
      /\ service' = [l \in Services |-> service'[l]]
  BY <1>3, <1>4 DEF RowsInv
<1>8. /\ service'[k] \in Rows /\ Booked(service'[k]) /\ service'[k].status # "none"
      /\ req.op = "move" => service'[k].stay = service[k].stay /\ service'[k].status = service[k].status
  <2>1. CASE req.op = "book"
    BY <1>3, <1>7, <2>1 DEF Booked
  <2>2. CASE req.op = "move"
    <3>1. /\ service[k] \in Rows /\ service[k].item \in Items /\ service[k].status # "none"
      BY <1>3, <2>2 DEF RowsInv, Booked
    <3>2. /\ service'[k] = [service[k] EXCEPT !.slot = req.ask.slot]
      BY <1>7, <2>2
    <3> QED BY <1>3, <3>1, <3>2 DEF Rows, Booked
  <2> QED BY <1>3, <2>1, <2>2
<1>9. RowsInv'
  <2>1. service' \in [Services -> Rows] /\ \A l \in Services : Booked(service'[l])
    BY <1>7, <1>8 DEF RowsInv
  <2>2. alloc' \subseteq Allocations /\ \A a \in alloc' : Sound(a)
    BY <1>3, <1>4, <1>5 DEF RowsInv
  <2> QED BY <1>1, <2>1, <2>2 DEF RowsInv
<1>10. PiecesGivenOnce'
  <2> SUFFICES ASSUME NEW a \in alloc', NEW b \in alloc', a # b, a.piece # None, a.piece = b.piece
               PROVE  ~Meets(a.slot, b.slot)
    BY DEF PiecesGivenOnce
  <2>1. a \in Allocations /\ b \in Allocations
    BY <1>9 DEF RowsInv
  <2>2. Meets(a.slot, b.slot) => Meets(b.slot, a.slot)
    <3>1. /\ a.slot[1] \in Nat /\ a.slot[2] \in Nat /\ b.slot[1] \in Nat /\ b.slot[2] \in Nat
      BY <2>1, SlotsForward DEF Allocations
    <3> QED BY <3>1 DEF Meets
  <2>3. CASE a \in req.plan /\ b \in req.plan
    <3>1. Sound(a) /\ Sound(b) /\ a.key = b.key /\ a.slot = b.slot
      BY <1>5, <2>3
    <3>2. a.group = b.group /\ a.qty = b.qty
      BY <3>1 DEF Sound
    <3> QED BY <2>1, <3>1, <3>2 DEF Allocations
  <2>4. CASE a \in alloc /\ a.key # k /\ b \in req.plan
    BY <1>5, <2>4
  <2>5. CASE a \in req.plan /\ b \in alloc /\ b.key # k
    BY <1>5, <2>2, <2>5
  <2>6. CASE a \in alloc /\ b \in alloc
    BY <2>6 DEF PiecesGivenOnce
  <2> QED BY <1>4, <2>3, <2>4, <2>5, <2>6
<1>11. BlockedStaysFree'
  BY <1>1, <1>4, <1>5 DEF BlockedStaysFree
<1>12. CheckedOutOwesNothing'
  <2> SUFFICES ASSUME NEW l \in Services, service'[l].status = "scheduled", service'[l].stay # None
               PROVE  stay[service'[l].stay] # "checked_out"
    BY <1>1 DEF CheckedOutOwesNothing
  <2>1. CASE l # k \/ req.op = "move"
    <3>1. service'[l].status = service[l].status /\ service'[l].stay = service[l].stay
      BY <1>3, <1>7, <1>8, <2>1
    <3> QED BY <3>1 DEF CheckedOutOwesNothing
  <2>2. CASE l = k /\ req.op = "book"
    BY <1>5, <1>7, <2>2
  <2> QED BY <1>3, <2>1, <2>2
<1>13. HandlersInv'
  <2>1. \A l \in Services : service[l] # Absent => service'[l] # Absent
    <3> SUFFICES ASSUME NEW l \in Services, service[l] # Absent PROVE service'[l] # Absent
      OBVIOUS
    <3>1. CASE l = k
      BY <1>8, <3>1, Absent.status = "none" DEF Absent
    <3>2. CASE l # k
      BY <1>7, <3>2
    <3> QED BY <3>1, <3>2
  <2>2. ASSUME NEW q, InFlight(q) PROVE InFlight(q)'
    <3>1. q.key \in Services
      BY <2>2 DEF InFlight
    <3> QED BY <2>1, <2>2, <3>1 DEF InFlight, Needs
  <2>3. ASSUME NEW j \in Handlers \ {h}, handler[j].plan # None PROVE Planned(handler[j])'
    <3>1. Planned(handler[j]) /\ handler'[j] = handler[j]
      BY <1>6, <2>3, PlansHold
    <3>2. ASSUME NEW p \in handler[j].plan, p.piece # None, NEW a \in alloc', a.key # handler[j].key,
                 a.piece = p.piece
          PROVE  ~Meets(a.slot, p.slot)
      <4>1. CASE a \in alloc
        BY <3>1, <3>2, <4>1 DEF Planned
      <4>2. CASE a \in req.plan
        BY <1>1, <2>3, <3>2, <4>2, PlansApart
      <4> QED BY <1>4, <4>1, <4>2
    <3> QED BY <1>1, <3>1, <3>2 DEF Planned
  <2>4. \A q : InFlight(q) => InFlight(q)'
    BY <2>2
  <2>5. \A j \in Handlers : (handler[j] = Idle \/ InFlight(handler[j]))'
    BY <1>6, <2>4 DEF HandlersInv
  <2>6. \A j \in Handlers : (handler[j].plan # None => Planned(handler[j]))'
    <3>1. Idle.plan = None
      BY DEF Idle
    <3> QED BY <1>6, <2>3, <3>1
  <2> QED BY <1>1, <2>5, <2>6 DEF HandlersInv
<1>14. LocksExclude'
  BY <1>6 DEF LocksExclude, Idle
<1> QED
  BY <1>9, <1>10, <1>11, <1>12, <1>13, <1>14

-----------------------------------------------------------------------------
(* Handlers that take their locks at once *)

\* They leave the transactions in flight alone, and what those have planned free.
LEMMA AtOnceKeeps ==
  ASSUME BookingInv, handler' = handler,
         \A l \in Services : service[l] # Absent => service'[l] # Absent,
         alloc' \subseteq alloc,
         \A h \in Handlers, b \in block' \ block : b.group \notin handler[h].held,
         \A r \in Stays : stay'[r] # stay[r] => LockFree(r)
  PROVE  HandlersInv' /\ LocksExclude'
<1> USE DEF BookingInv
<1>1. LocksExclude'
  BY DEF LocksExclude
<1>2. ASSUME NEW q, InFlight(q) PROVE InFlight(q)'
  BY <1>2 DEF InFlight, Needs
<1>3. ASSUME NEW h \in Handlers, handler[h].plan # None PROVE Planned(handler[h])'
  <2>1. InFlight(handler[h]) /\ Planned(handler[h]) /\ Needs(handler[h]) \subseteq handler[h].held
    BY <1>3, PlansHold
  <2>2. ASSUME NEW p \in handler[h].plan, NEW b \in block', p.group = b.group, Meets(p.slot, b.slot)
        PROVE  b.piece # None /\ b.piece # p.piece
    <3>1. b \in block
      BY <2>1, <2>2 DEF Planned, Needs
    <3> QED BY <2>1, <2>2, <3>1 DEF Planned
  <2>3. ASSUME handler[h].op = "book", handler[h].ask.stay # None
        PROVE  stay'[handler[h].ask.stay] = "open"
    <3>1. handler[h].ask.stay \in Stays /\ handler[h].ask.stay \in handler[h].held
      BY <2>1, <2>3 DEF Needs, InFlight, Rows
    <3> QED BY <2>1, <2>3, <3>1 DEF LockFree, Planned
  <2> QED BY <2>1, <2>2, <2>3 DEF Planned
<1>4. \A q : InFlight(q) => InFlight(q)'
  BY <1>2
<1>5. HandlersInv'
  BY <1>3, <1>4 DEF HandlersInv
<1> QED
  BY <1>1, <1>5

LEMMA StatusKeeps ==
  ASSUME BookingInv, NEW k \in Services, NEW status \in {"completed", "cancelled"}, ChangeServiceStatus(k, status)
  PROVE  BookingInv'
<1> USE DEF BookingInv
<1>1. /\ service[k].status = "scheduled" /\ service' = [service EXCEPT ![k].status = status]
      /\ alloc' \subseteq alloc /\ UNCHANGED <<block, stay, handler>>
  BY DEF ChangeServiceStatus
<1>2. service[k] \in Rows /\ service[k].item \in Items /\ service[k].slot \in Slots
  BY <1>1 DEF RowsInv, Booked, Absent
<1>3. /\ service'[k] \in Rows /\ service'[k].item = service[k].item /\ service'[k].slot = service[k].slot
      /\ service'[k].status = status
      /\ \A l \in Services \ {k} : service'[l] = service[l]
      /\ service' = [l \in Services |-> service'[l]]
  BY <1>1, <1>2 DEF RowsInv, Rows
<1>4. \A l \in Services : service'[l] \in Rows /\ Booked(service'[l])
  BY <1>2, <1>3 DEF RowsInv, Booked
<1>5. RowsInv'
  BY <1>1, <1>3, <1>4 DEF RowsInv
<1>6. PiecesGivenOnce' /\ BlockedStaysFree'
  BY <1>1 DEF PiecesGivenOnce, BlockedStaysFree
<1>7. CheckedOutOwesNothing'
  BY <1>1, <1>3 DEF CheckedOutOwesNothing
<1>8. \A l \in Services : service[l] # Absent => service'[l] # Absent
  <2>1. service'[k] # Absent
    BY <1>3, Absent.status = "none" DEF Absent
  <2> QED BY <1>3, <2>1
<1>9. HandlersInv' /\ LocksExclude'
  BY <1>1, <1>8, AtOnceKeeps
<1> QED
  BY <1>5, <1>6, <1>7, <1>9

LEMMA LinkKeeps ==
  ASSUME BookingInv, NEW k \in Services, NEW r \in Stays, LinkServiceToReservation(k, r)
  PROVE  BookingInv'
<1> USE DEF BookingInv
<1>1. /\ service[k].status \in {"scheduled", "completed"} /\ service' = [service EXCEPT ![k].stay = r]
      /\ stay[r] = "open" /\ UNCHANGED <<alloc, block, stay, handler>>
  BY DEF LinkServiceToReservation
<1>2. service[k] \in Rows /\ service[k].item \in Items /\ service[k].slot \in Slots
  BY <1>1 DEF RowsInv, Booked, Absent
<1>3. /\ service'[k] \in Rows /\ service'[k].item = service[k].item /\ service'[k].slot = service[k].slot
      /\ service'[k].status = service[k].status /\ service'[k].stay = r
      /\ \A l \in Services \ {k} : service'[l] = service[l]
      /\ service' = [l \in Services |-> service'[l]]
  BY <1>1, <1>2 DEF RowsInv, Rows
<1>4. \A l \in Services : service'[l] \in Rows /\ Booked(service'[l])
  BY <1>1, <1>2, <1>3 DEF RowsInv, Booked
<1>5. RowsInv'
  BY <1>1, <1>3, <1>4 DEF RowsInv
<1>6. PiecesGivenOnce' /\ BlockedStaysFree'
  BY <1>1 DEF PiecesGivenOnce, BlockedStaysFree
<1>7. CheckedOutOwesNothing'
  BY <1>1, <1>3 DEF CheckedOutOwesNothing
<1>8. \A l \in Services : service[l] # Absent => service'[l] # Absent
  BY <1>1, <1>3 DEF Absent
<1>9. HandlersInv' /\ LocksExclude'
  BY <1>1, <1>8, AtOnceKeeps
<1> QED
  BY <1>5, <1>6, <1>7, <1>9

LEMMA BlocksKeep ==
  ASSUME BookingInv,
         \/ \E g \in Groups, u \in Resources \cup {None}, slot \in Slots : CreateBlock(g, u, slot)
         \/ \E b \in block : CancelBlock(b)
  PROVE  BookingInv'
<1> USE DEF BookingInv
<1>1. UNCHANGED <<service, alloc, stay, handler>>
  BY DEF CreateBlock, CancelBlock
<1>2. ASSUME NEW g \in Groups, NEW u \in Resources \cup {None}, NEW slot \in Slots, CreateBlock(g, u, slot)
      PROVE  RowsInv' /\ BlockedStaysFree' /\ HandlersInv' /\ LocksExclude'
  <2> DEFINE x == [group |-> g, piece |-> u, slot |-> slot]
  <2>1. /\ LockFree(g) /\ block' = block \cup {x}
        /\ \A a \in alloc : a.group = g /\ Meets(a.slot, slot) => u # None /\ a.piece # u
    BY <1>2 DEF CreateBlock
  <2>2. x.group = g /\ x.piece = u /\ x.slot = slot
        /\ x \in [group : Groups, piece : Resources \cup {None}, slot : Slots]
    OBVIOUS
  <2> HIDE DEF x
  <2>3. RowsInv'
    BY <1>1, <2>1, <2>2 DEF RowsInv
  <2>4. BlockedStaysFree'
    BY <1>1, <2>1, <2>2 DEF BlockedStaysFree
  <2>5. \A h \in Handlers, b \in block' \ block : b.group \notin handler[h].held
    BY <2>1, <2>2 DEF LockFree
  <2> QED BY <1>1, <2>3, <2>4, <2>5, AtOnceKeeps
<1>3. ASSUME NEW b \in block, CancelBlock(b)
      PROVE  RowsInv' /\ BlockedStaysFree' /\ HandlersInv' /\ LocksExclude'
  <2>1. block' \subseteq block
    BY <1>3 DEF CancelBlock
  <2>2. RowsInv' /\ BlockedStaysFree'
    BY <1>1, <2>1 DEF RowsInv, BlockedStaysFree
  <2> QED BY <1>1, <2>1, <2>2, AtOnceKeeps
<1>4. PiecesGivenOnce' /\ CheckedOutOwesNothing'
  BY <1>1 DEF PiecesGivenOnce, CheckedOutOwesNothing
<1> QED
  BY <1>2, <1>3, <1>4

LEMMA DepartureKeeps ==
  ASSUME BookingInv, NEW r \in Stays, CheckOut(r) \/ CancelReservation(r)
  PROVE  BookingInv'
<1> USE DEF BookingInv
<1>1. /\ LockFree(r) /\ UNCHANGED <<service, alloc, block, handler>>
      /\ stay' \in {[stay EXCEPT ![r] = "checked_out"], [stay EXCEPT ![r] = "cancelled"]}
  BY DEF CheckOut, CancelReservation
<1>2. \A q \in Stays \ {r} : stay'[q] = stay[q]
  BY <1>1 DEF RowsInv
<1>3. RowsInv' /\ PiecesGivenOnce' /\ BlockedStaysFree'
  BY <1>1 DEF RowsInv, PiecesGivenOnce, BlockedStaysFree
<1>4. CheckedOutOwesNothing'
  <2> SUFFICES ASSUME NEW k \in Services, service[k].status = "scheduled", service[k].stay # None
               PROVE  stay'[service[k].stay] # "checked_out"
    BY <1>1 DEF CheckedOutOwesNothing
  <2>1. service[k].stay \in Stays
    BY DEF RowsInv, Rows
  <2>2. CASE service[k].stay = r
    BY <2>2, stay \in [Stays -> {"open", "checked_out", "cancelled"}]
       DEF CheckOut, CancelReservation, RowsInv
  <2>3. CASE service[k].stay # r
    BY <1>2, <2>1, <2>3 DEF CheckedOutOwesNothing
  <2> QED BY <2>2, <2>3
<1>5. HandlersInv' /\ LocksExclude'
  BY <1>1, <1>2, AtOnceKeeps
<1> QED
  BY <1>3, <1>4, <1>5

-----------------------------------------------------------------------------
(* The theorems *)

LEMMA InitHolds == Init => BookingInv
<1> SUFFICES ASSUME Init PROVE BookingInv
  OBVIOUS
<1> USE DEF Init
<1>1. Absent \in Rows /\ Absent.status # "scheduled"
  BY DEF Absent, Rows
<1>2. RowsInv
  <2>1. service \in [Services -> Rows] /\ \A k \in Services : service[k] = Absent
    BY <1>1
  <2>2. \A k \in Services : Booked(service[k])
    BY <2>1 DEF Booked
  <2>3. stay \in [Stays -> {"open", "checked_out", "cancelled"}]
    OBVIOUS
  <2>4. alloc = {} /\ block = {}
    OBVIOUS
  <2> QED BY <2>1, <2>2, <2>3, <2>4 DEF RowsInv
<1>3. HandlersInv /\ LocksExclude
  BY DEF HandlersInv, LocksExclude, Idle
<1>4. PiecesGivenOnce /\ BlockedStaysFree /\ CheckedOutOwesNothing
  BY <1>1 DEF PiecesGivenOnce, BlockedStaysFree, CheckedOutOwesNothing
<1> QED
  BY <1>2, <1>3, <1>4 DEF BookingInv

LEMMA StutterKeeps == BookingInv /\ UNCHANGED vars => BookingInv'
<1> SUFFICES ASSUME BookingInv, UNCHANGED vars PROVE BookingInv'
  OBVIOUS
<1> USE DEF BookingInv, vars
<1>1. RowsInv' /\ PiecesGivenOnce' /\ BlockedStaysFree' /\ CheckedOutOwesNothing'
  BY DEF RowsInv, PiecesGivenOnce, BlockedStaysFree, CheckedOutOwesNothing
<1>2. HandlersInv' /\ LocksExclude'
  BY AtOnceKeeps
<1> QED
  BY <1>1, <1>2

LEMMA TransactionKeeps == ASSUME BookingInv, NEW h \in Handlers, Transaction(h) PROVE BookingInv'
<1>1. ASSUME NEW k \in Services, NEW ask \in Asks, Book(h, k, ask) \/ AgentBook(h, k, ask) PROVE BookingInv'
  BY <1>1, BookKeeps
<1>2. ASSUME NEW k \in Services, NEW move \in Moves, Reschedule(h, k, move) \/ AgentReschedule(h, k, move)
      PROVE  BookingInv'
  BY <1>2, MoveKeeps
<1>3. CASE Refuse(h) \/ BreakDeadlock(h) \/ Rollback(h)
  BY <1>3, GiveUpKeeps DEF Refuse, BreakDeadlock, Rollback
<1> QED
  BY <1>1, <1>2, <1>3, AcquireKeeps, AssessKeeps, CommitKeeps DEF Transaction

\* What a transaction has read under its locks still holds when it writes, in every
\* interleaving of the desk, the assistant, the blocks and the departures.
THEOREM BookingInvariant == Spec => []BookingInv
<1>1. BookingInv /\ [Next]_vars => BookingInv'
  <2> SUFFICES ASSUME BookingInv, [Next]_vars PROVE BookingInv'
    OBVIOUS
  <2>1. CASE Next
    BY <2>1, TransactionKeeps, StatusKeeps, LinkKeeps, BlocksKeep, DepartureKeeps DEF Next
  <2>2. CASE UNCHANGED vars
    BY <2>2, StutterKeeps
  <2> QED BY <2>1, <2>2
<1> QED
  BY InitHolds, <1>1, PTL DEF Spec

\* No piece is given to two services that overlap.
THEOREM NoPieceTwice == Spec => []PiecesGivenOnce
<1>1. BookingInv => PiecesGivenOnce
  BY DEF BookingInv
<1> QED
  BY BookingInvariant, <1>1, PTL

\* Nothing that is blocked is given out, whether the block or the booking came first.
THEOREM NothingBlockedIsGiven == Spec => []BlockedStaysFree
<1>1. BookingInv => BlockedStaysFree
  BY DEF BookingInv
<1> QED
  BY BookingInvariant, <1>1, PTL

\* A booking that found the stay open is not written after the departure.
THEOREM DepartedOweNothing == Spec => []CheckedOutOwesNothing
<1>1. BookingInv => CheckedOutOwesNothing
  BY DEF BookingInv
<1> QED
  BY BookingInvariant, <1>1, PTL

-----------------------------------------------------------------------------
(* The order of the locks *)

\* A handler that holds lock l may ask for lock m: the groups go by their ids, an
\* entitlement is asked for before them, and a stay or a service after groups only by
\* the agent's handlers.
MayFollow(l, m) ==
  IF m \in Groups THEN l \in Groups => IdOf[l] < IdOf[m]
  ELSE IF m = Entitlement THEN l \in Stays \cup Services
  ELSE l \in Groups

Ordered(s) == \A i, j \in DOMAIN s : i < j => MayFollow(s[i], s[j])

\* Every handler asks for its locks in order, also after those it holds.
OrderInv == \A h \in Handlers :
  /\ Ordered(handler[h].wants)
  /\ \A l \in handler[h].held : \A i \in DOMAIN handler[h].wants : MayFollow(l, handler[h].wants[i])

LEMMA OrderedConcatenation ==
  ASSUME NEW S, NEW a \in Seq(S), NEW b \in Seq(S), Ordered(a), Ordered(b),
         \A l \in Range(a), m \in Range(b) : MayFollow(l, m)
  PROVE  Ordered(a \o b)
<1>1. /\ Len(a) \in Nat /\ Len(b) \in Nat /\ DOMAIN a = 1 .. Len(a) /\ DOMAIN b = 1 .. Len(b)
      /\ DOMAIN (a \o b) = 1 .. Len(a) + Len(b)
      /\ \A i \in 1 .. Len(a) : (a \o b)[i] = a[i]
      /\ \A i \in 1 .. Len(b) : (a \o b)[Len(a) + i] = b[i]
  OBVIOUS
<1>2. \A i \in DOMAIN (a \o b) : \/ i \in DOMAIN a /\ (a \o b)[i] = a[i]
                                 \/ i > Len(a) /\ i - Len(a) \in DOMAIN b /\ (a \o b)[i] = b[i - Len(a)]
  <2> SUFFICES ASSUME NEW i \in 1 .. Len(a) + Len(b), i \notin 1 .. Len(a)
               PROVE  i > Len(a) /\ i - Len(a) \in 1 .. Len(b) /\ (a \o b)[i] = b[i - Len(a)]
    BY <1>1
  <2>1. i > Len(a) /\ i - Len(a) \in 1 .. Len(b) /\ Len(a) + (i - Len(a)) = i
    BY <1>1
  <2>2. (a \o b)[Len(a) + (i - Len(a))] = b[i - Len(a)]
    BY <1>1, <2>1
  <2> QED BY <2>1, <2>2
<1> SUFFICES ASSUME NEW i \in DOMAIN (a \o b), NEW j \in DOMAIN (a \o b), i < j
             PROVE  MayFollow((a \o b)[i], (a \o b)[j])
  BY DEF Ordered
<1> DEFINE x == (a \o b)[i]
           y == (a \o b)[j]
<1>3. i \in Nat /\ j \in Nat
  BY <1>1
<1> HIDE DEF x, y
<1>4. \/ i \in DOMAIN a /\ x = a[i]
      \/ i > Len(a) /\ i - Len(a) \in DOMAIN b /\ x = b[i - Len(a)]
  BY <1>2 DEF x
<1>5. \/ j \in DOMAIN a /\ y = a[j]
      \/ j > Len(a) /\ j - Len(a) \in DOMAIN b /\ y = b[j - Len(a)]
  BY <1>2 DEF y
<1>6. CASE i \in DOMAIN a /\ x = a[i] /\ j \in DOMAIN a /\ y = a[j]
  <2>1. MayFollow(x, y)
    BY <1>6 DEF Ordered
  <2> QED BY <2>1 DEF x, y
<1>7. CASE i \in DOMAIN a /\ x = a[i] /\ j - Len(a) \in DOMAIN b /\ y = b[j - Len(a)]
  <2>1. x \in Range(a) /\ y \in Range(b)
    BY <1>7 DEF Range
  <2>2. MayFollow(x, y)
    BY <2>1
  <2> QED BY <2>2 DEF x, y
<1>8. CASE i > Len(a) /\ i - Len(a) \in DOMAIN b /\ x = b[i - Len(a)] /\ j > Len(a)
           /\ j - Len(a) \in DOMAIN b /\ y = b[j - Len(a)]
  <2>1. i - Len(a) < j - Len(a)
    BY <1>1, <1>3
  <2>2. MayFollow(x, y)
    BY <1>8, <2>1 DEF Ordered
  <2> QED BY <2>2 DEF x, y
<1>9. ~(i > Len(a) /\ j \in DOMAIN a)
  BY <1>1, <1>3
<1> QED
  BY <1>4, <1>5, <1>6, <1>7, <1>8, <1>9

LEMMA OrderedShort == Ordered(<<>>) /\ \A x : Ordered(<<x>>)
  BY DEF Ordered

LEMMA GroupsOrdered ==
  ASSUME NEW i \in Items
  PROVE  Ordered(GroupLocks(i)) /\ Range(GroupLocks(i)) \subseteq Groups
<1> DEFINE s == GroupLocks(i)
<1>1. /\ s \in Seq(Requires[i]) /\ Range(s) = Requires[i] /\ Requires[i] \subseteq Groups
      /\ \A m, n \in DOMAIN s : m < n => IdOf[s[m]] < IdOf[s[n]]
  BY GroupsSorted, Demands
<1> HIDE DEF s
<1>2. \A n \in DOMAIN s : s[n] \in Groups
  BY <1>1 DEF Range
<1> QED
  BY <1>1, <1>2 DEF Ordered, MayFollow, s

\* A stay, a service or an entitlement first, and then groups.
LEMMA RowThenGroups ==
  ASSUME NEW x \in Stays \cup Services \cup {Entitlement}, NEW g \in Groups
  PROVE  MayFollow(x, g)
  BY RowsOfTables DEF MayFollow

\* Groups first, and then a stay or a service.
LEMMA GroupsThenRow ==
  ASSUME NEW x \in Stays \cup Services, NEW g \in Groups
  PROVE  MayFollow(g, x)
  BY RowsOfTables DEF MayFollow

LEMMA BookingLocksOrdered ==
  ASSUME NEW ask \in Asks
  PROVE  Ordered(BookLocks(ask)) /\ Ordered(AgentBookLocks(ask))
<1> DEFINE a == IF ask.stay = None THEN <<>> ELSE <<ask.stay>>
           b == IF ask.entitled THEN <<Entitlement>> ELSE <<>>
           c == GroupLocks(ask.item)
<1>1. ask.item \in Items /\ ask.stay \in Stays \cup {None}
  BY AsksOfCatalog
<1>2. c \in Seq(Locks) /\ Range(c) \subseteq Groups /\ Ordered(c)
  BY <1>1, Locked, GroupsOrdered
<1>3. a \in Seq(Locks) /\ Range(a) \subseteq Stays /\ Ordered(a)
  <2>1. ask.stay # None => ask.stay \in Locks /\ ask.stay \in Stays
    BY <1>1 DEF Locks
  <2> QED BY <2>1, Single, Nothing, OrderedShort
<1>4. b \in Seq(Locks) /\ Range(b) \subseteq {Entitlement} /\ Ordered(b)
  <2>1. Entitlement \in Locks
    BY DEF Locks
  <2> QED BY <2>1, Single, Nothing, OrderedShort
<1>5. BookLocks(ask) = (a \o b) \o c /\ AgentBookLocks(ask) = c \o a
  BY DEF BookLocks, AgentBookLocks
<1> HIDE DEF a, b, c
<1>6. a \o b \in Seq(Locks) /\ Range(a \o b) = Range(a) \cup Range(b)
  BY <1>3, <1>4, Concatenated
<1>7. Ordered(a \o b)
  <2>1. \A l \in Range(a), m \in Range(b) : MayFollow(l, m)
    BY <1>3, <1>4, RowsOfTables DEF MayFollow
  <2> QED BY <1>3, <1>4, <2>1, OrderedConcatenation
<1>8. Ordered((a \o b) \o c)
  <2> DEFINE ab == a \o b
  <2>1. ab \in Seq(Locks) /\ Ordered(ab) /\ Range(ab) \subseteq Stays \cup {Entitlement}
    BY <1>3, <1>4, <1>6, <1>7
  <2> HIDE DEF ab
  <2>2. \A l \in Range(ab), m \in Range(c) : MayFollow(l, m)
    BY <1>2, <2>1, RowThenGroups
  <2>3. Ordered(ab \o c)
    BY <1>2, <2>1, <2>2, OrderedConcatenation
  <2> QED BY <2>3 DEF ab
<1>9. Ordered(c \o a)
  <2>1. \A l \in Range(c), m \in Range(a) : MayFollow(l, m)
    BY <1>2, <1>3, GroupsThenRow
  <2> QED BY <1>2, <1>3, <2>1, OrderedConcatenation
<1> QED
  BY <1>5, <1>8, <1>9

LEMMA MovingLocksOrdered ==
  ASSUME NEW k \in Services, NEW i \in Items
  PROVE  Ordered(<<k>> \o GroupLocks(i)) /\ Ordered(GroupLocks(i) \o <<k>>)
<1> DEFINE a == <<k>>
           c == GroupLocks(i)
<1>1. c \in Seq(Locks) /\ Range(c) \subseteq Groups /\ Ordered(c)
  BY Locked, GroupsOrdered
<1>2. a \in Seq(Locks) /\ Range(a) = {k} /\ Ordered(a)
  <2>1. k \in Locks
    BY DEF Locks
  <2> QED BY <2>1, Single, OrderedShort
<1> HIDE DEF a, c
<1>3. /\ \A l \in Range(a), m \in Range(c) : MayFollow(l, m)
      /\ \A l \in Range(c), m \in Range(a) : MayFollow(l, m)
  BY <1>1, <1>2, RowThenGroups, GroupsThenRow
<1>4. Ordered(a \o c) /\ Ordered(c \o a)
  BY <1>1, <1>2, <1>3, OrderedConcatenation
<1> QED
  BY <1>4 DEF a, c

\* A handler that starts, or is replaced by one whose locks are in order.
LEMMA OrderOf ==
  ASSUME BookingInv, OrderInv, NEW h \in Handlers, NEW r,
         \/ handler' = handler
         \/ handler' = [handler EXCEPT ![h] = r],
         Ordered(r.wants), \A l \in r.held : \A i \in DOMAIN r.wants : MayFollow(l, r.wants[i])
  PROVE  OrderInv'
<1>1. \A j \in Handlers : handler'[j] \in {handler[j], IF j = h THEN r ELSE handler[j]}
  BY DEF BookingInv, HandlersInv
<1> QED
  BY <1>1 DEF OrderInv

LEMMA OrderBegins ==
  ASSUME BookingInv, OrderInv, NEW h \in Handlers, NEW op, NEW k, NEW ask, NEW pick, NEW wants,
         Begin(h, op, k, ask, pick, wants), Ordered(wants)
  PROVE  OrderInv'
<1> DEFINE r == [op |-> op, key |-> k, ask |-> ask, pick |-> pick, wants |-> wants, held |-> {}, plan |-> None]
<1>1. handler' = [handler EXCEPT ![h] = r]
  BY DEF Begin
<1>2. r.wants = wants /\ r.held = {}
  OBVIOUS
<1> HIDE DEF r
<1> QED
  BY <1>1, <1>2, OrderOf

LEMMA OrderAcquired == ASSUME BookingInv, OrderInv, NEW h \in Handlers, AcquireLock(h) PROVE OrderInv'
<1> DEFINE req == handler[h]
           lock == Head(req.wants)
           r == [req EXCEPT !.held = @ \cup {lock}, !.wants = Tail(@)]
<1>1. req.wants # <<>>
  BY DEF AcquireLock
<1>2. handler' = [handler EXCEPT ![h] = r]
  BY DEF AcquireLock, BookingInv, HandlersInv
<1>3. InFlight(req)
  BY <1>1 DEF BookingInv, HandlersInv, Idle
<1>4. req.wants \in Seq(Locks)
  BY <1>3 DEF InFlight
<1>5. r.held = req.held \cup {lock} /\ r.wants = Tail(req.wants)
  BY <1>3 DEF InFlight
<1>6. \A i \in DOMAIN Tail(req.wants) : /\ i + 1 \in DOMAIN req.wants /\ i \in Nat /\ 1 < i + 1
                                        /\ Tail(req.wants)[i] = req.wants[i + 1]
  BY <1>1, <1>4
<1>7. 1 \in DOMAIN req.wants /\ lock = req.wants[1]
  BY <1>1, <1>4
<1> HIDE DEF r, lock
<1>8. Ordered(r.wants)
  <2> SUFFICES ASSUME NEW i \in DOMAIN Tail(req.wants), NEW j \in DOMAIN Tail(req.wants), i < j
               PROVE  MayFollow(Tail(req.wants)[i], Tail(req.wants)[j])
    BY <1>5 DEF Ordered
  <2>1. i + 1 < j + 1
    BY <1>6
  <2> QED BY <1>6, <2>1 DEF OrderInv, Ordered
<1>9. ASSUME NEW l \in r.held, NEW i \in DOMAIN r.wants PROVE MayFollow(l, r.wants[i])
  <2>1. CASE l \in req.held
    BY <1>5, <1>6, <2>1 DEF OrderInv
  <2>2. CASE l = lock
    BY <1>5, <1>6, <1>7, <2>2 DEF OrderInv, Ordered
  <2> QED BY <1>5, <2>1, <2>2
<1> QED
  BY <1>2, <1>8, <1>9, OrderOf

LEMMA OrderKept == BookingInv /\ OrderInv /\ [Next]_vars => OrderInv'
<1> SUFFICES ASSUME BookingInv, OrderInv, [Next]_vars PROVE OrderInv'
  OBVIOUS
<1>1. ASSUME NEW h \in Handlers, NEW k \in Services, NEW ask \in Asks, Book(h, k, ask) \/ AgentBook(h, k, ask)
      PROVE  OrderInv'
  BY <1>1, BookingLocksOrdered, OrderBegins DEF Book, AgentBook
<1>2. ASSUME NEW h \in Handlers, NEW k \in Services, NEW move \in Moves,
             Reschedule(h, k, move) \/ AgentReschedule(h, k, move)
      PROVE  OrderInv'
  <2>1. service[k] # Absent
    BY <1>2 DEF Reschedule, AgentReschedule, Absent
  <2>2. service[k].item \in Items
    BY <2>1 DEF BookingInv, RowsInv, Booked
  <2> QED BY <1>2, <2>2, MovingLocksOrdered, OrderBegins DEF Reschedule, AgentReschedule
<1>3. ASSUME NEW h \in Handlers, AcquireLock(h) PROVE OrderInv'
  BY <1>3, OrderAcquired
<1>4. ASSUME NEW h \in Handlers, Assess(h) PROVE OrderInv'
  <2> DEFINE r == handler'[h]
  <2>1. handler[h].op # "idle" /\ handler[h].wants = <<>>
    BY <1>4 DEF Assess, Ready
  <2>2. InFlight(handler[h])
    BY <2>1 DEF BookingInv, HandlersInv, Idle
  <2>3. handler' = [handler EXCEPT ![h] = r] /\ r.wants = handler[h].wants /\ r.held = handler[h].held
    BY <1>4, <2>2 DEF Assess, BookingInv, HandlersInv, InFlight
  <2> HIDE DEF r
  <2> QED BY <2>3, OrderOf DEF OrderInv
<1>5. ASSUME NEW h \in Handlers, handler' = [handler EXCEPT ![h] = Idle] PROVE OrderInv'
  <2>1. Ordered(Idle.wants) /\ Idle.held = {}
    BY OrderedShort DEF Idle
  <2> QED BY <1>5, <2>1, OrderOf
<1>6. ASSUME NEW h \in Handlers, Commit(h) \/ Refuse(h) \/ BreakDeadlock(h) \/ Rollback(h) PROVE OrderInv'
  BY <1>5, <1>6 DEF Commit, Refuse, BreakDeadlock, Rollback, GiveUp
<1>7. ASSUME handler' = handler PROVE OrderInv'
  BY <1>7 DEF OrderInv
<1>8. ASSUME \/ \E k \in Services, status \in {"completed", "cancelled"} : ChangeServiceStatus(k, status)
             \/ \E k \in Services, r \in Stays : LinkServiceToReservation(k, r)
             \/ \E g \in Groups, u \in Resources \cup {None}, slot \in Slots : CreateBlock(g, u, slot)
             \/ \E b \in block : CancelBlock(b)
             \/ \E r \in Stays : CheckOut(r) \/ CancelReservation(r)
             \/ UNCHANGED vars
      PROVE  handler' = handler
  BY <1>8 DEF ChangeServiceStatus, LinkServiceToReservation, CreateBlock, CancelBlock, CheckOut,
     CancelReservation, vars
<1> QED
  BY <1>1, <1>2, <1>3, <1>4, <1>6, <1>7, <1>8 DEF Next, Transaction

\* Handlers that ask for the locks of groups after no others cannot wait in a circle:
\* each would wait for a group later in the order than the one before.
LEMMA NoCircle == BookingInv /\ OrderInv => DeskNeverDeadlocks
<1> SUFFICES ASSUME BookingInv, OrderInv, NEW hs \in SUBSET Handlers, Deadlocked(hs),
                    \A h \in hs : handler[h].held \cap Groups = {} \/ Head(handler[h].wants) \in Groups
             PROVE  FALSE
  BY DEF DeskNeverDeadlocks
<1> DEFINE next(h) == Head(handler[h].wants)
<1>1. \A h \in hs : next(h) = handler[h].wants[1] /\ 1 \in DOMAIN handler[h].wants /\ next(h) \in Locks
  <2> SUFFICES ASSUME NEW h \in hs
               PROVE  next(h) = handler[h].wants[1] /\ 1 \in DOMAIN handler[h].wants /\ next(h) \in Locks
    OBVIOUS
  <2>1. handler[h].wants # <<>>
    BY DEF Deadlocked
  <2>2. InFlight(handler[h])
    BY <2>1 DEF BookingInv, HandlersInv, Idle
  <2>3. handler[h].wants \in Seq(Locks)
    BY <2>2 DEF InFlight
  <2> QED BY <2>1, <2>3
<1> HIDE DEF next
<1>2. \A h \in hs : \E j \in hs : next(h) \in handler[j].held /\ MayFollow(next(h), next(j))
  <2> SUFFICES ASSUME NEW h \in hs PROVE \E j \in hs : next(h) \in handler[j].held /\ MayFollow(next(h), next(j))
    OBVIOUS
  <2>1. PICK j \in hs : next(h) \in handler[j].held
    BY DEF Deadlocked, next
  <2>2. MayFollow(next(h), next(j))
    BY <1>1, <2>1 DEF OrderInv
  <2> QED BY <2>1, <2>2
\* Waiting for a group, a handler waits for one that waits for a later group.
<1>3. \A h \in hs : next(h) \in Groups =>
        \E j \in hs : next(j) \in Groups /\ IdOf[next(h)] < IdOf[next(j)]
  <2> SUFFICES ASSUME NEW h \in hs, next(h) \in Groups
               PROVE  \E j \in hs : next(j) \in Groups /\ IdOf[next(h)] < IdOf[next(j)]
    OBVIOUS
  <2>1. PICK j \in hs : next(h) \in handler[j].held /\ MayFollow(next(h), next(j))
    BY <1>2
  <2>2. next(j) \in Groups
    BY <2>1 DEF next
  <2> QED BY <2>1, <2>2 DEF MayFollow
<1>4. \E h \in hs : next(h) \in Groups
  <2>1. PICK h \in hs : TRUE
    BY DEF Deadlocked
  <2>2. CASE next(h) \in Groups
    BY <2>2
  <2>3. CASE next(h) = Entitlement
    <3>1. PICK j \in hs : MayFollow(Entitlement, next(j))
      BY <1>2, <2>3
    <3> QED BY <3>1, RowsOfTables DEF MayFollow
  <2>4. CASE next(h) \in Stays \cup Services
    <3>1. PICK j \in hs : MayFollow(next(h), next(j))
      BY <1>2
    <3>2. next(h) \notin Groups
      BY <2>4, RowsOfTables
    <3>3. next(j) \in Groups \/ next(j) = Entitlement
      BY <3>1, <3>2 DEF MayFollow
    <3>4. CASE next(j) = Entitlement
      <4>1. PICK i \in hs : MayFollow(Entitlement, next(i))
        BY <1>2, <3>4
      <4> QED BY <4>1, RowsOfTables DEF MayFollow
    <3> QED BY <3>3, <3>4
  <2> QED BY <1>1, <2>1, <2>2, <2>3, <2>4 DEF Locks
<1> DEFINE later(g) == {f \in Groups : IdOf[g] < IdOf[f]}
           T == {n \in Nat : \E h \in hs : next(h) \in Groups /\ Cardinality(later(next(h))) = n}
<1>5. \A g \in Groups : IsFiniteSet(later(g)) /\ Cardinality(later(g)) \in Nat
  BY GroupsInOrder, FS_Subset, FS_CardinalityType
<1>6. \A f, g \in Groups : IdOf[f] < IdOf[g] => Cardinality(later(g)) < Cardinality(later(f))
  <2> SUFFICES ASSUME NEW f \in Groups, NEW g \in Groups, IdOf[f] < IdOf[g]
               PROVE  Cardinality(later(g)) < Cardinality(later(f))
    OBVIOUS
  <2>1. later(g) \in SUBSET later(f) /\ g \in later(f) /\ g \notin later(g)
    BY GroupsInOrder
  <2>2. Cardinality(later(g)) <= Cardinality(later(f)) /\ Cardinality(later(g)) # Cardinality(later(f))
    BY <1>5, <2>1, FS_Subset
  <2> HIDE DEF later
  <2> QED BY <1>5, <2>2
<1> HIDE DEF later
<1>7. T # {} /\ T \in SUBSET Nat
  BY <1>4, <1>5
<1>8. PICK n \in T : \A m \in T : n <= m
  <2> HIDE DEF T
  <2> QED BY <1>7, Least
<1>9. PICK h \in hs : next(h) \in Groups /\ Cardinality(later(next(h))) = n
  OBVIOUS
<1>10. PICK j \in hs : next(j) \in Groups /\ IdOf[next(h)] < IdOf[next(j)]
  BY <1>3, <1>9
<1>11. Cardinality(later(next(j))) < n /\ Cardinality(later(next(j))) \in T
  BY <1>5, <1>6, <1>9, <1>10
<1>12. n \in Nat /\ Cardinality(later(next(j))) \in Nat
  BY <1>5, <1>9, <1>10
<1> QED
  BY <1>8, <1>11, <1>12

\* The desk's transactions never block one another for good, however many there are and
\* whatever they lock: a deadlock needs a handler that asks for a row after a group.
THEOREM DeskLocksInOrder == Spec => []DeskNeverDeadlocks
<1>1. Init => OrderInv
  BY OrderedShort DEF Init, OrderInv, Idle
<1>2. Spec => []OrderInv
  BY <1>1, BookingInvariant, OrderKept, PTL DEF Spec
<1> QED
  BY <1>2, BookingInvariant, NoCircle, PTL

-----------------------------------------------------------------------------
(* Amounts *)

Own(as, k, g) == {a \in as : a.key = k /\ a.group = g}

\* as is what service k needs of its groups at a slot, and nothing else.
Fits(as, k, i, size, slot) == \A g \in Groups :
  IF g \in Requires[i]
    THEN Quantity(Own(as, k, g)) = DemandFor(i, g, size) /\ \A a \in Own(as, k, g) : a.slot = slot
    ELSE Own(as, k, g) = {}

\* What others have of a pool at the time of an allocation.
Taken(a) == {b \in alloc : b.key # a.key /\ Meets(b.slot, a.slot) /\ b.group = a.group /\ b.piece = None}

\* A plan is what the request asks for, and pools still have room for it; a request to
\* move a service knows what the service is.
Exact(req) ==
  /\ req.op = "move" => /\ service[req.key].item = req.ask.item /\ service[req.key].size = req.ask.size
                        /\ req.key \in req.held \cup Range(req.wants)
  /\ req.plan # None =>
       /\ IsFiniteSet(req.plan)
       /\ Fits(req.plan, req.key, req.ask.item, req.ask.size, req.ask.slot)
       /\ req.op = "move" => service[req.key].status = "scheduled"
       /\ \A p \in req.plan : p.group \in PoolGroups =>
            /\ p.piece = None /\ p.qty = DemandFor(req.ask.item, p.group, req.ask.size)
            /\ Quantity(Taken(p)) + p.qty <= Capacity[p.group]

AmountInv ==
  /\ IsFiniteSet(alloc)
  /\ AllocationsFollowService
  /\ PoolsSuffice
  /\ \A h \in Handlers : handler[h] # Idle => Exact(handler[h])

LEMMA AllocationsCount ==
  ASSUME NEW as, IsFiniteSet(as), as \subseteq Allocations
  PROVE  Countable(as)
  BY DEF Countable, Allocations

\* The demands of one kind of group, met by the pieces or the pool.
LEMMA PlanFits ==
  ASSUME NEW i \in Items, NEW k \in Services, NEW slot \in Slots, NEW size \in Nat, NEW pick,
         Available(i, k, slot, size, pick)
  PROVE  /\ IsFiniteSet(Assignments(i, k, slot, size, pick))
         /\ Fits(Assignments(i, k, slot, size, pick), k, i, size, slot)
         /\ \A p \in Assignments(i, k, slot, size, pick) : p.group \in PoolGroups =>
              p.piece = None /\ p.qty = DemandFor(i, p.group, size) /\ p.qty <= PoolLeft(p.group, k, slot)
<1> DEFINE n(g) == DemandFor(i, g, size)
           free(g) == Candidates(i, g, k, slot, size, pick)
           piece(g, u) == [key |-> k, group |-> g, piece |-> u, slot |-> slot, qty |-> 1]
           pool(g) == [key |-> k, group |-> g, piece |-> None, slot |-> slot, qty |-> n(g)]
           of(g) == IF g \in PoolGroups THEN {pool(g)} ELSE {piece(g, u) : u \in FirstByCode(n(g), free(g))}
           as == Assignments(i, k, slot, size, pick)
<1>1. as = UNION {of(g) : g \in Requires[i]}
  BY DEF Assignments
<1>2. \A g : n(g) \in Nat
  BY DEF DemandFor
<1>3. \A g : free(g) \in SUBSET Nat /\ IsFiniteSet(free(g))
  <2>1. \A g : free(g) \in SUBSET Resources
    BY DEF Candidates, FreePieces
  <2> QED BY <2>1, PiecesInGroups, FS_Subset
<1>4. \A g \in Requires[i] : n(g) <= IF g \in PoolGroups THEN PoolLeft(g, k, slot) ELSE Cardinality(free(g))
  BY DEF Available
<1> HIDE DEF n, free
<1>5. ASSUME NEW g \in Requires[i], g \notin PoolGroups
      PROVE  IsFiniteSet(of(g)) /\ Quantity(of(g)) = n(g)
  <2> DEFINE F == FirstByCode(n(g), free(g))
             b == [u \in F |-> piece(g, u)]
  <2>1. IsFiniteSet(F) /\ Cardinality(F) = n(g)
    BY <1>2, <1>3, <1>4, <1>5, FirstAreMany
  <2>2. of(g) = {piece(g, u) : u \in F}
    BY <1>5
  <2>3. \A u \in F : piece(g, u).piece = u /\ piece(g, u).qty = 1
    OBVIOUS
  <2> HIDE DEF F, of, piece
  <2>4. b \in [F -> of(g)] /\ \A u, v \in F : b[u] = b[v] => u = v
    BY <2>2, <2>3
  <2>5. \A a \in of(g) : \E u \in F : b[u] = a
    BY <2>2
  <2> HIDE DEF b
  <2>6. b \in Injection(F, of(g)) /\ b \in Surjection(F, of(g))
    BY <2>4, <2>5 DEF Injection, IsInjective, Surjection
  <2>7. IsFiniteSet(of(g)) /\ Cardinality(of(g)) = n(g)
    BY <2>1, <2>6, FS_Surjection
  <2>8. \A a \in of(g) : a.qty = 1
    BY <2>2, <2>3
  <2> QED BY <2>7, <2>8, QuantityOfOnes
<1>6. ASSUME NEW g \in Requires[i], g \in PoolGroups
      PROVE  IsFiniteSet(of(g)) /\ Quantity(of(g)) = n(g)
  <2>1. of(g) = {pool(g)} /\ pool(g).qty = n(g)
    BY <1>6
  <2> DEFINE x == pool(g)
  <2> HIDE DEF x, of
  <2>2. of(g) = {x} /\ x.qty = n(g)
    BY <2>1 DEF x
  <2>3. Countable({x})
    BY <1>2, <2>2, FS_Singleton DEF Countable
  <2>4. Quantity({x}) = x.qty + Quantity({x} \ {x})
    BY <2>3, QuantityWithout
  <2>5. {x} \ {x} = {} /\ Quantity({}) = 0
    BY QuantityStep, FS_EmptySet DEF Countable
  <2> QED BY <1>2, <2>2, <2>4, <2>5, FS_Singleton
<1>7. \A g \in Requires[i] : \A a \in of(g) : a.key = k /\ a.group = g /\ a.slot = slot
  OBVIOUS
<1>8. \A g \in Requires[i] : \A a \in of(g) : g \in PoolGroups => a.piece = None /\ a.qty = n(g)
  OBVIOUS
<1> HIDE DEF of, as
<1>9. \A a \in as : \E g \in Requires[i] : a \in of(g)
  BY <1>1
<1>10. \A g \in Requires[i] : Own(as, k, g) = of(g)
  <2> SUFFICES ASSUME NEW g \in Requires[i] PROVE Own(as, k, g) = of(g)
    OBVIOUS
  <2>1. of(g) \subseteq Own(as, k, g)
    BY <1>1, <1>7 DEF Own
  <2>2. Own(as, k, g) \subseteq of(g)
    BY <1>7, <1>9 DEF Own
  <2> QED BY <2>1, <2>2
<1>11. Fits(as, k, i, size, slot)
  <2> SUFFICES ASSUME NEW g \in Groups
               PROVE  IF g \in Requires[i]
                        THEN Quantity(Own(as, k, g)) = n(g) /\ \A a \in Own(as, k, g) : a.slot = slot
                        ELSE Own(as, k, g) = {}
    BY DEF Fits, n
  <2>1. CASE g \in Requires[i]
    BY <1>5, <1>6, <1>7, <1>10, <2>1
  <2>2. CASE g \notin Requires[i]
    <3>1. ASSUME NEW a \in as, a.group = g PROVE FALSE
      <4>1. PICK f \in Requires[i] : a \in of(f)
        BY <1>9
      <4>2. a.group = f
        BY <1>7, <4>1
      <4> QED BY <2>2, <3>1, <4>1, <4>2
    <3>2. Own(as, k, g) = {}
      BY <3>1 DEF Own
    <3> QED BY <2>2, <3>2
  <2> QED BY <2>1, <2>2
<1>12. IsFiniteSet(as)
  <2>1. IsFiniteSet(Requires[i])
    BY Demands, GroupsInOrder, FS_Subset
  <2>2. \A g \in Requires[i] : IsFiniteSet(of(g))
    BY <1>5, <1>6
  <2> DEFINE all == {of(g) : g \in Requires[i]}
             map == [g \in Requires[i] |-> of(g)]
  <2>3. map \in Surjection(Requires[i], all)
    BY DEF Surjection
  <2>4. \A x \in all : IsFiniteSet(x)
    BY <2>2
  <2>5. as = UNION all
    BY <1>1
  <2> HIDE DEF all, map
  <2>6. IsFiniteSet(all)
    BY <2>1, <2>3, FS_Surjection
  <2>7. IsFiniteSet(UNION all)
    BY <2>4, <2>6, FS_UNION
  <2> QED BY <2>5, <2>7
<1>13. \A p \in as : p.group \in PoolGroups => p.piece = None /\ p.qty = n(p.group) /\ p.qty <= PoolLeft(p.group, k, slot)
  BY <1>4, <1>7, <1>8, <1>9
<1> QED
  BY <1>11, <1>12, <1>13 DEF as, n

\* What is left of a pool is what the others have not taken.
LEMMA LeftOfPool ==
  ASSUME BookingInv, AmountInv, NEW p \in Allocations, p.group \in PoolGroups
  PROVE  /\ Quantity(Taken(p)) \in Nat
         /\ PoolLeft(p.group, p.key, p.slot) = Capacity[p.group] - Quantity(Taken(p))
<1>1. Taken(p) = {a \in Others(p.key, p.slot) : a.group = p.group /\ a.piece = None}
  BY DEF Taken, Others
<1>2. Taken(p) \in SUBSET alloc
  BY DEF Taken
<1>3. Countable(alloc)
  BY AllocationsCount DEF AmountInv, BookingInv, RowsInv
<1>4. Countable(Taken(p))
  BY <1>2, <1>3, SubsetCountable
<1> QED
  BY <1>1, <1>4, QuantityStep DEF PoolLeft

LEMMA TakenShrinks ==
  ASSUME BookingInv, AmountInv, NEW p, Taken(p)' \subseteq Taken(p)
  PROVE  Quantity(Taken(p)') <= Quantity(Taken(p)) /\ Quantity(Taken(p)') \in Nat /\ Quantity(Taken(p)) \in Nat
<1>1. Taken(p) \in SUBSET alloc
  BY DEF Taken
<1>2. Countable(alloc)
  BY AllocationsCount DEF AmountInv, BookingInv, RowsInv
<1>3. Countable(Taken(p))
  BY <1>1, <1>2, SubsetCountable
<1> DEFINE t == Taken(p)
           u == Taken(p)'
<1>4. u \in SUBSET t /\ Countable(t)
  BY <1>3
<1> HIDE DEF t, u
<1>5. Quantity(u) <= Quantity(t) /\ Countable(u)
  BY <1>4, QuantityOfPart, SubsetCountable
<1>6. Quantity(u) \in Nat /\ Quantity(t) \in Nat
  BY <1>4, <1>5, QuantityStep
<1> QED
  BY <1>5, <1>6 DEF t, u

\* A request in flight still fits, when its service is the same and its pools are not fuller.
LEMMA ExactStays ==
  ASSUME BookingInv, AmountInv, NEW req, InFlight(req), Exact(req),
         req.op = "move" => /\ service'[req.key].item = service[req.key].item
                            /\ service'[req.key].size = service[req.key].size
                            /\ req.plan # None => service'[req.key].status = service[req.key].status,
         req.plan # None => \A p \in req.plan : p.group \in PoolGroups => Taken(p)' \subseteq Taken(p)
  PROVE  Exact(req)'
<1>1. ASSUME req.plan # None, NEW p \in req.plan, p.group \in PoolGroups
      PROVE  Quantity(Taken(p)') + p.qty <= Capacity[p.group]
  <2>1. Taken(p)' \subseteq Taken(p)
    BY <1>1
  <2>2. p \in Allocations
    BY <1>1 DEF InFlight
  <2> DEFINE t == Quantity(Taken(p))
             u == Quantity(Taken(p)')
             q == p.qty
             c == Capacity[p.group]
  <2>3. u <= t /\ u \in Nat /\ t \in Nat
    BY <2>1, TakenShrinks
  <2>4. t + q <= c
    BY <1>1 DEF Exact
  <2>5. q \in Nat /\ c \in Nat
    BY <1>1, <2>2, Supply DEF Allocations
  <2> HIDE DEF t, u, q, c
  <2>6. u + q <= c
    BY <2>3, <2>4, <2>5
  <2> QED BY <2>6 DEF t, u, q, c
<1> QED
  BY <1>1 DEF Exact

-----------------------------------------------------------------------------
(* Steps that keep the amounts *)

\* A step of one handler that writes no row.
LEMMA HandlerKeepsAmounts ==
  ASSUME BookingInv, AmountInv, NEW h \in Handlers, NEW r,
         handler' = [handler EXCEPT ![h] = r], UNCHANGED <<service, alloc, block, stay>>,
         r # Idle => Exact(r)
  PROVE  AmountInv'
<1>1. \A j \in Handlers : handler'[j] = IF j = h THEN r ELSE handler[j]
  BY DEF BookingInv, HandlersInv
<1>2. IsFiniteSet(alloc)' /\ AllocationsFollowService' /\ PoolsSuffice'
  BY DEF AmountInv, AllocationsFollowService, PoolsSuffice
<1>3. ASSUME NEW q, Exact(q) PROVE Exact(q)'
  <2>1. \A p : Taken(p)' = Taken(p)
    BY DEF Taken
  <2> QED BY <1>3, <2>1 DEF Exact
<1>4. \A q : Exact(q) => Exact(q)'
  BY <1>3
<1>5. (\A j \in Handlers : handler[j] # Idle => Exact(handler[j]))'
  BY <1>1, <1>4 DEF AmountInv
<1> QED
  BY <1>2, <1>5 DEF AmountInv

LEMMA GiveUpKeepsAmounts == ASSUME BookingInv, AmountInv, NEW h \in Handlers, GiveUp(h) PROVE AmountInv'
<1>1. handler' = [handler EXCEPT ![h] = Idle] /\ UNCHANGED <<service, alloc, block, stay>>
  BY DEF GiveUp
<1> QED
  BY <1>1, HandlerKeepsAmounts

LEMMA BookKeepsAmounts ==
  ASSUME BookingInv, AmountInv, NEW h \in Handlers, NEW k \in Services, NEW ask \in Asks,
         Book(h, k, ask) \/ AgentBook(h, k, ask)
  PROVE  AmountInv'
<1>1. PICK row, pick, wants : Begin(h, "book", k, row, pick, wants)
  BY DEF Book, AgentBook
<1> DEFINE r == [op |-> "book", key |-> k, ask |-> row, pick |-> pick, wants |-> wants, held |-> {}, plan |-> None]
<1>2. handler' = [handler EXCEPT ![h] = r] /\ UNCHANGED <<service, alloc, block, stay>>
  BY <1>1 DEF Begin
<1>3. Exact(r)
  BY DEF Exact
<1> HIDE DEF r
<1> QED
  BY <1>2, <1>3, HandlerKeepsAmounts

LEMMA MoveKeepsAmounts ==
  ASSUME BookingInv, AmountInv, NEW h \in Handlers, NEW k \in Services, NEW move \in Moves,
         Reschedule(h, k, move) \/ AgentReschedule(h, k, move)
  PROVE  AmountInv'
<1> DEFINE groups == GroupLocks(service[k].item)
           own == <<k>>
           row == Moved(k, move.slot)
<1>1. service[k] # Absent
  BY DEF Reschedule, AgentReschedule, Absent
<1>2. service[k] \in Rows /\ service[k].item \in Items
  BY <1>1 DEF BookingInv, RowsInv, Booked
<1>3. groups \in Seq(Locks)
  BY <1>2, Locked
<1>4. own \in Seq(Locks) /\ Range(own) = {k}
  BY Single DEF Locks
<1>5. row.item = service[k].item /\ row.size = service[k].size
  BY <1>2 DEF Moved, Asked, Rows
<1>6. PICK wants \in {own \o groups, groups \o own}, pick \in {move.pick, None} : Begin(h, "move", k, row, pick, wants)
  BY DEF Reschedule, AgentReschedule
<1> HIDE DEF groups, own, row
<1>7. k \in Range(wants)
  <2>1. Range(own \o groups) = Range(own) \cup Range(groups) /\ Range(groups \o own) = Range(groups) \cup Range(own)
    BY <1>3, <1>4, Concatenated
  <2> QED BY <1>4, <1>6, <2>1
<1> DEFINE r == [op |-> "move", key |-> k, ask |-> row, pick |-> pick, wants |-> wants, held |-> {}, plan |-> None]
<1>8. handler' = [handler EXCEPT ![h] = r] /\ UNCHANGED <<service, alloc, block, stay>>
  BY <1>6 DEF Begin
<1>9. Exact(r)
  BY <1>5, <1>7 DEF Exact
<1> HIDE DEF r
<1> QED
  BY <1>8, <1>9, HandlerKeepsAmounts

LEMMA AcquireKeepsAmounts == ASSUME BookingInv, AmountInv, NEW h \in Handlers, AcquireLock(h) PROVE AmountInv'
<1> DEFINE req == handler[h]
           r == [req EXCEPT !.held = @ \cup {Head(req.wants)}, !.wants = Tail(@)]
<1>1. req.wants # <<>> /\ UNCHANGED <<service, alloc, block, stay>> /\ handler' = [handler EXCEPT ![h] = r]
  BY DEF AcquireLock, BookingInv, HandlersInv
<1>2. InFlight(req) /\ Exact(req)
  BY <1>1 DEF BookingInv, HandlersInv, AmountInv, Idle
<1>3. req.wants \in Seq(Locks) /\ req.plan = None
  BY <1>1, <1>2 DEF InFlight
<1>4. Range(req.wants) \subseteq {Head(req.wants)} \cup Range(Tail(req.wants))
  BY <1>1, <1>3, TakesTheFirst
<1>5. /\ r.held = req.held \cup {Head(req.wants)} /\ r.wants = Tail(req.wants) /\ r.plan = None
      /\ r.op = req.op /\ r.key = req.key /\ r.ask = req.ask
  BY <1>2, <1>3 DEF InFlight
<1> HIDE DEF r
<1>6. Exact(r)
  BY <1>2, <1>4, <1>5 DEF Exact
<1> QED
  BY <1>1, <1>6, HandlerKeepsAmounts

LEMMA AssessKeepsAmounts == ASSUME BookingInv, AmountInv, NEW h \in Handlers, Assess(h) PROVE AmountInv'
<1> DEFINE req == handler[h]
           plan == Assignments(req.ask.item, req.key, req.ask.slot, req.ask.size, req.pick)
           r == [req EXCEPT !.plan = plan]
<1>1. /\ req.op # "idle" /\ Granted(req) /\ UNCHANGED <<service, alloc, block, stay>>
      /\ handler' = [handler EXCEPT ![h] = r]
  BY DEF Assess, Ready, BookingInv, HandlersInv
<1>2. InFlight(req) /\ Exact(req)
  BY <1>1 DEF BookingInv, HandlersInv, AmountInv, Idle
<1>3. /\ req.ask.item \in Items /\ req.key \in Services /\ req.ask.slot \in Slots /\ req.ask.size \in Nat
      /\ Available(req.ask.item, req.key, req.ask.slot, req.ask.size, req.pick)
      /\ req.op = "move" => service[req.key].status = "scheduled"
  BY <1>1, <1>2 DEF InFlight, Granted, Rows
<1>4. /\ IsFiniteSet(plan) /\ Fits(plan, req.key, req.ask.item, req.ask.size, req.ask.slot)
      /\ \A p \in plan : p.group \in PoolGroups =>
           p.piece = None /\ p.qty = DemandFor(req.ask.item, p.group, req.ask.size)
           /\ p.qty <= PoolLeft(p.group, req.key, req.ask.slot)
  BY <1>3, PlanFits
<1>5. \A p \in plan : p \in Allocations /\ p.key = req.key /\ p.slot = req.ask.slot
  BY <1>3, AssignedIsFree
<1> HIDE DEF plan
<1>6. ASSUME NEW p \in plan, p.group \in PoolGroups PROVE Quantity(Taken(p)) + p.qty <= Capacity[p.group]
  <2> DEFINE t == Quantity(Taken(p))
             q == p.qty
             c == Capacity[p.group]
  <2>1. t \in Nat /\ q <= c - t
    BY <1>4, <1>5, <1>6, LeftOfPool
  <2>2. q \in Nat /\ c \in Nat
    BY <1>5, <1>6, Supply DEF Allocations
  <2> HIDE DEF t, q, c
  <2>3. t + q <= c
    BY <2>1, <2>2
  <2> QED BY <2>3 DEF t, q, c
<1>7. /\ r.plan = plan /\ r.held = req.held /\ r.wants = req.wants
      /\ r.op = req.op /\ r.key = req.key /\ r.ask = req.ask
  BY <1>2 DEF InFlight
<1> HIDE DEF r
<1>8. Exact(r)
  BY <1>2, <1>3, <1>4, <1>6, <1>7 DEF Exact
<1> QED
  BY <1>1, <1>8, HandlerKeepsAmounts

\* A handler that takes its locks at once frees allocations, and leaves the services that
\* are being moved alone.
LEMMA AtOnceKeepsAmounts ==
  ASSUME BookingInv, AmountInv, handler' = handler, alloc' \subseteq alloc,
         AllocationsFollowService',
         \A l \in Services : service[l] # Absent =>
           /\ service'[l].item = service[l].item /\ service'[l].size = service[l].size
           /\ ~LockFree(l) => service'[l].status = service[l].status
  PROVE  AmountInv'
<1>1. IsFiniteSet(alloc)'
  BY FS_Subset DEF AmountInv
<1>2. PoolsSuffice'
  <2> SUFFICES ASSUME NEW g \in PoolGroups, NEW s \in Slots
               PROVE  Quantity({a \in alloc' : a.group = g /\ a.slot[1] <= s[1] /\ s[1] < a.slot[2]}) <= Capacity[g]
    BY DEF PoolsSuffice
  <2> DEFINE of(as) == {a \in as : a.group = g /\ a.slot[1] <= s[1] /\ s[1] < a.slot[2]}
             t == of(alloc)
             u == of(alloc')
             c == Capacity[g]
  <2>1. Countable(alloc)
    BY AllocationsCount DEF AmountInv, BookingInv, RowsInv
  <2>2. u \in SUBSET t /\ t \in SUBSET alloc
    OBVIOUS
  <2>3. Quantity(t) <= c /\ c \in Nat
    BY Supply DEF AmountInv, PoolsSuffice
  <2> HIDE DEF t, u, c
  <2>4. Countable(t) /\ Countable(u)
    BY <2>1, <2>2, SubsetCountable
  <2>5. Quantity(u) <= Quantity(t)
    BY <2>2, <2>4, QuantityOfPart
  <2>6. Quantity(u) \in Nat /\ Quantity(t) \in Nat
    BY <2>4, QuantityStep
  <2>7. Quantity(u) <= c
    BY <2>3, <2>5, <2>6
  <2> QED BY <2>7 DEF u, c
<1>3. ASSUME NEW req, InFlight(req), Exact(req), NEW h \in Handlers, handler[h] = req PROVE Exact(req)'
  <2>1. ASSUME req.op = "move"
        PROVE  /\ service'[req.key].item = service[req.key].item /\ service'[req.key].size = service[req.key].size
               /\ req.plan # None => service'[req.key].status = service[req.key].status
    <3>1. req.key \in Services /\ service[req.key] # Absent
      BY <1>3, <2>1 DEF InFlight
    <3>2. ASSUME req.plan # None PROVE ~LockFree(req.key)
      <4>1. req.wants = <<>> /\ req.key \in req.held \cup Range(req.wants)
        BY <1>3, <2>1, <3>2 DEF InFlight, Exact
      <4>2. Range(req.wants) = {}
        BY <4>1 DEF Range
      <4> QED BY <1>3, <4>1, <4>2 DEF LockFree
    <3> QED BY <3>1, <3>2
  <2>2. \A p : Taken(p)' \subseteq Taken(p)
    BY DEF Taken
  <2> QED BY <1>3, <2>1, <2>2, ExactStays
<1>4. \A q : InFlight(q) /\ Exact(q) /\ (\E h \in Handlers : handler[h] = q) => Exact(q)'
  BY <1>3
<1>5. \A h \in Handlers : handler[h] # Idle => InFlight(handler[h]) /\ Exact(handler[h])
  BY DEF BookingInv, HandlersInv, AmountInv
<1>6. (\A h \in Handlers : handler[h] # Idle => Exact(handler[h]))'
  BY <1>4, <1>5
<1> QED
  BY <1>1, <1>2, <1>6 DEF AmountInv

\* A plan that replaces what its service had leaves every pool enough.
LEMMA CommitSuffices ==
  ASSUME BookingInv, AmountInv, NEW h \in Handlers, handler[h].plan # None,
         alloc' = {a \in alloc : a.key # handler[h].key} \cup handler[h].plan
  PROVE  PoolsSuffice'
<1> DEFINE req == handler[h]
           k == req.key
<1>1. InFlight(req) /\ Planned(req) /\ Exact(req)
  BY PlansHold DEF AmountInv, Idle
<1>2. alloc \subseteq Allocations /\ Countable(alloc) /\ \A a \in alloc : Sound(a)
  BY AllocationsCount DEF AmountInv, BookingInv, RowsInv
<1>3. req.plan \subseteq Allocations /\ Countable(req.plan)
  BY <1>1, AllocationsCount DEF InFlight, Exact
<1>4. \A p \in req.plan : p.key = k /\ p.slot = req.ask.slot
  BY <1>1 DEF Planned
<1>5. \A p \in req.plan : p.group \in PoolGroups =>
        /\ p.piece = None /\ p.qty = DemandFor(req.ask.item, p.group, req.ask.size)
        /\ Quantity(Taken(p)) + p.qty <= Capacity[p.group]
  BY <1>1 DEF Exact
<1> SUFFICES ASSUME NEW g \in PoolGroups, NEW s \in Slots
             PROVE  Quantity({a \in alloc' : a.group = g /\ a.slot[1] <= s[1] /\ s[1] < a.slot[2]}) <= Capacity[g]
  BY DEF PoolsSuffice
<1> DEFINE Covers(a) == a.group = g /\ a.slot[1] <= s[1] /\ s[1] < a.slot[2]
           old == {a \in alloc : Covers(a)}
           new == {a \in alloc' : Covers(a)}
           c == Capacity[g]
<1>6. old \in SUBSET alloc /\ Quantity(old) <= c /\ c \in Nat /\ Countable(old)
  <2>1. old \in SUBSET alloc /\ Quantity(old) <= c /\ c \in Nat
    BY Supply DEF AmountInv, PoolsSuffice
  <2> HIDE DEF old
  <2> QED BY <1>2, <2>1, SubsetCountable
<1>7. ASSUME \A p \in req.plan : ~Covers(p) PROVE Quantity(new) <= c
  <2>1. new \in SUBSET old
    BY <1>7
  <2> HIDE DEF old, new, c
  <2>2. Quantity(new) <= Quantity(old) /\ Countable(new)
    BY <1>6, <2>1, QuantityOfPart, SubsetCountable
  <2>3. Quantity(new) \in Nat /\ Quantity(old) \in Nat
    BY <1>6, <2>2, QuantityStep
  <2> QED BY <1>6, <2>2, <2>3
<1>8. ASSUME NEW p \in req.plan, Covers(p) PROVE Quantity(new) <= c
  <2> DEFINE taken == Taken(p)
  <2>1. Quantity(taken) + p.qty <= c /\ p.piece = None
    BY <1>5, <1>8
  <2>2. \A q \in req.plan : Covers(q) => q = p
    <3> SUFFICES ASSUME NEW q \in req.plan, Covers(q) PROVE q = p
      OBVIOUS
    <3>1. q.key = p.key /\ q.group = p.group /\ q.slot = p.slot /\ q.piece = p.piece /\ q.qty = p.qty
      BY <1>4, <1>5, <1>8
    <3>2. q \in Allocations /\ p \in Allocations
      BY <1>3
    <3> QED BY <3>1, <3>2 DEF Allocations
  <2>3. \A a \in alloc : Covers(a) /\ a.key # k => a \in taken
    <3> SUFFICES ASSUME NEW a \in alloc, Covers(a), a.key # k PROVE a \in taken
      OBVIOUS
    <3>1. a.piece = None
      BY <1>2, PiecesInGroups, GroupsInOrder DEF Sound
    <3>2. /\ a.slot[1] \in Nat /\ a.slot[2] \in Nat /\ p.slot[1] \in Nat /\ p.slot[2] \in Nat /\ s[1] \in Nat
      BY <1>2, <1>3, SlotsForward DEF Allocations
    <3>3. Meets(a.slot, p.slot)
      BY <1>8, <3>2 DEF Meets
    <3> QED BY <1>4, <1>8, <3>1, <3>3 DEF Taken
  <2>4. new \in SUBSET (taken \cup {p})
    BY <2>2, <2>3
  <2>5. Countable(taken)
    <3>1. taken \in SUBSET alloc
      BY DEF Taken
    <3> HIDE DEF taken
    <3> QED BY <1>2, <3>1, SubsetCountable
  <2>6. p.qty \in Nat
    BY <1>3 DEF Allocations
  <2> HIDE DEF taken, new, c
  <2>7. Quantity(taken \cup {p}) <= Quantity(taken) + p.qty /\ Countable(taken \cup {p})
    BY <2>5, <2>6, QuantityWith
  <2> DEFINE both == taken \cup {p}
  <2>8. new \in SUBSET both /\ Countable(both) /\ Quantity(both) <= Quantity(taken) + p.qty
    BY <2>4, <2>7
  <2> HIDE DEF both
  <2>9. Quantity(new) <= Quantity(both) /\ Countable(new)
    BY <2>8, QuantityOfPart, SubsetCountable
  <2>10. Quantity(new) \in Nat /\ Quantity(both) \in Nat /\ Quantity(taken) \in Nat
    BY <2>5, <2>8, <2>9, QuantityStep
  <2> DEFINE n == Quantity(new)
             b == Quantity(both)
             t == Quantity(taken)
             q == p.qty
  <2>11. n <= b /\ b <= t + q /\ t + q <= c /\ n \in Nat /\ b \in Nat /\ t \in Nat /\ q \in Nat /\ c \in Nat
    BY <1>6, <2>1, <2>6, <2>8, <2>9, <2>10
  <2> HIDE DEF n, b, t, q
  <2>12. n <= c
    BY <2>11
  <2> QED BY <2>12 DEF n
<1> QED
  BY <1>7, <1>8

LEMMA CommitKeepsAmounts == ASSUME BookingInv, AmountInv, NEW h \in Handlers, Commit(h) PROVE AmountInv'
<1> DEFINE req == handler[h]
           k == req.key
<1>1. /\ req.plan # None /\ handler' = [handler EXCEPT ![h] = Idle]
      /\ req.op = "book" => service[k] = Absent
      /\ alloc' = {a \in alloc : a.key # k} \cup req.plan
      /\ service' = [service EXCEPT ![k] = IF req.op = "book" THEN req.ask ELSE [@ EXCEPT !.slot = req.ask.slot]]
  BY DEF Commit, Written
<1>2. InFlight(req) /\ Planned(req) /\ Exact(req)
  BY <1>1, PlansHold DEF AmountInv, Idle
<1>3. /\ k \in Services /\ req.ask \in Rows /\ req.ask.status = "scheduled" /\ req.op \in {"book", "move"}
      /\ req.op = "move" => service[k] # Absent
  BY <1>2 DEF InFlight
<1>4. /\ \A l \in Services \ {k} : service'[l] = service[l]
      /\ service'[k] = IF req.op = "book" THEN req.ask ELSE [service[k] EXCEPT !.slot = req.ask.slot]
      /\ service[k] \in Rows
  BY <1>1, <1>3 DEF BookingInv, RowsInv
<1>5. /\ service'[k].status = "scheduled" /\ service'[k].item = req.ask.item
      /\ service'[k].size = req.ask.size /\ service'[k].slot = req.ask.slot
  BY <1>1, <1>2, <1>3, <1>4 DEF Rows, Exact
<1>6. \A p \in req.plan : p.key = k
  BY <1>2 DEF Planned
<1>7. \A j \in Handlers : handler'[j] = IF j = h THEN Idle ELSE handler[j]
  BY <1>1 DEF BookingInv, HandlersInv
<1>8. IsFiniteSet(alloc)'
  <2>1. IsFiniteSet({a \in alloc : a.key # k})
    BY FS_Subset DEF AmountInv
  <2> QED BY <1>1, <1>2, <2>1, FS_Union DEF Exact
<1>9. AllocationsFollowService'
  <2> SUFFICES ASSUME NEW l \in Services, NEW g \in Groups
               PROVE  IF service'[l].status \in {"scheduled", "completed"} /\ g \in Requires[service'[l].item]
                        THEN /\ Quantity(Own(alloc', l, g)) = DemandFor(service'[l].item, g, service'[l].size)
                             /\ \A a \in Own(alloc', l, g) : a.slot = service'[l].slot
                        ELSE Own(alloc', l, g) = {}
    BY DEF AllocationsFollowService, Own
  <2>1. CASE l = k
    <3>1. Own(alloc', k, g) = Own(req.plan, k, g)
      BY <1>1, <1>6 DEF Own
    <3>2. IF g \in Requires[req.ask.item]
            THEN /\ Quantity(Own(req.plan, k, g)) = DemandFor(req.ask.item, g, req.ask.size)
                 /\ \A a \in Own(req.plan, k, g) : a.slot = req.ask.slot
            ELSE Own(req.plan, k, g) = {}
      BY <1>1, <1>2 DEF Exact, Fits
    <3> HIDE DEF req, k
    <3> QED BY <1>5, <2>1, <3>1, <3>2
  <2>2. CASE l # k
    <3>1. Own(alloc', l, g) = Own(alloc, l, g)
      BY <1>1, <1>6, <2>2 DEF Own
    <3>2. IF service[l].status \in {"scheduled", "completed"} /\ g \in Requires[service[l].item]
            THEN /\ Quantity(Own(alloc, l, g)) = DemandFor(service[l].item, g, service[l].size)
                 /\ \A a \in Own(alloc, l, g) : a.slot = service[l].slot
            ELSE Own(alloc, l, g) = {}
      BY DEF AmountInv, AllocationsFollowService, Own
    <3>3. service'[l] = service[l]
      BY <1>4, <2>2
    <3> QED BY <3>1, <3>2, <3>3
  <2> QED BY <2>1, <2>2
<1>10. PoolsSuffice'
  BY <1>1, CommitSuffices
<1>11. ASSUME NEW q, InFlight(q), Exact(q), NEW j \in Handlers \ {h}, handler[j] = q PROVE Exact(q)'
  <2>1. ASSUME q.op = "move"
        PROVE  /\ service'[q.key].item = service[q.key].item /\ service'[q.key].size = service[q.key].size
               /\ service'[q.key].status = service[q.key].status
    <3>1. q.key \in Services /\ service[q.key] # Absent
      BY <1>11, <2>1 DEF InFlight
    <3>2. CASE q.key # k
      BY <1>4, <3>1, <3>2
    <3>3. CASE q.key = k
      <4>1. req.op = "move"
        BY <1>1, <1>3, <3>1, <3>3
      <4> QED BY <1>4, <3>3, <4>1 DEF Rows
    <3> QED BY <3>2, <3>3
  <2>2. ASSUME q.plan # None, NEW p \in q.plan, p.group \in PoolGroups PROVE Taken(p)' \subseteq Taken(p)
    <3>1. p.group \in q.held
      BY <1>11, <2>2, PlansHold DEF Planned, Needs
    <3>2. \A x \in req.plan : x.group \in req.held
      BY <1>1, PlansHold DEF Planned, Needs
    <3>3. \A x \in req.plan : x.group # p.group
      BY <1>11, <3>1, <3>2 DEF BookingInv, LocksExclude
    <3> QED BY <1>1, <3>3 DEF Taken
  <2> QED BY <1>11, <2>1, <2>2, ExactStays
<1>12. \A q : InFlight(q) /\ Exact(q) /\ (\E j \in Handlers \ {h} : handler[j] = q) => Exact(q)'
  BY <1>11
<1>13. \A j \in Handlers : handler[j] # Idle => InFlight(handler[j]) /\ Exact(handler[j])
  BY DEF BookingInv, HandlersInv, AmountInv
<1>14. (\A j \in Handlers : handler[j] # Idle => Exact(handler[j]))'
  BY <1>7, <1>12, <1>13
<1> QED
  BY <1>8, <1>9, <1>10, <1>14 DEF AmountInv

LEMMA StatusKeepsAmounts ==
  ASSUME BookingInv, AmountInv, NEW k \in Services, NEW status \in {"completed", "cancelled"},
         ChangeServiceStatus(k, status)
  PROVE  AmountInv'
<1>1. /\ LockFree(k) /\ service[k].status = "scheduled" /\ service' = [service EXCEPT ![k].status = status]
      /\ alloc' = IF status = "cancelled" THEN {a \in alloc : a.key # k} ELSE alloc
      /\ handler' = handler
  BY DEF ChangeServiceStatus
<1>2. service[k] \in Rows
  BY DEF BookingInv, RowsInv
<1>3. /\ service'[k].item = service[k].item /\ service'[k].slot = service[k].slot
      /\ service'[k].size = service[k].size /\ service'[k].status = status
      /\ \A l \in Services \ {k} : service'[l] = service[l]
  BY <1>1, <1>2 DEF BookingInv, RowsInv, Rows
<1>4. AllocationsFollowService'
  <2> SUFFICES ASSUME NEW l \in Services, NEW g \in Groups
               PROVE  IF service'[l].status \in {"scheduled", "completed"} /\ g \in Requires[service'[l].item]
                        THEN /\ Quantity(Own(alloc', l, g)) = DemandFor(service'[l].item, g, service'[l].size)
                             /\ \A a \in Own(alloc', l, g) : a.slot = service'[l].slot
                        ELSE Own(alloc', l, g) = {}
    BY DEF AllocationsFollowService, Own
  <2>1. CASE l = k /\ status = "cancelled"
    <3>1. Own(alloc', k, g) = {}
      BY <1>1, <2>1 DEF Own
    <3> QED BY <1>3, <2>1, <3>1
  <2>2. CASE l # k \/ status = "completed"
    <3>1. Own(alloc', l, g) = Own(alloc, l, g)
      BY <1>1, <2>2 DEF Own
    <3> QED BY <1>1, <1>3, <2>2, <3>1 DEF AmountInv, AllocationsFollowService, Own
  <2> QED BY <2>1, <2>2
<1>5. alloc' \subseteq alloc
  BY <1>1
<1>6. \A l \in Services : ~LockFree(l) => l # k
  BY <1>1
<1> QED
  BY <1>1, <1>3, <1>4, <1>5, <1>6, AtOnceKeepsAmounts

LEMMA LinkKeepsAmounts ==
  ASSUME BookingInv, AmountInv, NEW k \in Services, NEW r \in Stays, LinkServiceToReservation(k, r)
  PROVE  AmountInv'
<1>1. service' = [service EXCEPT ![k].stay = r] /\ UNCHANGED <<alloc, handler>>
  BY DEF LinkServiceToReservation
<1>2. service[k] \in Rows
  BY DEF BookingInv, RowsInv
<1>3. \A l \in Services :
        /\ service'[l].item = service[l].item /\ service'[l].slot = service[l].slot
        /\ service'[l].size = service[l].size /\ service'[l].status = service[l].status
  BY <1>1, <1>2 DEF BookingInv, RowsInv, Rows
<1>4. AllocationsFollowService'
  BY <1>1, <1>3 DEF AmountInv, AllocationsFollowService
<1> QED
  BY <1>1, <1>3, <1>4, AtOnceKeepsAmounts

LEMMA OthersKeepAmounts ==
  ASSUME BookingInv, AmountInv, UNCHANGED <<service, alloc, handler>>
  PROVE  AmountInv'
<1>1. AllocationsFollowService'
  BY DEF AmountInv, AllocationsFollowService
<1> QED
  BY <1>1, AtOnceKeepsAmounts

LEMMA TransactionKeepsAmounts == ASSUME BookingInv, AmountInv, NEW h \in Handlers, Transaction(h) PROVE AmountInv'
<1>1. ASSUME NEW k \in Services, NEW ask \in Asks, Book(h, k, ask) \/ AgentBook(h, k, ask) PROVE AmountInv'
  BY <1>1, BookKeepsAmounts
<1>2. ASSUME NEW k \in Services, NEW move \in Moves, Reschedule(h, k, move) \/ AgentReschedule(h, k, move)
      PROVE  AmountInv'
  BY <1>2, MoveKeepsAmounts
<1>3. CASE Refuse(h) \/ BreakDeadlock(h) \/ Rollback(h)
  BY <1>3, GiveUpKeepsAmounts DEF Refuse, BreakDeadlock, Rollback
<1> QED
  BY <1>1, <1>2, <1>3, AcquireKeepsAmounts, AssessKeepsAmounts, CommitKeepsAmounts DEF Transaction

LEMMA AmountsFromTheStart == Init => AmountInv
<1> SUFFICES ASSUME Init PROVE AmountInv
  OBVIOUS
<1> USE DEF Init
<1>1. IsFiniteSet(alloc) /\ \A k, g : Own(alloc, k, g) = {}
  BY FS_EmptySet DEF Own
<1>2. \A k \in Services : service[k].status = "none"
  BY DEF Absent
<1>3. AllocationsFollowService
  BY <1>2 DEF AllocationsFollowService
<1>4. PoolsSuffice
  <2>1. Countable({}) 
    BY FS_EmptySet DEF Countable
  <2>2. Quantity({}) = 0
    BY <2>1, QuantityStep
  <2>3. \A g \in PoolGroups : 0 <= Capacity[g]
    BY Supply
  <2>4. \A g, s : {a \in alloc : a.group = g /\ a.slot[1] <= s[1] /\ s[1] < a.slot[2]} = {}
    OBVIOUS
  <2> QED BY <2>2, <2>3, <2>4 DEF PoolsSuffice
<1>5. \A h \in Handlers : handler[h] = Idle
  OBVIOUS
<1> QED
  BY <1>1, <1>3, <1>4, <1>5 DEF AmountInv

\* Pools have room for every plan in flight, and every service has what its item asks for.
THEOREM AmountInvariant == Spec => []AmountInv
<1>1. BookingInv /\ AmountInv /\ [Next]_vars => AmountInv'
  <2> SUFFICES ASSUME BookingInv, AmountInv, [Next]_vars PROVE AmountInv'
    OBVIOUS
  <2>1. ASSUME NEW h \in Handlers, Transaction(h) PROVE AmountInv'
    BY <2>1, TransactionKeepsAmounts
  <2>2. ASSUME NEW k \in Services, NEW status \in {"completed", "cancelled"}, ChangeServiceStatus(k, status)
        PROVE  AmountInv'
    BY <2>2, StatusKeepsAmounts
  <2>3. ASSUME NEW k \in Services, NEW r \in Stays, LinkServiceToReservation(k, r) PROVE AmountInv'
    BY <2>3, LinkKeepsAmounts
  <2>4. ASSUME NEW g \in Groups, NEW u \in Resources \cup {None}, NEW slot \in Slots, CreateBlock(g, u, slot)
        PROVE  AmountInv'
    BY <2>4, OthersKeepAmounts DEF CreateBlock
  <2>5. ASSUME NEW b \in block, CancelBlock(b) PROVE AmountInv'
    BY <2>5, OthersKeepAmounts DEF CancelBlock
  <2>6. ASSUME NEW r \in Stays, CheckOut(r) \/ CancelReservation(r) PROVE AmountInv'
    BY <2>6, OthersKeepAmounts DEF CheckOut, CancelReservation
  <2>7. CASE UNCHANGED vars
    BY <2>7, OthersKeepAmounts DEF vars
  <2> QED BY <2>1, <2>2, <2>3, <2>4, <2>5, <2>6, <2>7 DEF Next
<1> QED
  BY AmountsFromTheStart, BookingInvariant, <1>1, PTL DEF Spec

\* A scheduled or finished service holds what its item asks for, at its time; a cancelled
\* one holds nothing.
THEOREM ServicesHoldTheirShare == Spec => []AllocationsFollowService
<1>1. AmountInv => AllocationsFollowService
  BY DEF AmountInv
<1> QED
  BY AmountInvariant, <1>1, PTL

\* No piece twice, no pool beyond its capacity, nothing that is blocked.
THEOREM NeverOverbooked == Spec => []NoOverbooking
<1>1. BookingInv /\ AmountInv => NoOverbooking
  BY DEF BookingInv, AmountInv, NoOverbooking
<1> QED
  BY BookingInvariant, AmountInvariant, <1>1, PTL

=============================================================================
