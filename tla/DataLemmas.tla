----------------------------- MODULE DataLemmas -----------------------------
(***************************************************************************)
(* Facts about numbers, sets, sums and sequences that the proofs of        *)
(* several components need.  An induction is made here by the choice of a  *)
(* least counterexample from a set, so that no operator is a parameter.    *)
(***************************************************************************)
EXTENDS Integers, FiniteSets, Functions, FiniteSetTheorems, WellFoundedInduction, TLAPS

-----------------------------------------------------------------------------
(* Least elements.                                                         *)

\* A set of natural numbers that is not empty has a least element.
LEMMA LeastNatural ==
    ASSUME NEW T, T \subseteq Nat, T # {}
    PROVE  \E n \in T : \A m \in T : n <= m
  <1> DEFINE R == OpToRel(<, Nat)
  <1>1. IsWellFoundedOn(R, Nat)
    BY NatLessThanWellFounded
  <1>2. \A x, y \in Nat : x < y => <<x, y>> \in R
    BY DEF OpToRel
  <1> HIDE DEF R
  <1>3. PICK x \in T : \A y \in T : ~ (<<y, x>> \in R)
    BY <1>1, WFMin
  <1>4. \A y \in T : ~(y < x)
    BY <1>2, <1>3
  <1> QED  BY <1>4

\* What holds of 0 and passes from n to n + 1 holds of every natural number.
LEMMA NaturalInduction ==
    ASSUME NEW S, 0 \in S, \A n \in Nat : n \in S => n + 1 \in S
    PROVE  Nat \subseteq S
  <1> SUFFICES ASSUME Nat \ S # {} PROVE FALSE
    OBVIOUS
  <1>1. PICK n \in Nat \ S : \A m \in Nat \ S : n <= m
    BY LeastNatural
  <1>2. n # 0 /\ n - 1 \in Nat
    BY <1>1
  <1>3. n - 1 \in S
    BY <1>1, <1>2
  <1> QED  BY <1>1, <1>2, <1>3

\* Among some subsets of a finite set there is a smallest one.
LEMMA SmallestSet ==
    ASSUME NEW S, IsFiniteSet(S), NEW F, F \subseteq SUBSET S, F # {}
    PROVE  \E T \in F : \A U \in F : U \subseteq T => U = T
  <1> DEFINE sizes == {Cardinality(T) : T \in F}
  <1>1. \A T \in F : IsFiniteSet(T) /\ Cardinality(T) \in Nat
    BY FS_Subset, FS_CardinalityType
  <1>2. sizes \subseteq Nat /\ sizes # {}
    BY <1>1
  <1>3. PICK n \in sizes : \A m \in sizes : n <= m
    BY <1>2, LeastNatural
  <1>4. PICK T \in F : n = Cardinality(T)
    BY <1>3
  <1>5. ASSUME NEW U \in F, U \subseteq T PROVE U = T
    <2>1. Cardinality(T) <= Cardinality(U)
      BY <1>3, <1>4
    <2>2. Cardinality(U) <= Cardinality(T)
      BY <1>1, <1>5, FS_Subset
    <2>3. Cardinality(U) = Cardinality(T)
      BY <1>1, <2>1, <2>2
    <2> QED  BY <1>1, <1>5, <2>3, FS_Subset
  <1> QED  BY <1>5

\* A finite set of natural numbers that is not empty has a greatest element.
LEMMA GreatestNatural ==
    ASSUME NEW S, IsFiniteSet(S), S \subseteq Nat, S # {}
    PROVE  \E n \in S : \A m \in S : m <= n
  <1> DEFINE F == {T \in SUBSET S : T # {} /\ ~\E n \in T : \A m \in T : m <= n}
  <1> SUFFICES ASSUME F # {} PROVE FALSE
    OBVIOUS
  <1>1. PICK T \in F : \A U \in F : U \subseteq T => U = T
    <2>1. F \subseteq SUBSET S /\ IsFiniteSet(S) /\ F # {}
      OBVIOUS
    <2> HIDE DEF F
    <2> QED  BY ONLY <2>1, SmallestSet
  <1>2. PICK x \in T : x \in Nat
    OBVIOUS
  <1>3. CASE T = {x}
    BY <1>2, <1>3
  <1>4. CASE T # {x}
    <2>1. T \ {x} # {} /\ T \ {x} \notin F /\ T \ {x} \in SUBSET S
      BY <1>1, <1>2, <1>4
    <2>2. PICK y \in T \ {x} : \A m \in T \ {x} : m <= y
      BY <2>1
    <2>3. y \in Nat /\ \A m \in T : m \in Nat
      OBVIOUS
    <2>4. IF x <= y THEN \A m \in T : m <= y ELSE \A m \in T : m <= x
      BY <1>2, <2>2, <2>3
    <2> QED  BY <1>2, <2>4
  <1> QED  BY <1>3, <1>4

-----------------------------------------------------------------------------
(* Iterations: what a function defined by f[n] == G[f[n - 1]] is.          *)

IsIteration(a, G, f) == f = [n \in Nat |-> IF n = 0 THEN a ELSE G[f[n - 1]]]

\* The first values of an iteration.
IsTable(a, G, n, t) == t = [k \in 0..n |-> IF k = 0 THEN a ELSE G[t[k - 1]]]

LEMMA TableExists ==
    ASSUME NEW a, NEW G
    PROVE  \A n \in Nat : \E t : IsTable(a, G, n, t)
  <1> DEFINE T == {n \in Nat : \E t : IsTable(a, G, n, t)}
  <1>1. 0 \in T
    <2> DEFINE t == [k \in 0..0 |-> a]
    <2>1. t = [k \in 0..0 |-> IF k = 0 THEN a ELSE G[t[k - 1]]]
      OBVIOUS
    <2> HIDE DEF t
    <2>2. IsTable(a, G, 0, t)
      BY <2>1 DEF IsTable
    <2> QED  BY <2>2
  <1>2. ASSUME NEW n \in Nat, n \in T PROVE n + 1 \in T
    <2>1. PICK t : IsTable(a, G, n, t)
      BY <1>2
    <2> DEFINE u == [k \in 0..n + 1 |-> IF k = n + 1 THEN G[t[n]] ELSE t[k]]
               v == [k \in 0..n + 1 |-> IF k = 0 THEN a ELSE G[u[k - 1]]]
    <2>2. ASSUME NEW k \in 0..n + 1 PROVE u[k] = v[k]
      <3>1. CASE k = n + 1
        <4>1. n \in 0..n + 1 /\ n # n + 1 /\ k # 0
          BY <3>1
        <4> QED  BY <3>1, <4>1
      <3>2. CASE k = 0
        <4>1. k # n + 1 /\ k \in 0..n
          BY <3>2
        <4>2. t[k] = a
          BY <2>1, <3>2, <4>1 DEF IsTable
        <4> QED  BY <3>2, <4>1, <4>2
      <3>3. CASE k # 0 /\ k # n + 1
        <4>1. k \in 0..n /\ k - 1 \in 0..n + 1 /\ k - 1 # n + 1
          BY <3>3
        <4>2. t[k] = G[t[k - 1]]
          BY <2>1, <3>3, <4>1 DEF IsTable
        <4> QED  BY <3>3, <4>1, <4>2
      <3> QED  BY <3>1, <3>2, <3>3
    <2>3. u = v
      BY <2>2
    <2>4. u = [k \in 0..n + 1 |-> IF k = 0 THEN a ELSE G[u[k - 1]]]
      BY <2>3
    <2> HIDE DEF u, v
    <2>5. IsTable(a, G, n + 1, u)
      BY <2>4 DEF IsTable
    <2> QED  BY <2>5
  <1> HIDE DEF T
  <1>3. Nat \subseteq T
    BY <1>1, <1>2, NaturalInduction
  <1> QED  BY <1>3 DEF T

LEMMA TablesAgree ==
    ASSUME NEW a, NEW G, NEW n \in Nat, NEW m \in Nat, NEW t, NEW u,
           IsTable(a, G, n, t), IsTable(a, G, m, u)
    PROVE  \A k \in Nat : k <= n /\ k <= m => t[k] = u[k]
  <1> DEFINE T == {k \in Nat : k <= n /\ k <= m /\ t[k] # u[k]}
  <1> SUFFICES ASSUME T # {} PROVE FALSE
    OBVIOUS
  <1>1. PICK k \in T : \A j \in T : k <= j
    <2>1. T \subseteq Nat
      OBVIOUS
    <2> HIDE DEF T
    <2> QED  BY <2>1, LeastNatural
  <1>2. k # 0
    BY <1>1 DEF IsTable
  <1>3. k - 1 \in Nat /\ k - 1 <= n /\ k - 1 <= m /\ ~(k <= k - 1)
    BY <1>1, <1>2
  <1>4. t[k - 1] = u[k - 1]
    BY <1>1, <1>3
  <1>5. k \in 0..n /\ k \in 0..m
    BY <1>1
  <1>6. t[k] = G[t[k - 1]] /\ u[k] = G[u[k - 1]]
    BY <1>2, <1>5 DEF IsTable
  <1> QED  BY <1>1, <1>4, <1>6

LEMMA IterationExists == ASSUME NEW a, NEW G PROVE \E f : IsIteration(a, G, f)
  <1> DEFINE Table(n) == CHOOSE t : IsTable(a, G, n, t)
             f        == [n \in Nat |-> Table(n)[n]]
             g        == [n \in Nat |-> IF n = 0 THEN a ELSE G[f[n - 1]]]
  <1>1. \A n \in Nat : IsTable(a, G, n, Table(n))
    BY TableExists
  <1> HIDE DEF Table
  <1>2. ASSUME NEW n \in Nat PROVE f[n] = g[n]
    <2>1. Table(n)[n] = IF n = 0 THEN a ELSE G[Table(n)[n - 1]]
      <3>1. n \in 0..n /\ IsTable(a, G, n, Table(n))
        BY <1>1
      <3> QED  BY <3>1 DEF IsTable
    <2>2. CASE n = 0
      BY <2>1, <2>2
    <2>3. CASE n # 0
      <3>1. n - 1 \in Nat /\ n - 1 <= n /\ n - 1 <= n - 1
        BY <2>3
      <3>2. Table(n)[n - 1] = Table(n - 1)[n - 1]
        BY <1>1, <3>1, TablesAgree
      <3> QED  BY <2>1, <2>3, <3>1, <3>2
    <2> QED  BY <2>2, <2>3
  <1>3. f = g
    BY <1>2
  <1>4. f = [n \in Nat |-> IF n = 0 THEN a ELSE G[f[n - 1]]]
    BY <1>3
  <1> HIDE DEF f, g
  <1>5. IsIteration(a, G, f)
    BY <1>4 DEF IsIteration
  <1> QED  BY <1>5

-----------------------------------------------------------------------------
(* Sums over finite sets, SumFunctionOnSet of the module Functions.        *)

\* The function that the definition of a sum chooses.
IsSumTable(f, S, it) ==
    it = [s \in SUBSET S |->
             IF s = {} THEN 0
             ELSE f[CHOOSE x \in s : TRUE] + it[s \ {CHOOSE x \in s : TRUE}]]

LEMMA SumIsChosen ==
    ASSUME NEW f, NEW S
    PROVE  SumFunctionOnSet(f, S) = (CHOOSE it : IsSumTable(f, S, it))[S]
  BY DEF SumFunctionOnSet, FoldFunctionOnSet, MapThenFoldSet, IsSumTable

\* Two such tables agree where both are defined.
LEMMA SumTablesAgree ==
    ASSUME NEW f, NEW A, NEW B, IsFiniteSet(A), IsFiniteSet(B),
           NEW g, NEW h, IsSumTable(f, A, g), IsSumTable(f, B, h)
    PROVE  \A s \in SUBSET (A \cap B) : g[s] = h[s]
  <1> DEFINE F == {s \in SUBSET (A \cap B) : g[s] # h[s]}
  <1> SUFFICES ASSUME F # {} PROVE FALSE
    OBVIOUS
  <1>1. IsFiniteSet(A \cap B)
    BY FS_Intersection
  <1>2. PICK T \in F : \A U \in F : U \subseteq T => U = T
    <2>1. F \subseteq SUBSET (A \cap B)
      OBVIOUS
    <2> HIDE DEF F
    <2> QED  BY <1>1, <2>1, SmallestSet
  <1> DEFINE x == CHOOSE x \in T : TRUE
  <1>3. T # {} /\ x \in T
    BY <1>2 DEF IsSumTable
  <1>4. T \ {x} \in SUBSET (A \cap B) /\ T \ {x} # T
    BY <1>2, <1>3
  <1>5. g[T \ {x}] = h[T \ {x}]
    BY <1>2, <1>4
  <1>6. g[T] = f[x] + g[T \ {x}] /\ h[T] = f[x] + h[T \ {x}]
    BY <1>2, <1>3 DEF IsSumTable
  <1> QED  BY <1>2, <1>5, <1>6

\* Every finite set has one.
LEMMA SumTableExists ==
    ASSUME NEW f, NEW S, IsFiniteSet(S)
    PROVE  \E it : IsSumTable(f, S, it)
  <1> DEFINE F == {s \in SUBSET S : ~ \E it : IsSumTable(f, s, it)}
  <1> SUFFICES ASSUME F # {} PROVE FALSE
    BY DEF F
  <1>1. PICK T \in F : \A U \in F : U \subseteq T => U = T
    <2>1. F \subseteq SUBSET S
      OBVIOUS
    <2> HIDE DEF F
    <2> QED  BY <2>1, SmallestSet
  <1> DEFINE Table(s) == CHOOSE it : IsSumTable(f, s, it)
             Value(s) == Table(s)[s]
             Any(s)   == CHOOSE x \in s : TRUE
             it       == [s \in SUBSET T |->
                            IF s = T
                            THEN IF s = {} THEN 0 ELSE f[Any(s)] + Value(s \ {Any(s)})
                            ELSE Value(s)]
  <1>2. ASSUME NEW s \in SUBSET T, s # T
        PROVE  IsSumTable(f, s, Table(s)) /\ IsFiniteSet(s)
    <2>1. \E t : IsSumTable(f, s, t)
      BY <1>1, <1>2
    <2>2. IsFiniteSet(s)
      BY <1>1, <1>2, FS_Subset
    <2> QED  BY <2>1, <2>2
  <1>3. ASSUME NEW s \in SUBSET T, s # T, s # {}
        PROVE  Value(s) = f[Any(s)] + Value(s \ {Any(s)})
    <2>1. Any(s) \in s
      BY <1>3
    <2> DEFINE u == s \ {Any(s)}
    <2>2. u \in SUBSET T /\ u # T /\ u \subseteq s
      BY <1>3
    <2>3. Value(s) = f[Any(s)] + Table(s)[u]
      <3>1. IsSumTable(f, s, Table(s))
        BY <1>2, <1>3
      <3> HIDE DEF Table
      <3> QED  BY <1>3, <3>1 DEF IsSumTable
    <2>4. Table(s)[u] = Table(u)[u]
      <3>1. /\ IsSumTable(f, s, Table(s)) /\ IsFiniteSet(s)
            /\ IsSumTable(f, u, Table(u)) /\ IsFiniteSet(u)
        BY <1>2, <1>3, <2>2
      <3>2. u \in SUBSET (s \cap u)
        BY <2>2
      <3> HIDE DEF u, Table
      <3> QED  BY <3>1, <3>2, SumTablesAgree
    <2> QED  BY <2>3, <2>4
  <1>4. Value({}) = 0 \/ T = {}
    <2>1. CASE T # {}
      <3>1. IsSumTable(f, {}, Table({}))
        BY <1>2, <2>1
      <3> HIDE DEF Table
      <3> QED BY <3>1 DEF IsSumTable
    <2> QED BY <2>1
  <1>5. ASSUME NEW s \in SUBSET T
        PROVE  it[s] = IF s = {} THEN 0 ELSE f[Any(s)] + it[s \ {Any(s)}]
    <2>1. CASE s = {}
      BY <1>4, <2>1
    <2>2. CASE s # {}
      <3>1. Any(s) \in s
        BY <2>2
      <3>2. s \ {Any(s)} \in SUBSET T /\ s \ {Any(s)} # T
        BY <3>1
      <3>3. it[s \ {Any(s)}] = Value(s \ {Any(s)})
        BY <3>2
      <3>4. Value(s) = f[Any(s)] + Value(s \ {Any(s)}) \/ s = T
        BY <1>3, <2>2
      <3> HIDE DEF Value, Any
      <3> QED  BY <2>2, <3>3, <3>4
    <2> QED  BY <2>1, <2>2
  <1>6. IsSumTable(f, T, it)
    <2> DEFINE jt == [s \in SUBSET T |->
                        IF s = {} THEN 0 ELSE f[Any(s)] + it[s \ {Any(s)}]]
    <2>1. \A s \in SUBSET T : it[s] = jt[s]
      <3> HIDE DEF it, Any
      <3> QED  BY <1>5
    <2>2. it = jt
      BY <2>1
    <2> QED  BY <2>2 DEF IsSumTable
  <1> QED  BY <1>1, <1>6

\* The equation that defines the sum of a finite set.
LEMMA SumUnfolds ==
    ASSUME NEW f, NEW S, IsFiniteSet(S)
    PROVE  /\ S = {} => SumFunctionOnSet(f, S) = 0
           /\ S # {} =>
                SumFunctionOnSet(f, S)
                    = f[CHOOSE x \in S : TRUE]
                      + SumFunctionOnSet(f, S \ {CHOOSE x \in S : TRUE})
  <1> DEFINE Table(s) == CHOOSE it : IsSumTable(f, s, it)
             u        == S \ {CHOOSE x \in S : TRUE}
  <1>1. \A s : SumFunctionOnSet(f, s) = Table(s)[s]
    BY SumIsChosen
  <1>2. IsFiniteSet(u) /\ u \subseteq S
    BY FS_Subset
  <1>3. IsSumTable(f, S, Table(S)) /\ IsSumTable(f, u, Table(u))
    BY <1>2, SumTableExists
  <1> HIDE DEF Table
  <1>4. Table(S)[u] = Table(u)[u]
    <2>1. u \in SUBSET (S \cap u)
      OBVIOUS
    <2> HIDE DEF u
    <2> QED  BY <1>2, <1>3, <2>1, SumTablesAgree
  <1>5. S = {} => Table(S)[S] = 0
    BY <1>3 DEF IsSumTable
  <1>6. S # {} => Table(S)[S] = f[CHOOSE x \in S : TRUE] + Table(S)[u]
    BY <1>3 DEF IsSumTable
  <1> QED  BY <1>1, <1>4, <1>5, <1>6

\* A sum of natural numbers is one.
LEMMA SumType ==
    ASSUME NEW S, IsFiniteSet(S), NEW f, \A x \in S : f[x] \in Nat
    PROVE  SumFunctionOnSet(f, S) \in Nat
  <1> DEFINE F == {s \in SUBSET S : SumFunctionOnSet(f, s) \notin Nat}
  <1> SUFFICES ASSUME F # {} PROVE FALSE
    OBVIOUS
  <1>1. PICK T \in F : \A U \in F : U \subseteq T => U = T
    <2>1. F \subseteq SUBSET S
      OBVIOUS
    <2> HIDE DEF F
    <2> QED  BY <2>1, SmallestSet
  <1>2. T \in SUBSET S /\ IsFiniteSet(T) /\ SumFunctionOnSet(f, T) \notin Nat
    BY FS_Subset
  <1>3. T # {}
    <2>1. T = {} => SumFunctionOnSet(f, T) = 0
      BY <1>2, SumUnfolds
    <2>2. 0 \in Nat
      OBVIOUS
    <2> HIDE DEF F
    <2> QED  BY <1>2, <2>1, <2>2
  <1>4. PICK x \in T : SumFunctionOnSet(f, T) = f[x] + SumFunctionOnSet(f, T \ {x})
    BY <1>2, <1>3, SumUnfolds
  <1>5. SumFunctionOnSet(f, T \ {x}) \in Nat
    BY <1>1, <1>2, <1>4
  <1>6. f[x] \in Nat
    BY <1>2
  <1> QED  BY <1>2, <1>4, <1>5, <1>6

\* Any element may be taken out first.
LEMMA SumRemove ==
    ASSUME NEW S, IsFiniteSet(S), NEW f, \A x \in S : f[x] \in Nat
    PROVE  \A x \in S : SumFunctionOnSet(f, S) = f[x] + SumFunctionOnSet(f, S \ {x})
  <1> DEFINE Good(s) == \A x \in s : SumFunctionOnSet(f, s)
                                       = f[x] + SumFunctionOnSet(f, s \ {x})
             F       == {s \in SUBSET S : ~Good(s)}
  <1> SUFFICES ASSUME F # {} PROVE FALSE
    OBVIOUS
  <1>1. PICK T \in F : \A U \in F : U \subseteq T => U = T
    <2>1. F \subseteq SUBSET S
      OBVIOUS
    <2> HIDE DEF F
    <2> QED  BY <2>1, SmallestSet
  <1>2. T \in SUBSET S /\ IsFiniteSet(T) /\ ~Good(T)
    BY FS_Subset
  <1>3. \A U \in SUBSET T : U # T => Good(U)
    BY <1>1, <1>2
  <1>t. \A U \in SUBSET T : IsFiniteSet(U) /\ SumFunctionOnSet(f, U) \in Nat
    <2> SUFFICES ASSUME NEW U \in SUBSET T
                 PROVE  IsFiniteSet(U) /\ SumFunctionOnSet(f, U) \in Nat
      OBVIOUS
    <2>1. IsFiniteSet(U) /\ \A x \in U : f[x] \in Nat
      BY <1>2, FS_Subset
    <2> QED  BY <2>1, SumType
  <1>4. PICK x \in T : SumFunctionOnSet(f, T) # f[x] + SumFunctionOnSet(f, T \ {x})
    BY <1>2
  <1>5. PICK y \in T : SumFunctionOnSet(f, T) = f[y] + SumFunctionOnSet(f, T \ {y})
    BY <1>2, <1>4, SumUnfolds
  <1>6. x # y
    BY <1>4, <1>5
  <1> DEFINE rest == T \ {x, y}
  <1>7. SumFunctionOnSet(f, T \ {y}) = f[x] + SumFunctionOnSet(f, rest)
    <2>1. x \in T \ {y} /\ T \ {y} \in SUBSET T /\ T \ {y} # T /\ (T \ {y}) \ {x} = rest
      BY <1>6
    <2> HIDE DEF rest
    <2> QED  BY <1>3, <2>1
  <1>8. SumFunctionOnSet(f, T \ {x}) = f[y] + SumFunctionOnSet(f, rest)
    <2>1. y \in T \ {x} /\ T \ {x} \in SUBSET T /\ T \ {x} # T /\ (T \ {x}) \ {y} = rest
      BY <1>6
    <2> HIDE DEF rest
    <2> QED  BY <1>3, <2>1
  <1>9. f[x] \in Nat /\ f[y] \in Nat /\ SumFunctionOnSet(f, rest) \in Nat
    BY <1>2, <1>t
  <1> QED  BY <1>4, <1>5, <1>7, <1>8, <1>9

\* One more element adds its value.
LEMMA SumAdd ==
    ASSUME NEW S, IsFiniteSet(S), NEW f, NEW x, x \notin S,
           \A y \in S \cup {x} : f[y] \in Nat
    PROVE  SumFunctionOnSet(f, S \cup {x}) = SumFunctionOnSet(f, S) + f[x]
  <1>1. IsFiniteSet(S \cup {x})
    BY FS_AddElement
  <1>2. (S \cup {x}) \ {x} = S
    OBVIOUS
  <1>3. SumFunctionOnSet(f, S) \in Nat /\ f[x] \in Nat
    BY SumType
  <1>4. SumFunctionOnSet(f, S \cup {x}) = f[x] + SumFunctionOnSet(f, (S \cup {x}) \ {x})
    <2> DEFINE R == S \cup {x}
    <2>1. IsFiniteSet(R) /\ x \in R /\ \A y \in R : f[y] \in Nat
      BY <1>1
    <2> HIDE DEF R
    <2>2. SumFunctionOnSet(f, R) = f[x] + SumFunctionOnSet(f, R \ {x})
      BY <2>1, SumRemove
    <2> QED  BY <2>2 DEF R
  <1> QED  BY <1>2, <1>3, <1>4

\* Only the values of the elements count.
LEMMA SumSame ==
    ASSUME NEW S, IsFiniteSet(S), NEW f, NEW g, \A x \in S : f[x] = g[x]
    PROVE  SumFunctionOnSet(f, S) = SumFunctionOnSet(g, S)
  <1> DEFINE F == {s \in SUBSET S : SumFunctionOnSet(f, s) # SumFunctionOnSet(g, s)}
  <1> SUFFICES ASSUME F # {} PROVE FALSE
    OBVIOUS
  <1>1. PICK T \in F : \A U \in F : U \subseteq T => U = T
    <2>1. F \subseteq SUBSET S
      OBVIOUS
    <2> HIDE DEF F
    <2> QED  BY <2>1, SmallestSet
  <1>2. /\ T \in SUBSET S /\ IsFiniteSet(T)
        /\ SumFunctionOnSet(f, T) # SumFunctionOnSet(g, T)
    BY FS_Subset
  <1>3. T # {}
    BY <1>2, SumUnfolds
  <1> DEFINE x == CHOOSE e \in T : TRUE
  <1>4. x \in T
    BY <1>3
  <1>5. /\ SumFunctionOnSet(f, T) = f[x] + SumFunctionOnSet(f, T \ {x})
        /\ SumFunctionOnSet(g, T) = g[x] + SumFunctionOnSet(g, T \ {x})
    BY <1>2, <1>3, SumUnfolds
  <1> HIDE DEF x
  <1>6. SumFunctionOnSet(f, T \ {x}) = SumFunctionOnSet(g, T \ {x})
    BY <1>1, <1>2, <1>4
  <1>7. f[x] = g[x]
    BY <1>2, <1>4
  <1> QED  BY <1>2, <1>5, <1>6, <1>7

\* More elements, no smaller sum.
LEMMA SumMonotonic ==
    ASSUME NEW S, IsFiniteSet(S), NEW f, \A x \in S : f[x] \in Nat, NEW T \in SUBSET S
    PROVE  SumFunctionOnSet(f, T) <= SumFunctionOnSet(f, S)
  <1> DEFINE F == {s \in SUBSET S : /\ T \subseteq s
                                     /\ ~(SumFunctionOnSet(f, T) <= SumFunctionOnSet(f, s))}
  <1> SUFFICES ASSUME F # {} PROVE FALSE
    OBVIOUS
  <1>1. PICK W \in F : \A U \in F : U \subseteq W => U = W
    <2>1. F \subseteq SUBSET S
      OBVIOUS
    <2> HIDE DEF F
    <2> QED  BY <2>1, SmallestSet
  <1>2. /\ W \in SUBSET S /\ IsFiniteSet(W) /\ T \subseteq W
        /\ ~(SumFunctionOnSet(f, T) <= SumFunctionOnSet(f, W))
        /\ \A x \in W : f[x] \in Nat
    BY FS_Subset
  <1>3. SumFunctionOnSet(f, T) \in Nat
    <2>1. IsFiniteSet(T) /\ \A x \in T : f[x] \in Nat
      BY FS_Subset
    <2> QED  BY <2>1, SumType
  <1>4. PICK x \in W : x \notin T
    BY <1>2, <1>3
  <1>5. SumFunctionOnSet(f, W) = f[x] + SumFunctionOnSet(f, W \ {x})
    BY <1>2, SumRemove
  <1>6. SumFunctionOnSet(f, W \ {x}) \in Nat
    <2>1. IsFiniteSet(W \ {x}) /\ \A y \in W \ {x} : f[y] \in Nat
      BY <1>2, FS_Subset
    <2> QED  BY <2>1, SumType
  <1>7. SumFunctionOnSet(f, T) <= SumFunctionOnSet(f, W \ {x})
    BY <1>1, <1>2, <1>4
  <1> QED  BY <1>2, <1>3, <1>5, <1>6, <1>7

\* The sum of two sets without a common element.
LEMMA SumJoin ==
    ASSUME NEW A, NEW B, IsFiniteSet(A), IsFiniteSet(B), A \cap B = {},
           NEW f, \A x \in A \cup B : f[x] \in Nat
    PROVE  SumFunctionOnSet(f, A \cup B) = SumFunctionOnSet(f, A) + SumFunctionOnSet(f, B)
  <1> DEFINE F == {s \in SUBSET B : SumFunctionOnSet(f, A \cup s)
                                       # SumFunctionOnSet(f, A) + SumFunctionOnSet(f, s)}
  <1> SUFFICES ASSUME F # {} PROVE FALSE
    OBVIOUS
  <1>1. PICK T \in F : \A U \in F : U \subseteq T => U = T
    <2>1. F \subseteq SUBSET B
      OBVIOUS
    <2> HIDE DEF F
    <2> QED  BY <2>1, SmallestSet
  <1>2. /\ T \in SUBSET B /\ IsFiniteSet(T) /\ IsFiniteSet(A \cup T)
        /\ SumFunctionOnSet(f, A \cup T) # SumFunctionOnSet(f, A) + SumFunctionOnSet(f, T)
    BY FS_Subset, FS_Union
  <1>3. SumFunctionOnSet(f, A) \in Nat
    BY SumType
  <1>4. PICK x \in T : TRUE
    <2>1. A \cup {} = A /\ SumFunctionOnSet(f, {}) = 0
      BY FS_EmptySet, SumUnfolds
    <2> QED  BY <1>2, <1>3, <2>1
  <1>5. SumFunctionOnSet(f, T) = f[x] + SumFunctionOnSet(f, T \ {x})
    BY <1>2, SumRemove
  <1>6. SumFunctionOnSet(f, A \cup T) = f[x] + SumFunctionOnSet(f, (A \cup T) \ {x})
    <2> DEFINE R == A \cup T
    <2>1. IsFiniteSet(R) /\ x \in R /\ \A y \in R : f[y] \in Nat
      BY <1>2
    <2> HIDE DEF R
    <2>2. SumFunctionOnSet(f, R) = f[x] + SumFunctionOnSet(f, R \ {x})
      BY <2>1, SumRemove
    <2> QED  BY <2>2 DEF R
  <1>7. (A \cup T) \ {x} = A \cup (T \ {x})
    BY <1>2
  <1>8. SumFunctionOnSet(f, A \cup (T \ {x}))
            = SumFunctionOnSet(f, A) + SumFunctionOnSet(f, T \ {x})
    BY <1>1, <1>2, <1>4
  <1>9. SumFunctionOnSet(f, T \ {x}) \in Nat /\ f[x] \in Nat
    <2>1. IsFiniteSet(T \ {x}) /\ \A y \in T \ {x} : f[y] \in Nat
      BY <1>2, FS_Subset
    <2> QED  BY <1>2, <2>1, SumType
  <1> QED  BY <1>2, <1>3, <1>5, <1>6, <1>7, <1>8, <1>9
=============================================================================
