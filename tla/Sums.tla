----------------------------- MODULE Sums -----------------------------
(* What the accounting proofs need of the sum of a function over a finite *)
(* set, SumFunctionOnSet of Functions. The library's induction theorems   *)
(* take an operator; here the induction is over a set of sets instead,    *)
(* and every lemma speaks of plain values.                                *)
EXTENDS Functions, FiniteSetTheorems, TLAPS

\* A set of subsets of S that contains T whenever it contains the smaller
\* subsets of T contains them all.
LEMMA SubsetInduction ==
  ASSUME NEW S, IsFiniteSet(S), NEW F,
         \A T \in SUBSET S : (\A U \in SUBSET T : U # T => U \in F) => T \in F
  PROVE  \A T \in SUBSET S : T \in F
<1> DEFINE Bad == (SUBSET S) \ F
<1> SUFFICES ASSUME Bad # {} PROVE FALSE
  OBVIOUS
<1>1. IsWellFoundedOn(StrictSubsetOrdering(S), SUBSET S)
  <2>1. FiniteSubsetsOf(S) = SUBSET S
    BY FS_FiniteSubsetsOfFinite
  <2>2. IsWellFoundedOn(StrictSubsetOrdering(S), FiniteSubsetsOf(S))
    BY FS_StrictSubsetOrderingWellFounded
  <2> QED
    BY <2>1, <2>2
<1>2. PICK T \in Bad : \A U \in Bad : <<U, T>> \notin StrictSubsetOrdering(S)
  <2> HIDE DEF Bad
  <2>1. Bad \subseteq SUBSET S
    BY DEF Bad
  <2> QED
    BY <1>1, <2>1, WFMin
<1>3. ASSUME NEW U \in SUBSET T, U # T PROVE U \in F
  BY <1>2, <1>3 DEF StrictSubsetOrdering
<1> QED
  BY <1>2, <1>3

-------------------------------------------------------------------------
(* The recursion that defines the sum has one solution.                  *)

First(s) == CHOOSE x \in s : TRUE

\* g is the table of the sums of f over the subsets of S.
Tabulates(g, f, S) ==
  g = [s \in SUBSET S |-> IF s = {} THEN 0 ELSE f[First(s)] + g[s \ {First(s)}]]

LEMMA SumIsTable ==
  ASSUME NEW f, NEW S
  PROVE  SumFunctionOnSet(f, S) = (CHOOSE g : Tabulates(g, f, S))[S]
BY DEF SumFunctionOnSet, FoldFunctionOnSet, MapThenFoldSet, Tabulates, First

LEMMA FirstIn == ASSUME NEW s, s # {} PROVE First(s) \in s
BY DEF First

\* Tables of f agree wherever they are both defined.
LEMMA TablesAgree ==
  ASSUME NEW f, NEW S, NEW R, NEW g, NEW h, IsFiniteSet(S), S \subseteq R,
         Tabulates(g, f, S), Tabulates(h, f, R)
  PROVE  \A T \in SUBSET S : g[T] = h[T]
<1> DEFINE F == {T \in SUBSET S : g[T] = h[T]}
<1>1. ASSUME NEW T \in SUBSET S, \A U \in SUBSET T : U # T => U \in F
      PROVE  T \in F
  <2>1. CASE T = {}
    BY <2>1 DEF Tabulates
  <2>2. CASE T # {}
    <3>1. First(T) \in T
      BY <2>2, FirstIn
    <3>2. g[T \ {First(T)}] = h[T \ {First(T)}]
      BY <3>1, <1>1
    <3>3. g[T] = f[First(T)] + g[T \ {First(T)}]
      BY <2>2 DEF Tabulates
    <3>4. h[T] = f[First(T)] + h[T \ {First(T)}]
      BY <2>2, T \in SUBSET R DEF Tabulates
    <3> QED
      BY <3>2, <3>3, <3>4
  <2> QED
    BY <2>1, <2>2
<1> QED
  <2> HIDE DEF F
  <2>1. \A T \in SUBSET S : T \in F
    BY <1>1, SubsetInduction
  <2> QED
    BY <2>1 DEF F

LEMMA TableExists ==
  ASSUME NEW f, NEW S, IsFiniteSet(S)
  PROVE  \E g : Tabulates(g, f, S)
<1> DEFINE F == {T \in SUBSET S : \E g : Tabulates(g, f, T)}
           Table(T) == CHOOSE g : Tabulates(g, f, T)
<1>1. ASSUME NEW T \in SUBSET S, \A U \in SUBSET T : U # T => U \in F
      PROVE  T \in F
  <2>1. \A U \in SUBSET T : U # T => Tabulates(Table(U), f, U)
    BY <1>1
  <2>2. \A U \in SUBSET T : IsFiniteSet(U)
    BY FS_Subset
  <2> DEFINE Rest(s) == s \ {First(s)}
             g == [s \in SUBSET T |->
                     IF s = {} THEN 0 ELSE f[First(s)] + Table(Rest(s))[Rest(s)]]
  <2>3. ASSUME NEW s \in SUBSET T, s # {}
        PROVE  g[s] = f[First(s)] + g[Rest(s)]
    <3>0. First(s) \in s /\ Rest(s) \in SUBSET T /\ Rest(s) # T
      BY <2>3, FirstIn
    <3> DEFINE r == Rest(s)
    <3>1. r \in SUBSET T /\ Tabulates(Table(r), f, r)
      BY <3>0, <2>1
    <3> HIDE DEF r, Table
    <3>2. CASE r = {}
      <4>1. g[r] = 0 /\ Table(r)[r] = 0
        BY <3>1, <3>2 DEF Tabulates
      <4> QED
        BY <2>3, <4>1, <3>2 DEF r
    <3>3. CASE r # {}
      <4>0. First(r) \in r /\ Rest(r) \in SUBSET r /\ Rest(r) # T /\ Rest(r) \in SUBSET T
        BY <3>3, FirstIn, <3>1
      <4>1. Table(r)[r] = f[First(r)] + Table(r)[Rest(r)]
        BY <3>1, <3>3 DEF Tabulates
      <4>2. Tabulates(Table(Rest(r)), f, Rest(r)) /\ IsFiniteSet(Rest(r))
        BY <4>0, <2>1, <2>2
      <4>3. Table(Rest(r))[Rest(r)] = Table(r)[Rest(r)]
        BY <4>0, <4>2, <3>1, TablesAgree
      <4>4. g[r] = Table(r)[r]
        BY <3>1, <3>3, <4>1, <4>3
      <4> QED
        BY <2>3, <4>4 DEF r
    <3> QED
      BY <3>2, <3>3
  <2>4. g[{}] = 0
    OBVIOUS
  <2>5. Tabulates(g, f, T)
    <3> HIDE DEF Rest, g
    <3>1. \A s \in SUBSET T :
            g[s] = IF s = {} THEN 0 ELSE f[First(s)] + g[s \ {First(s)}]
      BY <2>3, <2>4 DEF Rest
    <3>2. g = [s \in SUBSET T |-> g[s]]
      BY DEF g
    <3> QED
      BY <3>1, <3>2 DEF Tabulates
  <2> QED
    BY <2>5
<1> QED
  <2> HIDE DEF F
  <2>1. S \in F
    BY <1>1, SubsetInduction
  <2> QED
    BY <2>1 DEF F

-------------------------------------------------------------------------
(* What follows for the sum.                                             *)

LEMMA SumEmpty == ASSUME NEW f PROVE SumFunctionOnSet(f, {}) = 0
<1>1. PICK g : Tabulates(g, f, {})
  BY FS_EmptySet, TableExists
<1>2. Tabulates(CHOOSE h : Tabulates(h, f, {}), f, {})
  BY <1>1
<1> QED
  BY <1>2, SumIsTable DEF Tabulates

LEMMA SumFirst ==
  ASSUME NEW f, NEW S, IsFiniteSet(S), S # {}
  PROVE  SumFunctionOnSet(f, S) = f[First(S)] + SumFunctionOnSet(f, S \ {First(S)})
<1> DEFINE Table(T) == CHOOSE g : Tabulates(g, f, T)
           r == S \ {First(S)}
<1>1. IsFiniteSet(r) /\ r \in SUBSET S
  BY FS_Subset
<1>2. Tabulates(Table(S), f, S) /\ Tabulates(Table(r), f, r)
  BY <1>1, TableExists
<1>3. SumFunctionOnSet(f, S) = Table(S)[S] /\ SumFunctionOnSet(f, r) = Table(r)[r]
  BY SumIsTable
<1>4. Table(r)[r] = Table(S)[r]
  <2> HIDE DEF Table, r
  <2> QED
    BY <1>1, <1>2, TablesAgree
<1>5. Table(S)[S] = f[First(S)] + Table(S)[r]
  <2> HIDE DEF Table
  <2> QED
    BY <1>2 DEF Tabulates
<1> QED
  BY <1>3, <1>4, <1>5

\* Sums of integers are integers.
LEMMA SumType ==
  ASSUME NEW f, NEW S, IsFiniteSet(S), \A x \in S : f[x] \in Int
  PROVE  SumFunctionOnSet(f, S) \in Int
<1> DEFINE F == {T \in SUBSET S : SumFunctionOnSet(f, T) \in Int}
<1>1. ASSUME NEW T \in SUBSET S, \A U \in SUBSET T : U # T => U \in F
      PROVE  T \in F
  <2>1. CASE T = {}
    BY <2>1, SumEmpty
  <2>2. CASE T # {}
    <3>1. First(T) \in T /\ IsFiniteSet(T)
      BY <2>2, FirstIn, FS_Subset
    <3>2. T \ {First(T)} \in F
      BY <3>1, <1>1
    <3> QED
      BY <2>2, <3>1, <3>2, SumFirst
  <2> QED
    BY <2>1, <2>2
<1>2. \A T \in SUBSET S : T \in F
  <2> HIDE DEF F
  <2> QED
    BY <1>1, SubsetInduction
<1> QED
  BY <1>2

\* Any element may be taken out of the sum first.
LEMMA SumTake ==
  ASSUME NEW f, NEW S, IsFiniteSet(S), \A x \in S : f[x] \in Int, NEW x \in S
  PROVE  SumFunctionOnSet(f, S) = f[x] + SumFunctionOnSet(f, S \ {x})
<1> DEFINE Total(T) == SumFunctionOnSet(f, T)
           F == {T \in SUBSET S : \A y \in T : Total(T) = f[y] + Total(T \ {y})}
<1>1. ASSUME NEW T \in SUBSET S, \A U \in SUBSET T : U # T => U \in F
      PROVE  T \in F
  <2> SUFFICES ASSUME NEW y \in T PROVE Total(T) = f[y] + Total(T \ {y})
    OBVIOUS
  <2> DEFINE c == First(T)
  <2>1. c \in T /\ IsFiniteSet(T)
    BY FirstIn, FS_Subset
  <2>2. Total(T) = f[c] + Total(T \ {c})
    BY <2>1, SumFirst
  <2>3. CASE y = c
    BY <2>2, <2>3
  <2>4. CASE y # c
    <3> HIDE DEF c, Total
    <3>1. T \ {c} \in F /\ T \ {y} \in F /\ y \in T \ {c} /\ c \in T \ {y}
      BY <2>1, <2>4, <1>1
    <3>2. Total(T \ {c}) = f[y] + Total((T \ {c}) \ {y})
      BY <3>1
    <3>3. Total(T \ {y}) = f[c] + Total((T \ {y}) \ {c})
      BY <3>1
    <3>4. (T \ {c}) \ {y} = (T \ {y}) \ {c} /\ IsFiniteSet((T \ {y}) \ {c})
      BY <2>1, FS_Subset
    <3>5. Total((T \ {y}) \ {c}) \in Int
      BY <3>4, SumType DEF Total
    <3>6. f[c] \in Int /\ f[y] \in Int
      BY <2>1
    <3>7. Total(T) = f[c] + (f[y] + Total((T \ {y}) \ {c}))
      BY <2>2, <3>2, <3>4
    <3> QED
      BY <3>3, <3>5, <3>6, <3>7
  <2> QED
    BY <2>3, <2>4
<1>2. \A T \in SUBSET S : T \in F
  <2> HIDE DEF F
  <2> QED
    BY <1>1, SubsetInduction
<1> QED
  BY <1>2

\* One more element adds its value.
LEMMA SumAdd ==
  ASSUME NEW f, NEW S, IsFiniteSet(S), NEW x, x \notin S,
         \A y \in S \cup {x} : f[y] \in Int
  PROVE  SumFunctionOnSet(f, S \cup {x}) = f[x] + SumFunctionOnSet(f, S)
<1>1. IsFiniteSet(S \cup {x}) /\ (S \cup {x}) \ {x} = S
  BY FS_AddElement
<1> QED
  BY <1>1, SumTake

\* Only the values on the set count.
LEMMA SumSame ==
  ASSUME NEW f, NEW h, NEW S, IsFiniteSet(S), \A x \in S : f[x] = h[x]
  PROVE  SumFunctionOnSet(f, S) = SumFunctionOnSet(h, S)
<1> DEFINE F == {T \in SUBSET S : SumFunctionOnSet(f, T) = SumFunctionOnSet(h, T)}
<1>1. ASSUME NEW T \in SUBSET S, \A U \in SUBSET T : U # T => U \in F
      PROVE  T \in F
  <2>1. CASE T = {}
    BY <2>1, SumEmpty
  <2>2. CASE T # {}
    <3>1. First(T) \in T /\ IsFiniteSet(T)
      BY <2>2, FirstIn, FS_Subset
    <3>2. T \ {First(T)} \in F
      BY <3>1, <1>1
    <3> QED
      BY <2>2, <3>1, <3>2, SumFirst
  <2> QED
    BY <2>1, <2>2
<1>2. \A T \in SUBSET S : T \in F
  <2> HIDE DEF F
  <2> QED
    BY <1>1, SubsetInduction
<1> QED
  BY <1>2

\* A change at one element changes the sum by as much.
LEMMA SumChange ==
  ASSUME NEW f, NEW h, NEW S, IsFiniteSet(S), NEW x \in S,
         \A y \in S : f[y] \in Int /\ h[y] \in Int,
         \A y \in S \ {x} : f[y] = h[y]
  PROVE  SumFunctionOnSet(h, S) = SumFunctionOnSet(f, S) + (h[x] - f[x])
<1> DEFINE R == S \ {x}
<1>1. IsFiniteSet(R)
  BY FS_Subset
<1>2. /\ SumFunctionOnSet(f, R) = SumFunctionOnSet(h, R)
      /\ SumFunctionOnSet(f, R) \in Int
  BY <1>1, SumSame, SumType
<1>3. /\ SumFunctionOnSet(f, S) = f[x] + SumFunctionOnSet(f, R)
      /\ SumFunctionOnSet(h, S) = h[x] + SumFunctionOnSet(h, R)
  BY SumTake
<1> QED
  BY <1>2, <1>3

\* From f to h, the element x of S gains what y loses.
Shifted(f, h, S, x, y) ==
  /\ \A z \in S : f[z] \in Int /\ h[z] \in Int
  /\ x \in S /\ y \in S /\ x # y
  /\ h[x] - f[x] = f[y] - h[y]
  /\ \A z \in S \ {x, y} : h[z] = f[z]

\* What one element gives another leaves the sum as it was.
LEMMA SumShift ==
  ASSUME NEW S, IsFiniteSet(S), NEW f, NEW h, NEW x, NEW y, Shifted(f, h, S, x, y)
  PROVE  SumFunctionOnSet(h, S) = SumFunctionOnSet(f, S)
<1> DEFINE g == [z \in S |-> IF z = x THEN h[z] ELSE f[z]]
<1>1. /\ \A z \in S : g[z] \in Int
      /\ \A z \in S \ {x} : f[z] = g[z]
      /\ \A z \in S \ {y} : g[z] = h[z]
      /\ g[x] = h[x] /\ g[y] = f[y]
  BY DEF Shifted
<1> HIDE DEF g
<1>2. SumFunctionOnSet(g, S) = SumFunctionOnSet(f, S) + (g[x] - f[x])
  BY <1>1, SumChange DEF Shifted
<1>3. SumFunctionOnSet(h, S) = SumFunctionOnSet(g, S) + (h[y] - g[y])
  BY <1>1, SumChange DEF Shifted
<1>4. SumFunctionOnSet(f, S) \in Int
  BY SumType DEF Shifted
<1> QED
  BY <1>1, <1>2, <1>3, <1>4 DEF Shifted
=======================================================================
