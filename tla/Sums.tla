-------------------------------- MODULE Sums --------------------------------
(***************************************************************************)
(* Sums of functions with a finite domain, SumFunction of the community    *)
(* modules: what it is of a constant function, and how it follows a change *)
(* of one value.  Used for the money of all players together.              *)
(***************************************************************************)
EXTENDS FiniteSetsExt, FiniteSetTheorems, TLAPS

(* The element SumFunction takes out first, and the equation it solves. *)
FirstOf(s) == CHOOSE x \in s : TRUE
Partial(g, f, s) == IF s = {} THEN 0 ELSE f[FirstOf(s)] + g[s \ {FirstOf(s)}]
PartialSums(f, S) == CHOOSE g : g = [s \in SUBSET S |-> Partial(g, f, s)]

(* SumFunction is the last of the partial sums. *)
LEMMA SumIsPartial ==
    ASSUME NEW S, NEW f, DOMAIN f = S
    PROVE  SumFunction(f) = PartialSums(f, S)[S]
BY DEF SumFunction, SumFunctionOnSet, FoldFunctionOnSet, MapThenFoldSet, PartialSums, Partial, FirstOf

(* A set of subsets that has each set whose smaller ones it has, has all. *)
LEMMA SubsetInduction ==
    ASSUME NEW S, IsFiniteSet(S), NEW P \in SUBSET (SUBSET S),
           \A s \in SUBSET S : (\A r \in SUBSET s : r # s => r \in P) => s \in P
    PROVE  P = SUBSET S
<1> DEFINE R == StrictSubsetOrdering(S)
           C == (SUBSET S) \ P
<1>1. IsWellFoundedOn(R, SUBSET S)
  BY FS_StrictSubsetOrderingWellFounded, FS_FiniteSubsetsOfFinite
<1>2. CASE C # {}
  <2>1. PICK s \in C : \A r \in C : ~ (<<r, s>> \in R)
    <3> HIDE DEF R, C
    <3>1. C \subseteq SUBSET S
      BY DEF C
    <3> QED
      BY <1>1, <1>2, <3>1, WFMin
  <2>2. \A r \in SUBSET s : r # s => r \in P
    BY <2>1 DEF StrictSubsetOrdering
  <2> QED
    BY <2>1, <2>2
<1> QED
  BY <1>2

LessThan == {p \in Nat \X Nat : p[1] < p[2]}

(* The numbers are well-founded, so that sets of them have a least element. *)
LEMMA NatsAreWellFounded == IsWellFoundedOn(LessThan, Nat)
BY NatLessThanWellFounded DEF OpToRel, LessThan

(* Induction over the numbers, as a set. *)
LEMMA NatSetInduction ==
    ASSUME NEW P \in SUBSET Nat, 0 \in P, \A n \in P : n + 1 \in P
    PROVE  P = Nat
<1> DEFINE C == Nat \ P
<1>1. CASE C # {}
  <2>1. PICK n \in C : \A m \in C : ~ (<<m, n>> \in LessThan)
    <3> HIDE DEF C
    <3>1. C \subseteq Nat
      BY DEF C
    <3> QED
      BY <1>1, <3>1, NatsAreWellFounded, WFMin
  <2>2. n \in Nat \ {0} /\ n - 1 \in Nat /\ n - 1 < n
    BY <2>1
  <2>3. <<n - 1, n>> \in LessThan
    BY <2>2 DEF LessThan
  <2>4. n - 1 \in P
    BY <2>1, <2>2, <2>3
  <2>5. (n - 1) + 1 \in P
    BY <2>4
  <2> QED
    BY <2>1, <2>2, <2>5
<1> QED
  BY <1>1

(* The equation has a solution. *)
LEMMA PartialSumsExist ==
    ASSUME NEW S, IsFiniteSet(S), NEW f \in [S -> Int]
    PROVE  PartialSums(f, S) = [s \in SUBSET S |-> Partial(PartialSums(f, S), f, s)]
<1> DEFINE D(n) == {s \in SUBSET S : Cardinality(s) <= n}
           Solves(g, n) == \A s \in D(n) : g[s] = Partial(g, f, s)
           P == {n \in Nat : \E g : g = [s \in D(n) |-> g[s]] /\ Solves(g, n)}
<1>f. \A s \in SUBSET S : IsFiniteSet(s) /\ Cardinality(s) \in Nat
  BY FS_Subset, FS_CardinalityType
<1>x. ASSUME NEW s \in SUBSET S, s # {}
      PROVE  FirstOf(s) \in s
  BY <1>x DEF FirstOf
<1>s. ASSUME NEW n \in Nat, NEW s \in D(n + 1), s # {}
      PROVE  s \ {FirstOf(s)} \in D(n)
  <2>1. Cardinality(s \ {FirstOf(s)}) = Cardinality(s) - 1
    BY <1>f, <1>x, <1>s, FS_RemoveElement
  <2> QED
    BY <1>f, <2>1
<1>0. 0 \in P
  <2>1. D(0) = {{}}
    BY <1>f, FS_EmptySet
  <2> DEFINE g == [s \in D(0) |-> 0]
  <2>2. g = [s \in D(0) |-> g[s]] /\ Solves(g, 0)
    BY <2>1 DEF Partial
  <2> QED
    BY <2>2
<1>1. ASSUME NEW n \in P PROVE n + 1 \in P
  <2>1. PICK g : g = [s \in D(n) |-> g[s]] /\ Solves(g, n)
    BY <1>1
  <2> DEFINE h == [s \in D(n + 1) |-> IF s \in D(n) THEN g[s] ELSE Partial(g, f, s)]
  <2>2. h = [s \in D(n + 1) |-> h[s]]
    OBVIOUS
  <2>3. D(n) \subseteq D(n + 1)
    BY <1>f
  <2>4. ASSUME NEW s \in D(n + 1) PROVE h[s] = Partial(h, f, s)
    <3>1. CASE s = {}
      <4>1. Cardinality(s) = 0
        BY <3>1, FS_EmptySet
      <4>2. s \in D(n)
        BY <4>1
      <4> QED
        BY <2>1, <2>3, <3>1, <4>2 DEF Partial
    <3>2. CASE s # {}
      <4> DEFINE r == s \ {FirstOf(s)}
      <4>1. r \in D(n)
        BY <1>s, <2>4, <3>2
      <4>2. h[r] = g[r]
        BY <2>3, <4>1
      <4>3. h[s] = Partial(g, f, s)
        BY <2>1, <2>4
      <4> HIDE DEF h, D
      <4> QED
        BY <3>2, <4>2, <4>3 DEF Partial
    <3> QED
      BY <3>1, <3>2
  <2> HIDE DEF h
  <2>5. Solves(h, n + 1)
    BY <2>4
  <2>6. n + 1 \in Nat
    BY <1>1
  <2> QED
    BY <2>2, <2>5, <2>6
<1> HIDE DEF P
<1>2. P = Nat
  <2>1. P \subseteq Nat
    BY DEF P
  <2> QED
    BY <1>0, <1>1, <2>1, NatSetInduction
<1>3. PICK g : g = [s \in D(Cardinality(S)) |-> g[s]] /\ Solves(g, Cardinality(S))
  BY <1>2, FS_CardinalityType DEF P
<1>4. D(Cardinality(S)) = SUBSET S
  BY FS_Subset
<1>5. g = [s \in SUBSET S |-> Partial(g, f, s)]
  BY <1>3, <1>4
<1> QED
  BY <1>5 DEF PartialSums

(* Partial sums of integers are integers. *)
LEMMA PartialSumsTyped ==
    ASSUME NEW S, IsFiniteSet(S), NEW f \in [S -> Int], NEW s \in SUBSET S
    PROVE  PartialSums(f, S)[s] \in Int
<1> DEFINE g == PartialSums(f, S)
           P == {r \in SUBSET S : g[r] \in Int}
<1>1. \A r \in SUBSET S : g[r] = Partial(g, f, r)
  BY PartialSumsExist
<1> HIDE DEF g
<1>2. ASSUME NEW r \in SUBSET S, \A q \in SUBSET r : q # r => q \in P
      PROVE  r \in P
  <2>1. CASE r = {}
    <3>1. g[r] = 0
      BY <1>1, <2>1 DEF Partial
    <3> QED
      BY <3>1
  <2>2. CASE r # {}
    <3>1. FirstOf(r) \in r
      BY <2>2 DEF FirstOf
    <3>2. g[r] = f[FirstOf(r)] + g[r \ {FirstOf(r)}]
      BY <1>1, <2>2 DEF Partial
    <3>3. g[r \ {FirstOf(r)}] \in Int
      BY <1>2, <3>1
    <3> QED
      BY <3>1, <3>2, <3>3
  <2> QED
    BY <2>1, <2>2
<1> HIDE DEF P
<1>3. P = SUBSET S
  <2>1. P \subseteq SUBSET S
    BY DEF P
  <2> QED
    BY <1>2, <2>1, SubsetInduction
<1> QED
  BY <1>3 DEF P, g

(* Any element may be taken out first. *)
LEMMA AnyFirst ==
    ASSUME NEW S, IsFiniteSet(S), NEW f \in [S -> Int], NEW s \in SUBSET S, NEW x \in s
    PROVE  PartialSums(f, S)[s] = f[x] + PartialSums(f, S)[s \ {x}]
<1> DEFINE g == PartialSums(f, S)
           P == {r \in SUBSET S : \A y \in r : g[r] = f[y] + g[r \ {y}]}
<1>1. \A r \in SUBSET S : g[r] = Partial(g, f, r)
  BY PartialSumsExist
<1>t. \A r \in SUBSET S : g[r] \in Int
  BY PartialSumsTyped
<1> HIDE DEF g
<1>2. ASSUME NEW r \in SUBSET S, \A q \in SUBSET r : q # r => q \in P
      PROVE  r \in P
  <2> SUFFICES ASSUME NEW y \in r PROVE g[r] = f[y] + g[r \ {y}]
    OBVIOUS
  <2> DEFINE z == FirstOf(r)
  <2>1. z \in r
    BY DEF FirstOf
  <2> HIDE DEF z
  <2>2. g[r] = f[z] + g[r \ {z}]
    BY <1>1 DEF Partial, z
  <2>3. CASE z # y
    <3>1. g[r \ {z}] = f[y] + g[(r \ {z}) \ {y}]
      BY <1>2, <2>1, <2>3
    <3>2. g[r \ {y}] = f[z] + g[(r \ {y}) \ {z}]
      BY <1>2, <2>1, <2>3
    <3>3. (r \ {z}) \ {y} = (r \ {y}) \ {z}
      OBVIOUS
    <3> DEFINE c == g[(r \ {y}) \ {z}]
    <3>4. f[z] \in Int /\ f[y] \in Int /\ c \in Int
      BY <1>t, <2>1
    <3>5. g[r] = f[z] + (f[y] + c) /\ g[r \ {y}] = f[z] + c
      BY <2>2, <3>1, <3>2, <3>3
    <3> HIDE DEF c
    <3> QED
      BY <3>4, <3>5
  <2> QED
    BY <2>2, <2>3
<1> HIDE DEF P
<1>3. P = SUBSET S
  <2>1. P \subseteq SUBSET S
    BY DEF P
  <2> QED
    BY <1>2, <2>1, SubsetInduction
<1> QED
  BY <1>3 DEF P, g

-----------------------------------------------------------------------------
(* A sum of integers is an integer. *)
LEMMA SumTyped ==
    ASSUME NEW S, IsFiniteSet(S), NEW f \in [S -> Int]
    PROVE  SumFunction(f) \in Int
<1>1. DOMAIN f = S
  OBVIOUS
<1> QED
  BY <1>1, SumIsPartial, PartialSumsTyped

(* When one value changes the sum changes by as much. *)
LEMMA SumFollows ==
    ASSUME NEW S, IsFiniteSet(S), NEW f \in [S -> Int], NEW u \in S, NEW d \in Int
    PROVE  SumFunction([f EXCEPT ![u] = @ + d]) = SumFunction(f) + d
<1> DEFINE e == [f EXCEPT ![u] = @ + d]
           g == PartialSums(f, S)
           h == PartialSums(e, S)
           P == {s \in SUBSET S : u \notin s => h[s] = g[s]}
<1>e. e \in [S -> Int] /\ e[u] = f[u] + d /\ \A x \in S \ {u} : e[x] = f[x]
  OBVIOUS
<1> HIDE DEF e
<1>t. \A s \in SUBSET S : g[s] \in Int /\ h[s] \in Int
  BY <1>e, PartialSumsTyped
<1>a. \A s \in SUBSET S : \A x \in s : g[s] = f[x] + g[s \ {x}] /\ h[s] = e[x] + h[s \ {x}]
  <2> SUFFICES ASSUME NEW s \in SUBSET S, NEW x \in s
               PROVE  g[s] = f[x] + g[s \ {x}] /\ h[s] = e[x] + h[s \ {x}]
    OBVIOUS
  <2>1. g[s] = f[x] + g[s \ {x}]
    BY AnyFirst
  <2>2. h[s] = e[x] + h[s \ {x}]
    BY <1>e, AnyFirst
  <2> QED
    BY <2>1, <2>2
<1>0. g[{}] = 0 /\ h[{}] = 0
  BY <1>e, PartialSumsExist DEF Partial
<1>s. SumFunction(f) = g[S] /\ SumFunction(e) = h[S]
  <2>1. DOMAIN f = S /\ DOMAIN e = S
    BY <1>e
  <2> QED
    BY <2>1, SumIsPartial
<1> HIDE DEF g, h
<1>1. ASSUME NEW s \in SUBSET S, \A r \in SUBSET s : r # s => r \in P
      PROVE  s \in P
  <2> SUFFICES ASSUME u \notin s PROVE h[s] = g[s]
    OBVIOUS
  <2>1. ASSUME NEW x \in s PROVE h[s] = g[s]
    <3>1. h[s \ {x}] = g[s \ {x}]
      BY <1>1
    <3>2. e[x] = f[x]
      BY <1>e
    <3> QED
      BY <1>a, <3>1, <3>2
  <2> QED
    BY <1>0, <2>1
<1> HIDE DEF P
<1>2. P = SUBSET S
  <2>1. P \subseteq SUBSET S
    BY DEF P
  <2> QED
    BY <1>1, <2>1, SubsetInduction
<1>3. h[S \ {u}] = g[S \ {u}]
  BY <1>2 DEF P
<1>4. g[S] = f[u] + g[S \ {u}] /\ h[S] = e[u] + h[S \ {u}]
  BY <1>a
<1> QED
  BY <1>e, <1>t, <1>s, <1>3, <1>4 DEF e

(* The sum of a constant. *)
LEMMA SumOfConstant ==
    ASSUME NEW S, IsFiniteSet(S), NEW c \in Int
    PROVE  SumFunction([x \in S |-> c]) = Cardinality(S) * c
<1> DEFINE f == [x \in S |-> c]
           g == PartialSums(f, S)
           P == {s \in SUBSET S : g[s] = Cardinality(s) * c}
<1>f. f \in [S -> Int] /\ \A x \in S : f[x] = c
  OBVIOUS
<1> HIDE DEF f
<1>a. \A s \in SUBSET S : \A x \in s : g[s] = f[x] + g[s \ {x}]
  BY <1>f, AnyFirst
<1>0. g[{}] = 0
  BY <1>f, PartialSumsExist DEF Partial
<1>s. SumFunction(f) = g[S]
  <2>1. DOMAIN f = S
    BY <1>f
  <2> QED
    BY <2>1, SumIsPartial
<1> HIDE DEF g
<1>1. ASSUME NEW s \in SUBSET S, \A r \in SUBSET s : r # s => r \in P
      PROVE  s \in P
  <2>1. ASSUME NEW x \in s PROVE g[s] = Cardinality(s) * c
    <3>1. g[s \ {x}] = Cardinality(s \ {x}) * c
      BY <1>1
    <3>2. Cardinality(s) \in Nat /\ Cardinality(s \ {x}) = Cardinality(s) - 1
      BY FS_Subset, FS_RemoveElement, FS_CardinalityType
    <3>3. g[s] = c + g[s \ {x}]
      BY <1>a, <1>f
    <3> DEFINE n == Cardinality(s)
    <3>4. \A m \in Nat : c + (m - 1) * c = m * c
      OBVIOUS
    <3> QED
      BY <3>1, <3>2, <3>3, <3>4
  <2>2. s = {} => Cardinality(s) * c = 0
    BY FS_EmptySet
  <2> QED
    BY <1>0, <2>1, <2>2
<1> HIDE DEF P
<1>2. P = SUBSET S
  <2>1. P \subseteq SUBSET S
    BY DEF P
  <2> QED
    BY <1>1, <2>1, SubsetInduction
<1> QED
  BY <1>2, <1>s DEF P, f
=============================================================================
