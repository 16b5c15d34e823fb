---------------------------- MODULE FoldLemmas -----------------------------
(* Sums over finite sets (SumFunctionOnSet of the community module Functions), *)
(* from the recursive definition of a fold: what a sum does when an element is *)
(* added, when the weights change elsewhere, and under renumbering. Induction  *)
(* is on sets of numbers: the least one that fails.                            *)
EXTENDS Functions, FiniteSetTheorems, WellFoundedInduction, TLAPS

(* A set of natural numbers with an element has a least one.                  *)
LEMMA LeastNat ==
    ASSUME NEW S, S \subseteq Nat, S # {}
    PROVE  \E n \in S : \A m \in S : n <= m
<1>1. PICK n \in S : \A m \in S : <<m, n>> \notin OpToRel(<, Nat)
  BY WFMin, NatLessThanWellFounded
<1>2. \A m \in S : ~(m < n)
  BY <1>1 DEF OpToRel
<1> QED BY <1>2

(* A set that has 0 and the successor of each of its numbers has them all.    *)
LEMMA InductionOnNat ==
    ASSUME NEW G, 0 \in G, \A n \in Nat : n \in G => n + 1 \in G
    PROVE  Nat \subseteq G
<1> SUFFICES ASSUME NEW k \in Nat \ G PROVE FALSE
  OBVIOUS
<1>1. PICK n \in Nat \ G : \A m \in Nat \ G : n <= m
  <2> DEFINE Fails == Nat \ G
  <2>1. Fails \subseteq Nat /\ Fails # {}
    OBVIOUS
  <2> HIDE DEF Fails
  <2>2. \E n \in Fails : \A m \in Fails : n <= m
    BY <2>1, LeastNat
  <2> QED BY <2>2 DEF Fails
<1>2. n # 0 /\ n - 1 \in Nat
  BY <1>1
<1>3. n - 1 \in G
  BY <1>1, <1>2
<1> QED BY <1>1, <1>2, <1>3

-----------------------------------------------------------------------------
First(s) == CHOOSE x \in s : TRUE

\* The fold takes a set apart, its first element at a time.
SumsUp(w, it, s) == it[s] = IF s = {} THEN 0 ELSE w[First(s)] + it[s \ {First(s)}]

Small(S, n) == {s \in SUBSET S : Cardinality(s) <= n}

(* The first element of a set that has one is in it.                          *)
LEMMA FirstIn ==
    ASSUME NEW s, s # {} PROVE First(s) \in s
BY DEF First

(* Without its first element a set is smaller.                                *)
LEMMA SmallerRest ==
    ASSUME NEW S, IsFiniteSet(S), NEW s \in SUBSET S, NEW x \in s
    PROVE  /\ s \ {x} \in SUBSET S
           /\ Cardinality(s) \in Nat /\ Cardinality(s) > 0
           /\ Cardinality(s \ {x}) = Cardinality(s) - 1
<1>1. IsFiniteSet(s)
  BY FS_Subset
<1>2. Cardinality(s) \in Nat /\ Cardinality(s \ {x}) = Cardinality(s) - 1
  BY <1>1, FS_CardinalityType, FS_RemoveElement
<1>3. Cardinality(s \ {x}) \in Nat
  BY <1>1, FS_Subset, FS_CardinalityType
<1> QED BY <1>2, <1>3

(* What holds of a set when it holds of the set without any one of its         *)
(* elements holds of every subset of a finite set.                            *)
LEMMA InductionOnSubsets ==
    ASSUME NEW S, IsFiniteSet(S), NEW G,
           \A s \in SUBSET S : (\A x \in s : s \ {x} \in G) => s \in G
    PROVE  SUBSET S \subseteq G
<1> DEFINE N == {n \in Nat : Small(S, n) \subseteq G}
<1>1. 0 \in N
  <2>1. \A s \in Small(S, 0) : s = {} /\ s \in SUBSET S
    BY FS_EmptySet, FS_Subset, FS_CardinalityType DEF Small
  <2> QED BY <2>1
<1>2. ASSUME NEW n \in Nat, n \in N PROVE n + 1 \in N
  <2> SUFFICES ASSUME NEW s \in Small(S, n + 1) PROVE s \in G
    OBVIOUS
  <2>1. \A x \in s : s \ {x} \in Small(S, n)
    BY SmallerRest DEF Small
  <2> QED BY <1>2, <2>1 DEF Small
<1> HIDE DEF N
<1>3. Nat \subseteq N
  BY <1>1, <1>2, InductionOnNat
<1>4. Cardinality(S) \in Nat /\ SUBSET S = Small(S, Cardinality(S))
  BY FS_CardinalityType, FS_Subset DEF Small
<1> QED BY <1>3, <1>4 DEF N

(* The recursive definition of a sum has a solution, of the sets up to any    *)
(* size first.                                                                *)
LEMMA SolutionOfSize ==
    ASSUME NEW S, IsFiniteSet(S), NEW w, \A x \in S : w[x] \in Int
    PROVE  \A n \in Nat : \E it \in [Small(S, n) -> Int] : \A s \in Small(S, n) : SumsUp(w, it, s)
<1> DEFINE Solves(it, n) == it \in [Small(S, n) -> Int] /\ \A s \in Small(S, n) : SumsUp(w, it, s)
           G == {n \in Nat : \E it : Solves(it, n)}
<1>1. 0 \in G
  <2> DEFINE it == [s \in Small(S, 0) |-> 0]
  <2>1. \A s \in Small(S, 0) : s = {}
    BY FS_EmptySet, FS_Subset, FS_CardinalityType DEF Small
  <2>2. Solves(it, 0)
    BY <2>1 DEF SumsUp
  <2> QED BY <2>2
<1>2. ASSUME NEW n \in Nat, n \in G PROVE n + 1 \in G
  <2>1. PICK g : Solves(g, n)
    BY <1>2
  <2> DEFINE it == [s \in Small(S, n + 1) |->
                      IF s = {} THEN 0 ELSE w[First(s)] + g[s \ {First(s)}]]
  <2>2. ASSUME NEW s \in Small(S, n + 1), s # {}
        PROVE  s \ {First(s)} \in Small(S, n) /\ First(s) \in S
    <3>1. First(s) \in s
      BY <2>2, FirstIn
    <3>2. s \in SUBSET S /\ Cardinality(s) <= n + 1
      BY <2>2 DEF Small
    <3> QED BY <3>1, <3>2, SmallerRest DEF Small
  <2>3. it \in [Small(S, n + 1) -> Int]
    BY <2>1, <2>2
  <2>4. \A s \in Small(S, n) : s \in Small(S, n + 1) /\ it[s] = g[s]
    <3> SUFFICES ASSUME NEW s \in Small(S, n) PROVE s \in Small(S, n + 1) /\ it[s] = g[s]
      OBVIOUS
    <3>1. s \in Small(S, n + 1)
      <4>1. Cardinality(s) \in Nat
        BY FS_Subset, FS_CardinalityType DEF Small
      <4> QED BY <4>1 DEF Small
    <3>2. SumsUp(w, g, s)
      BY <2>1
    <3> QED BY <3>1, <3>2 DEF SumsUp
  <2>5. ASSUME NEW s \in Small(S, n + 1) PROVE SumsUp(w, it, s)
    <3>1. s # {} => it[s \ {First(s)}] = g[s \ {First(s)}]
      BY <2>2, <2>4
    <3> QED BY <3>1 DEF SumsUp
  <2> HIDE DEF it
  <2>6. Solves(it, n + 1)
    BY <2>3, <2>5
  <2> QED BY <2>6
<1> HIDE DEF G
<1>3. Nat \subseteq G
  BY <1>1, <1>2, InductionOnNat
<1> QED BY <1>3 DEF G

(* The recursion of a fold has a solution on all subsets of a finite set.     *)
LEMMA Solution ==
    ASSUME NEW S, IsFiniteSet(S), NEW w, \A x \in S : w[x] \in Int
    PROVE  \E it \in [SUBSET S -> Int] : \A s \in SUBSET S : SumsUp(w, it, s)
<1>1. Cardinality(S) \in Nat
  BY FS_CardinalityType
<1>2. Small(S, Cardinality(S)) = SUBSET S
  BY FS_Subset DEF Small
<1> QED BY <1>1, <1>2, SolutionOfSize

(* Two solutions agree where their weights do.                                *)
LEMMA SolutionsAgree ==
    ASSUME NEW S, IsFiniteSet(S), NEW w, NEW v, \A x \in S : w[x] = v[x],
           NEW it, \A s \in SUBSET S : SumsUp(w, it, s),
           NEW jt, \A s \in SUBSET S : SumsUp(v, jt, s)
    PROVE  \A s \in SUBSET S : it[s] = jt[s]
<1> DEFINE G == {s \in SUBSET S : it[s] = jt[s]}
<1>1. ASSUME NEW s \in SUBSET S, \A x \in s : s \ {x} \in G PROVE s \in G
  <2>1. CASE s = {}
    BY <2>1 DEF SumsUp
  <2>2. CASE s # {}
    <3>1. First(s) \in s
      BY <2>2, FirstIn
    <3>2. it[s \ {First(s)}] = jt[s \ {First(s)}] /\ w[First(s)] = v[First(s)]
      BY <1>1, <3>1
    <3> QED BY <2>2, <3>2 DEF SumsUp
  <2> QED BY <2>1, <2>2
<1> HIDE DEF G
<1>2. SUBSET S \subseteq G
  BY <1>1, InductionOnSubsets
<1> QED BY <1>2 DEF G

(* The sum is what a solution gives for the whole set.                        *)
LEMMA SumIsSolution ==
    ASSUME NEW S, IsFiniteSet(S), NEW w, \A x \in S : w[x] \in Int
    PROVE  \E it \in [SUBSET S -> Int] :
              /\ \A s \in SUBSET S : SumsUp(w, it, s)
              /\ SumFunctionOnSet(w, S) = it[S]
<1> DEFINE Def(it) == it = [s \in SUBSET S |->
                              IF s = {} THEN 0
                              ELSE w[CHOOSE x \in s : TRUE] + it[s \ {CHOOSE x \in s : TRUE}]]
           the == CHOOSE it : Def(it)
<1>1. SumFunctionOnSet(w, S) = the[S]
  BY DEF SumFunctionOnSet, FoldFunctionOnSet, MapThenFoldSet
<1>2. PICK g \in [SUBSET S -> Int] : \A s \in SUBSET S : SumsUp(w, g, s)
  BY Solution
<1>3. Def(g)
  BY <1>2 DEF SumsUp, First
<1>4. Def(the)
  BY <1>3
<1> HIDE DEF the
<1>5. \A s \in SUBSET S : SumsUp(w, the, s)
  BY <1>4 DEF SumsUp, First
<1>6. \A s \in SUBSET S : the[s] = g[s]
  BY <1>2, <1>5, SolutionsAgree
<1> QED BY <1>1, <1>2, <1>6

-----------------------------------------------------------------------------
(* Sums depend on the weights of the set's elements only.                     *)
LEMMA SumSame ==
    ASSUME NEW S, IsFiniteSet(S), NEW w, NEW v,
           \A x \in S : w[x] = v[x] /\ w[x] \in Int
    PROVE  SumFunctionOnSet(w, S) = SumFunctionOnSet(v, S)
<1>1. PICK it \in [SUBSET S -> Int] :
        (\A s \in SUBSET S : SumsUp(w, it, s)) /\ SumFunctionOnSet(w, S) = it[S]
  BY SumIsSolution
<1>2. PICK jt \in [SUBSET S -> Int] :
        (\A s \in SUBSET S : SumsUp(v, jt, s)) /\ SumFunctionOnSet(v, S) = jt[S]
  BY SumIsSolution
<1>3. \A s \in SUBSET S : it[s] = jt[s]
  BY <1>1, <1>2, SolutionsAgree
<1> QED BY <1>1, <1>2, <1>3

(* A sum of whole numbers is one, that of nothing is 0, and another sum takes *)
(* a set apart at its first element.                                          *)
LEMMA SumUnfolds ==
    ASSUME NEW S, IsFiniteSet(S), NEW w, \A x \in S : w[x] \in Int
    PROVE  /\ SumFunctionOnSet(w, S) \in Int
           /\ S = {} => SumFunctionOnSet(w, S) = 0
           /\ S # {} => SumFunctionOnSet(w, S)
                          = w[First(S)] + SumFunctionOnSet(w, S \ {First(S)})
<1>1. PICK it \in [SUBSET S -> Int] :
        (\A s \in SUBSET S : SumsUp(w, it, s)) /\ SumFunctionOnSet(w, S) = it[S]
  BY SumIsSolution
<1> DEFINE T == S \ {First(S)}
<1>2. T \subseteq S /\ IsFiniteSet(T)
  BY FS_Subset
<1>3. PICK jt \in [SUBSET T -> Int] :
        (\A s \in SUBSET T : SumsUp(w, jt, s)) /\ SumFunctionOnSet(w, T) = jt[T]
  BY <1>2, SumIsSolution
<1>4. \A s \in SUBSET T : it[s] = jt[s]
  <2>1. \A s \in SUBSET T : SumsUp(w, it, s)
    BY <1>1, <1>2
  <2>2. \A s \in SUBSET T : SumsUp(w, jt, s)
    BY <1>3
  <2>3. \A x \in T : w[x] = w[x]
    OBVIOUS
  <2> HIDE DEF T
  <2> QED BY <1>2, <2>1, <2>2, <2>3, SolutionsAgree
<1>5. SumsUp(w, it, S) /\ it[T] = jt[T]
  BY <1>1, <1>2, <1>4
<1> QED BY <1>1, <1>3, <1>5 DEF SumsUp

(* The first element is not special: a sum takes a set apart anywhere.        *)
LEMMA SumRemove ==
    ASSUME NEW S, IsFiniteSet(S), NEW w, \A x \in S : w[x] \in Int, NEW y \in S
    PROVE  SumFunctionOnSet(w, S) = w[y] + SumFunctionOnSet(w, S \ {y})
<1> DEFINE Sum(s) == SumFunctionOnSet(w, s)
           G == {s \in SUBSET S : \A x \in s : Sum(s) = w[x] + Sum(s \ {x})}
<1>1. \A s \in SUBSET S : IsFiniteSet(s) /\ Sum(s) \in Int
  BY FS_Subset, SumUnfolds
<1>2. ASSUME NEW s \in SUBSET S, \A x \in s : s \ {x} \in G PROVE s \in G
  <2> SUFFICES ASSUME NEW x \in s PROVE Sum(s) = w[x] + Sum(s \ {x})
    OBVIOUS
  <2> DEFINE a == First(s)
  <2>1. a \in s /\ Sum(s) = w[a] + Sum(s \ {a})
    BY <1>1, FirstIn, SumUnfolds
  <2> HIDE DEF a, Sum
  <2>2. CASE x = a
    BY <2>1, <2>2
  <2>3. CASE x # a
    <3>1. Sum(s \ {a}) = w[x] + Sum((s \ {a}) \ {x})
      BY <1>2, <2>1, <2>3
    <3>2. Sum(s \ {x}) = w[a] + Sum((s \ {x}) \ {a})
      BY <1>2, <2>1, <2>3
    <3>3. (s \ {a}) \ {x} = (s \ {x}) \ {a}
      OBVIOUS
    <3> DEFINE r == Sum((s \ {x}) \ {a})
               p == w[a]
               q == w[x]
    <3>4. r \in Int /\ p \in Int /\ q \in Int
      BY <1>1, <2>1
    <3>5. Sum(s) = p + (q + r) /\ Sum(s \ {x}) = p + r
      BY <2>1, <3>1, <3>2, <3>3
    <3> HIDE DEF r, p, q
    <3>6. p + (q + r) = q + (p + r)
      BY <3>4
    <3> QED BY <3>5, <3>6 DEF q
  <2> QED BY <2>2, <2>3
<1> HIDE DEF G, Sum
<1>3. SUBSET S \subseteq G
  BY <1>2, InductionOnSubsets
<1> QED BY <1>3 DEF G, Sum

(* What an element adds.                                                      *)
LEMMA SumAdd ==
    ASSUME NEW S, IsFiniteSet(S), NEW y, y \notin S,
           NEW w, \A x \in S \union {y} : w[x] \in Int
    PROVE  SumFunctionOnSet(w, S \union {y}) = SumFunctionOnSet(w, S) + w[y]
<1>1. IsFiniteSet(S \union {y}) /\ (S \union {y}) \ {y} = S
  BY FS_AddElement
<1>2. SumFunctionOnSet(w, S \union {y}) = w[y] + SumFunctionOnSet(w, (S \union {y}) \ {y})
  BY <1>1, SumRemove
<1>3. SumFunctionOnSet(w, S) \in Int /\ w[y] \in Int
  BY SumUnfolds
<1>4. SumFunctionOnSet(w, S \union {y}) = w[y] + SumFunctionOnSet(w, S)
  BY <1>1, <1>2
<1> DEFINE p == SumFunctionOnSet(w, S)
           q == w[y]
<1>5. p \in Int /\ q \in Int
  BY <1>3
<1> HIDE DEF p, q
<1>6. q + p = p + q
  BY <1>5
<1> QED BY <1>4, <1>6 DEF p, q

(* A sum does not depend on how its elements are numbered.                    *)
LEMMA SumRenumber ==
    ASSUME NEW S, IsFiniteSet(S), NEW w, \A x \in S : w[x] \in Int,
           NEW T, NEW v, NEW b \in [S -> T],
           \A x, y \in S : b[x] = b[y] => x = y,
           \A t \in T : \E x \in S : b[x] = t,
           \A x \in S : v[b[x]] = w[x]
    PROVE  SumFunctionOnSet(v, T) = SumFunctionOnSet(w, S)
<1> DEFINE Img(s) == {b[x] : x \in s}
           G == {s \in SUBSET S : SumFunctionOnSet(v, Img(s)) = SumFunctionOnSet(w, s)}
<1>1. \A s \in SUBSET S : IsFiniteSet(s) /\ IsFiniteSet(Img(s)) /\ \A t \in Img(s) : v[t] \in Int
  <2> SUFFICES ASSUME NEW s \in SUBSET S
               PROVE  IsFiniteSet(s) /\ IsFiniteSet(Img(s)) /\ \A t \in Img(s) : v[t] \in Int
    OBVIOUS
  <2>1. IsFiniteSet(s)
    BY FS_Subset
  <2>2. IsFiniteSet(Img(s))
    <3> DEFINE f == [x \in s |-> b[x]]
    <3>1. f \in Surjection(s, Img(s))
      BY DEF Surjection
    <3> HIDE DEF f
    <3> QED BY <2>1, <3>1, FS_Surjection
  <2> QED BY <2>1, <2>2
<1>2. ASSUME NEW s \in SUBSET S, \A x \in s : s \ {x} \in G PROVE s \in G
  <2>1. CASE s = {}
    <3>1. Img(s) = {}
      BY <2>1
    <3>2. SumFunctionOnSet(v, {}) = 0 /\ SumFunctionOnSet(w, {}) = 0
      BY FS_EmptySet, SumUnfolds
    <3> QED BY <2>1, <3>1, <3>2
  <2>2. CASE s # {}
    <3>1. PICK x \in s : TRUE
      BY <2>2
    <3>2. Img(s \ {x}) = Img(s) \ {b[x]} /\ b[x] \in Img(s)
      OBVIOUS
    <3> HIDE DEF Img
    <3>3. SumFunctionOnSet(v, Img(s)) = v[b[x]] + SumFunctionOnSet(v, Img(s) \ {b[x]})
      BY <1>1, <3>2, SumRemove
    <3>4. SumFunctionOnSet(w, s) = w[x] + SumFunctionOnSet(w, s \ {x})
      BY <1>1, <3>1, SumRemove
    <3>5. SumFunctionOnSet(v, Img(s \ {x})) = SumFunctionOnSet(w, s \ {x})
      BY <1>2, <3>1
    <3> QED BY <3>1, <3>2, <3>3, <3>4, <3>5
  <2> QED BY <2>1, <2>2
<1> HIDE DEF G, Img
<1>3. S \in G
  BY <1>2, InductionOnSubsets
<1>4. Img(S) = T
  BY DEF Img
<1> QED BY <1>3, <1>4 DEF G

(* The same for the sum of a function's values: of none, and with one more.   *)
LEMMA SumFunctionType ==
    ASSUME NEW S, IsFiniteSet(S), NEW f \in [S -> Int]
    PROVE  SumFunction(f) \in Int /\ (S = {} => SumFunction(f) = 0)
<1>1. SumFunction(f) = SumFunctionOnSet(f, S)
  BY DEF SumFunction
<1> QED BY <1>1, SumUnfolds

(* A function with one more argument sums up to one value more.               *)
LEMMA SumFunctionAdd ==
    ASSUME NEW S, IsFiniteSet(S), NEW y, y \notin S,
           NEW f \in [S -> Int], NEW g \in [S \union {y} -> Int], \A x \in S : g[x] = f[x]
    PROVE  SumFunction(g) = SumFunction(f) + g[y]
<1>1. SumFunction(g) = SumFunctionOnSet(g, S \union {y})
  BY DEF SumFunction
<1>2. SumFunctionOnSet(g, S \union {y}) = SumFunctionOnSet(g, S) + g[y]
  BY SumAdd
<1>3. SumFunctionOnSet(g, S) = SumFunctionOnSet(f, S)
  BY SumSame
<1>4. SumFunction(f) = SumFunctionOnSet(f, S)
  BY DEF SumFunction
<1> QED BY <1>1, <1>2, <1>3, <1>4

(* A sum of values that are each within twice another's is within twice its   *)
(* sum.                                                                       *)
LEMMA SumFunctionTwice ==
    ASSUME NEW S, IsFiniteSet(S), NEW f \in [S -> Int], NEW g \in [S -> Int],
           \A x \in S : f[x] <= 2 * g[x]
    PROVE  SumFunction(f) <= 2 * SumFunction(g)
<1> DEFINE Within(s) == SumFunctionOnSet(f, s) <= 2 * SumFunctionOnSet(g, s)
           G == {s \in SUBSET S : Within(s)}
<1>1. ASSUME NEW s \in SUBSET S, \A x \in s : s \ {x} \in G PROVE s \in G
  <2>1. IsFiniteSet(s)
    BY FS_Subset
  <2>2. CASE s = {}
    <3>1. SumFunctionOnSet(f, s) = 0 /\ SumFunctionOnSet(g, s) = 0
      BY <2>1, <2>2, SumUnfolds
    <3> QED BY <3>1
  <2>3. CASE s # {}
    <3>1. PICK x \in s : TRUE
      BY <2>3
    <3> DEFINE a == SumFunctionOnSet(f, s \ {x})
               b == SumFunctionOnSet(g, s \ {x})
               p == f[x]
               q == g[x]
    <3>2. SumFunctionOnSet(f, s) = p + a /\ SumFunctionOnSet(g, s) = q + b
      BY <2>1, SumRemove
    <3>3. a \in Int /\ b \in Int /\ p \in Int /\ q \in Int
      <4>1. IsFiniteSet(s \ {x})
        BY <2>1, FS_Subset
      <4> QED BY <4>1, SumUnfolds
    <3>4. a <= 2 * b /\ p <= 2 * q
      BY <1>1
    <3> HIDE DEF a, b, p, q
    <3>5. p + a <= 2 * (q + b)
      BY <3>3, <3>4
    <3> QED BY <3>2, <3>5
  <2> QED BY <2>2, <2>3
<1> HIDE DEF G
<1>2. SUBSET S \subseteq G
  BY <1>1, InductionOnSubsets
<1>3. SumFunctionOnSet(f, S) <= 2 * SumFunctionOnSet(g, S)
  BY <1>2 DEF G
<1>4. SumFunction(f) = SumFunctionOnSet(f, S) /\ SumFunction(g) = SumFunctionOnSet(g, S)
  BY DEF SumFunction
<1> QED BY <1>3, <1>4

(* The sum over a sequence, when it grows and when a place is taken out.      *)
LEMMA SumSequenceGrow ==
    ASSUME NEW n \in Nat, NEW f \in [1..n -> Int], NEW g \in [1..(n + 1) -> Int],
           \A i \in 1..n : g[i] = f[i]
    PROVE  SumFunction(g) = SumFunction(f) + g[n + 1]
<1> DEFINE S == 1..n
           y == n + 1
<1>1. IsFiniteSet(S) /\ y \notin S
  BY FS_Interval
<1>2. /\ SumFunction(f) = SumFunctionOnSet(f, S)
      /\ SumFunction(g) = SumFunctionOnSet(g, S \union {y})
  <2>1. DOMAIN g = S \union {y} /\ DOMAIN f = S
    OBVIOUS
  <2> QED BY <2>1 DEF SumFunction
<1>3. /\ \A x \in S \union {y} : g[x] \in Int
      /\ \A x \in S : g[x] = f[x] /\ g[x] \in Int
  OBVIOUS
<1> HIDE DEF S, y
<1>4. SumFunctionOnSet(g, S \union {y}) = SumFunctionOnSet(g, S) + g[y]
  BY <1>1, <1>3, SumAdd
<1>5. SumFunctionOnSet(g, S) = SumFunctionOnSet(f, S)
  BY <1>1, <1>3, SumSame
<1>6. SumFunction(g) = SumFunction(f) + g[y]
  BY <1>2, <1>4, <1>5
<1> QED BY <1>6 DEF y

\* The sequence g is f, of length n, without its k-th element.
Without(f, n, k, g) ==
    /\ n \in Nat /\ f \in [1..n -> Int] /\ k \in 1..n /\ g \in [1..(n - 1) -> Int]
    /\ \A i \in 1..(n - 1) : g[i] = IF i < k THEN f[i] ELSE f[i + 1]

(* A sequence without its k-th element sums up to that element less.          *)
LEMMA SumSequenceDrop ==
    ASSUME NEW n, NEW f, NEW k, NEW g, Without(f, n, k, g)
    PROVE  SumFunction(g) = SumFunction(f) - f[k]
<1> DEFINE S == (1..n) \ {k}
           T == 1..(n - 1)
           b == [x \in S |-> IF x < k THEN x ELSE x - 1]
<1> USE DEF Without
<1>1. IsFiniteSet(1..n) /\ IsFiniteSet(S)
  <2>1. IsFiniteSet(1..n)
    BY FS_Interval
  <2>2. S \subseteq 1..n
    OBVIOUS
  <2> HIDE DEF S
  <2> QED BY <2>1, <2>2, FS_Subset
<1>2. /\ SumFunction(f) = SumFunctionOnSet(f, 1..n)
      /\ SumFunction(g) = SumFunctionOnSet(g, T)
  BY DEF SumFunction
<1>3. SumFunctionOnSet(f, 1..n) = f[k] + SumFunctionOnSet(f, S)
  BY <1>1, SumRemove
<1>4. SumFunctionOnSet(g, T) = SumFunctionOnSet(f, S)
  <2>1. b \in [S -> T]
    OBVIOUS
  <2>2. \A x, y \in S : b[x] = b[y] => x = y
    OBVIOUS
  <2>3. \A t \in T : \E x \in S : b[x] = t
    <3> SUFFICES ASSUME NEW t \in T PROVE \E x \in S : b[x] = t
      OBVIOUS
    <3>1. CASE t < k
      <4>1. t \in S /\ b[t] = t
        BY <3>1
      <4> QED BY <4>1
    <3>2. CASE t >= k
      <4>1. t + 1 \in S /\ b[t + 1] = t
        BY <3>2
      <4> QED BY <4>1
    <3> QED BY <3>1, <3>2
  <2>4. \A x \in S : g[b[x]] = f[x]
    <3> SUFFICES ASSUME NEW x \in S PROVE g[b[x]] = f[x]
      OBVIOUS
    <3>1. CASE x < k
      <4>1. b[x] = x /\ x \in 1..(n - 1)
        BY <3>1
      <4> QED BY <3>1, <4>1
    <3>2. CASE x > k
      <4>1. b[x] = x - 1 /\ x - 1 \in 1..(n - 1) /\ ~(x - 1 < k) /\ (x - 1) + 1 = x
        BY <3>2
      <4> QED BY <4>1
    <3> QED BY <3>1, <3>2
  <2>5. \A x \in S : f[x] \in Int
    OBVIOUS
  <2> HIDE DEF S, T, b, Without
  <2> QED BY <1>1, <2>1, <2>2, <2>3, <2>4, <2>5, SumRenumber
<1>5. SumFunctionOnSet(f, S) \in Int
  <2>1. \A x \in S : f[x] \in Int
    OBVIOUS
  <2> HIDE DEF S
  <2> QED BY <1>1, <2>1, SumUnfolds
<1>6. f[k] \in Int
  OBVIOUS
<1> DEFINE A == SumFunctionOnSet(f, S)
           B == f[k]
<1> HIDE DEF S, A, B
<1>7. SumFunction(g) = A /\ SumFunction(f) = B + A /\ A \in Int /\ B \in Int
  BY <1>2, <1>3, <1>4, <1>5, <1>6 DEF A, B
<1>8. SumFunction(g) = SumFunction(f) - B
  BY <1>7
<1> QED BY <1>8 DEF B

\* The places S of a sequence of length n, when place k is taken out.
Shifted(n, k, S) == {i \in 1..(n - 1) : IF i < k THEN i \in S ELSE i + 1 \in S}

(* A set of places has one less when the k-th place is dropped and was in it. *)
LEMMA PlacesDrop ==
    ASSUME NEW n \in Nat, NEW k \in 1..n, NEW S, S \subseteq 1..n
    PROVE  Cardinality(Shifted(n, k, S)) = Cardinality(S) - (IF k \in S THEN 1 ELSE 0)
<1> DEFINE T == Shifted(n, k, S)
           R == S \ {k}
           b == [x \in R |-> IF x < k THEN x ELSE x - 1]
<1>1. IsFiniteSet(S) /\ IsFiniteSet(R) /\ IsFiniteSet(T)
  <2>1. IsFiniteSet(1..n) /\ IsFiniteSet(1..(n - 1))
    BY FS_Interval
  <2>2. IsFiniteSet(S)
    BY <2>1, FS_Subset
  <2>3. R \subseteq S /\ T \subseteq 1..(n - 1)
    BY DEF Shifted
  <2> HIDE DEF R
  <2> QED BY <2>1, <2>2, <2>3, FS_Subset
<1>2. b \in Bijection(R, T)
  <2>1. b \in [R -> T]
    BY DEF Shifted
  <2>2. \A x, y \in R : b[x] = b[y] => x = y
    OBVIOUS
  <2>3. \A t \in T : \E x \in R : b[x] = t
    <3> SUFFICES ASSUME NEW t \in T PROVE \E x \in R : b[x] = t
      OBVIOUS
    <3>1. CASE t < k
      <4>1. t \in R /\ b[t] = t
        BY <3>1 DEF Shifted
      <4> QED BY <4>1
    <3>2. CASE t >= k
      <4>1. t + 1 \in R /\ b[t + 1] = t
        BY <3>2 DEF Shifted
      <4> QED BY <4>1
    <3>3. t \in Int /\ k \in Int
      BY DEF Shifted
    <3>4. t < k \/ t >= k
      BY <3>3
    <3> QED BY <3>1, <3>2, <3>4
  <2> HIDE DEF R, b
  <2> QED BY <2>1, <2>2, <2>3 DEF Bijection, Injection, Surjection, IsInjective
<1>3. Cardinality(T) = Cardinality(R)
  <2> HIDE DEF R, b
  <2> QED BY <1>1, <1>2, FS_Bijection DEF ExistsBijection
<1>4. Cardinality(R) = Cardinality(S) - (IF k \in S THEN 1 ELSE 0)
  <2>1. CASE k \in S
    BY <1>1, <2>1, FS_RemoveElement
  <2>2. CASE k \notin S
    <3>1. R = S
      BY <2>2
    <3>2. Cardinality(S) \in Nat
      BY <1>1, FS_CardinalityType
    <3> DEFINE m == Cardinality(S)
    <3>3. Cardinality(R) = m
      BY <3>1
    <3> HIDE DEF m, R
    <3>4. m \in Nat /\ Cardinality(R) = m - 0
      BY <3>2, <3>3 DEF m
    <3> QED BY <2>2, <3>4 DEF m
  <2> QED BY <2>1, <2>2
<1> QED BY <1>1, <1>3, <1>4, FS_CardinalityType

(* A finite set of numbers has a largest one.                                 *)
LEMMA LargestOf ==
    ASSUME NEW S, IsFiniteSet(S), S \subseteq Int, S # {}
    PROVE  \E m \in S : \A x \in S : x <= m
<1> DEFINE G == {s \in SUBSET S : s = {} \/ \E m \in s : \A x \in s : x <= m}
<1>1. ASSUME NEW s \in SUBSET S, \A x \in s : s \ {x} \in G
      PROVE  s \in G
  <2>1. CASE s = {}
    BY <2>1
  <2>2. CASE s # {}
    <3>1. PICK y \in s : TRUE
      BY <2>2
    <3>2. s \ {y} \in G
      BY <1>1
    <3>3. CASE s \ {y} = {}
      <4>1. s = {y} /\ y \in Int
        BY <3>1, <3>3
      <4> QED BY <4>1
    <3>4. CASE s \ {y} # {}
      <4>1. PICK m \in s \ {y} : \A x \in s \ {y} : x <= m
        BY <3>2, <3>4
      <4>2. m \in Int /\ y \in Int /\ \A x \in s : x \in Int
        OBVIOUS
      <4>3. \E z \in s : \A x \in s : x <= z
        <5>1. CASE y <= m
          <6>1. \A x \in s : x <= m
            BY <4>1, <5>1
          <6> QED BY <4>1, <6>1
        <5>2. CASE ~(y <= m)
          <6>1. \A x \in s : x = y \/ (x \in Int /\ x <= m)
            BY <4>1, <4>2
          <6>2. y \in Int /\ m \in Int /\ m <= y
            BY <4>2, <5>2
          <6>3. \A x \in s : x <= y
            BY <6>1, <6>2
          <6> QED BY <3>1, <6>3
        <5> QED BY <5>1, <5>2
      <4> QED BY <4>3
    <3> QED BY <3>3, <3>4
  <2> QED BY <2>1, <2>2
<1> HIDE DEF G
<1>2. SUBSET S \subseteq G
  BY <1>1, InductionOnSubsets
<1> QED BY <1>2 DEF G
=============================================================================
