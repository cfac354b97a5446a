----------------------------- MODULE DataLemmas -----------------------------
(***************************************************************************)
(* Facts about numbers, sums over finite sets and ordered rows that the    *)
(* proofs about the components share.  Induction is by least               *)
(* counterexample: the provers cannot instantiate the induction rules of   *)
(* the library, which are about operators, but they can pick a least       *)
(* element of a set.                                                       *)
(***************************************************************************)
EXTENDS Ordering, Functions, FiniteSetsExt, FiniteSetTheorems, SequenceTheorems,
        WellFoundedInduction, TLAPS

-----------------------------------------------------------------------------
(* Numbers and sets *)

\* Every nonempty set of numbers has a least element.
LEMMA LeastNat ==
  ASSUME NEW T \in SUBSET Nat, T # {}
  PROVE  \E x \in T : \A y \in T : x <= y
  <1> DEFINE R == {ss \in Nat \X Nat : ss[1] < ss[2]}
  <1>1. IsWellFoundedOn(R, Nat)
    BY NatLessThanWellFounded, Zenon DEF OpToRel
  <1>2. PICK x \in T : \A y \in T : ~ (<<y, x>> \in R)
    <2> HIDE DEF R
    <2> QED BY <1>1, WFMin, Zenon
  <1>3. \A y \in T : x <= y
    <2> TAKE y \in T
    <2>1. x \in Nat /\ y \in Nat
      OBVIOUS
    <2>2. y < x => <<y, x>> \in R
      BY <2>1
    <2> QED
      BY <1>2, <2>1, <2>2
  <1> QED
    BY <1>3

\* Every nonempty bounded set of numbers has a greatest element, its Max.
LEMMA GreatestNat ==
  ASSUME NEW T \in SUBSET Nat, T # {}, NEW n \in Nat, \A y \in T : y <= n
  PROVE  Max(T) \in T /\ \A y \in T : y <= Max(T)
  <1> DEFINE D == {k \in Nat : n - k \in T}
  <1>1. D \in SUBSET Nat
    OBVIOUS
  <1>2. \A y \in T : n - y \in D
    OBVIOUS
  <1>3. PICK k \in D : \A m \in D : k <= m
    <2>1. D # {}
      BY <1>2
    <2> HIDE DEF D
    <2> QED
      BY <1>1, <2>1, LeastNat
  <1>4. n - k \in T /\ \A y \in T : n - k >= y
    BY <1>2, <1>3
  <1>5. Max(T) \in T /\ \A y \in T : Max(T) >= y
    BY <1>4, Zenon DEF Max
  <1> QED
    BY <1>5

\* Induction over the subsets of a finite set, for a set of good ones: a subset is
\* good when all its proper subsets are.
LEMMA SubsetInduction ==
  ASSUME NEW S, IsFiniteSet(S), NEW Good,
         \A T \in SUBSET S : (\A U \in SUBSET T : U # T => U \in Good) => T \in Good
  PROVE  S \in Good
  <1> DEFINE Bad == {n \in Nat : \E T \in SUBSET S : T \notin Good /\ Cardinality(T) = n}
  <1> SUFFICES ASSUME S \notin Good PROVE FALSE
    OBVIOUS
  <1>1. Cardinality(S) \in Bad
    BY FS_CardinalityType
  <1>2. PICK n \in Bad : \A m \in Bad : n <= m
    <2>1. Bad \in SUBSET Nat /\ Bad # {}
      BY <1>1
    <2> HIDE DEF Bad
    <2> QED
      BY <2>1, LeastNat
  <1>3. PICK T \in SUBSET S : T \notin Good /\ Cardinality(T) = n
    OBVIOUS
  <1>4. IsFiniteSet(T)
    BY <1>3, FS_Subset
  <1>5. PICK U \in SUBSET T : U # T /\ U \notin Good
    BY <1>3
  <1>6. Cardinality(U) <= Cardinality(T) /\ Cardinality(T) # Cardinality(U)
    BY <1>4, <1>5, FS_Subset
  <1>7. Cardinality(U) \in Nat
    BY <1>4, <1>5, FS_Subset, FS_CardinalityType
  <1>8. Cardinality(U) \in Bad
    BY <1>5, <1>7
  <1> QED
    BY <1>2, <1>3, <1>6, <1>7, <1>8

-----------------------------------------------------------------------------
(* Sums *)

\* The element that the fold takes out of a set.
Some(s) == CHOOSE x \in s : TRUE

\* it solves the recursion of SumFunctionOnSet for the subsets of S.
Sums(it, f, S) ==
  it = [s \in SUBSET S |-> IF s = {} THEN 0 ELSE f[Some(s)] + it[s \ {Some(s)}]]

\* The sum unfolds to a solution.
LEMMA SumUnfold ==
  ASSUME NEW f, NEW S
  PROVE  SumFunctionOnSet(f, S) = (CHOOSE it : Sums(it, f, S))[S]
  BY Zenon DEF SumFunctionOnSet, FoldFunctionOnSet, MapThenFoldSet, Sums, Some

\* Taking an element of a finite set out leaves a smaller one.
LEMMA TakeOut ==
  ASSUME NEW s, IsFiniteSet(s), s # {}
  PROVE  /\ Some(s) \in s /\ IsFiniteSet(s \ {Some(s)})
         /\ Cardinality(s \ {Some(s)}) = Cardinality(s) - 1
         /\ Cardinality(s) \in Nat \ {0}
  <1>1. Some(s) \in s
    BY DEF Some
  <1>2. Cardinality(s) \in Nat /\ Cardinality(s) # 0
    BY FS_CardinalityType, FS_EmptySet
  <1> QED
    BY <1>1, <1>2, FS_RemoveElement

\* g solves the recursion on the subsets with at most n elements.
Small(n, S) == {s \in SUBSET S : Cardinality(s) <= n}
SumsUpTo(g, n, f, S) ==
  /\ g \in [Small(n, S) -> Int]
  /\ \A s \in Small(n, S) : g[s] = IF s = {} THEN 0 ELSE f[Some(s)] + g[s \ {Some(s)}]

\* There is such a solution for every n.
LEMMA SumsUpToExist ==
  ASSUME NEW S, IsFiniteSet(S), NEW f, \A x \in S : f[x] \in Int, NEW n \in Nat
  PROVE  \E g : SumsUpTo(g, n, f, S)
  <1> DEFINE Bad == {k \in Nat : ~ \E g : SumsUpTo(g, k, f, S)}
  <1> SUFFICES ASSUME Bad # {} PROVE FALSE
    OBVIOUS
  <1>1. PICK k \in Bad : \A m \in Bad : k <= m
    <2>1. Bad \in SUBSET Nat
      OBVIOUS
    <2> HIDE DEF Bad
    <2> QED
      BY <2>1, LeastNat
  <1>0. \A s \in SUBSET S : IsFiniteSet(s) /\ Cardinality(s) \in Nat
    BY FS_Subset, FS_CardinalityType
  <1>2. k # 0
    <2> DEFINE z == [s \in Small(0, S) |-> 0]
    <2>1. \A s \in Small(0, S) : s = {}
      BY <1>0, FS_EmptySet DEF Small
    <2>2. SumsUpTo(z, 0, f, S)
      BY <2>1 DEF SumsUpTo
    <2> QED
      BY <2>2
  <1>3. k - 1 \in Nat /\ k - 1 \notin Bad
    BY <1>1, <1>2
  <1>4. PICK g : SumsUpTo(g, k - 1, f, S)
    BY <1>3
  <1>5. \A s \in Small(k, S) : s # {} => s \ {Some(s)} \in Small(k - 1, S) /\ f[Some(s)] \in Int
    <2> SUFFICES ASSUME NEW s \in SUBSET S, Cardinality(s) <= k, s # {}
                 PROVE  s \ {Some(s)} \in Small(k - 1, S) /\ f[Some(s)] \in Int
      BY DEF Small
    <2> QED
      BY <1>0, <1>3, TakeOut DEF Small
  <1> DEFINE h == [s \in Small(k, S) |-> IF s = {} THEN 0 ELSE f[Some(s)] + g[s \ {Some(s)}]]
  <1>6. Small(k - 1, S) \subseteq Small(k, S)
    BY <1>0 DEF Small
  <1>7. \A s \in Small(k - 1, S) : h[s] = g[s]
    BY <1>4, <1>6 DEF SumsUpTo
  <1>8. h \in [Small(k, S) -> Int]
    BY <1>4, <1>5 DEF SumsUpTo
  <1>9. \A s \in Small(k, S) : h[s] = IF s = {} THEN 0 ELSE f[Some(s)] + h[s \ {Some(s)}]
    BY <1>5, <1>7
  <1>10. SumsUpTo(h, k, f, S)
    <2> HIDE DEF h
    <2> QED
      BY <1>8, <1>9 DEF SumsUpTo
  <1> QED
    BY <1>10

\* It has one on all subsets of a finite set.
LEMMA SumsExist ==
  ASSUME NEW S, IsFiniteSet(S), NEW f, \A x \in S : f[x] \in Int
  PROVE  \E it : Sums(it, f, S) /\ it \in [SUBSET S -> Int]
  <1>1. Cardinality(S) \in Nat
    BY FS_CardinalityType
  <1>2. PICK g : SumsUpTo(g, Cardinality(S), f, S)
    BY <1>1, SumsUpToExist
  <1>3. Small(Cardinality(S), S) = SUBSET S
    BY FS_Subset DEF Small
  <1>4. g \in [SUBSET S -> Int]
        /\ \A s \in SUBSET S : g[s] = IF s = {} THEN 0 ELSE f[Some(s)] + g[s \ {Some(s)}]
    BY <1>2, <1>3 DEF SumsUpTo
  <1>5. Sums(g, f, S)
    BY <1>4 DEF Sums
  <1> QED
    BY <1>4, <1>5

\* Solutions agree where the summands do.
LEMMA SumsAgree ==
  ASSUME NEW S, NEW T, NEW f, NEW g, NEW it, NEW jt, Sums(it, f, S), Sums(jt, g, T),
         NEW U, IsFiniteSet(U), U \subseteq S, U \subseteq T, \A x \in U : f[x] = g[x]
  PROVE  it[U] = jt[U]
  <1> DEFINE Good == {V \in SUBSET U : it[V] = jt[V]}
  <1>1. ASSUME NEW V \in SUBSET U, \A W \in SUBSET V : W # V => W \in Good
        PROVE  V \in Good
    <2>1. /\ it[V] = IF V = {} THEN 0 ELSE f[Some(V)] + it[V \ {Some(V)}]
          /\ jt[V] = IF V = {} THEN 0 ELSE g[Some(V)] + jt[V \ {Some(V)}]
      <3>1. V \in SUBSET S /\ V \in SUBSET T
        OBVIOUS
      <3> QED
        BY <3>1, Zenon DEF Sums
    <2>2. CASE V = {}
      BY <2>1, <2>2
    <2>3. CASE V # {}
      <3>1. Some(V) \in V
        BY <2>3 DEF Some
      <3>2. V \ {Some(V)} \in Good
        BY <1>1, <3>1
      <3> QED
        BY <2>1, <2>3, <3>1, <3>2
    <2> QED
      BY <2>2, <2>3
  <1>2. U \in Good
    <2> HIDE DEF Good
    <2> QED
      BY <1>1, SubsetInduction
  <1> QED
    BY <1>2

\* The solution that the sum stands for.
Solution(f, S) == CHOOSE it : Sums(it, f, S)

\* It gives the sum over every subset, which is a number.
LEMMA SumIsSolution ==
  ASSUME NEW S, IsFiniteSet(S), NEW f, \A x \in S : f[x] \in Int
  PROVE  /\ Sums(Solution(f, S), f, S)
         /\ \A T \in SUBSET S : /\ SumFunctionOnSet(f, T) = Solution(f, S)[T]
                                /\ SumFunctionOnSet(f, T) \in Int
  <1>1. PICK it : Sums(it, f, S) /\ it \in [SUBSET S -> Int]
    BY SumsExist
  <1>2. Sums(Solution(f, S), f, S)
    BY <1>1, Zenon DEF Solution
  <1>3. ASSUME NEW T \in SUBSET S
        PROVE  SumFunctionOnSet(f, T) = Solution(f, S)[T] /\ SumFunctionOnSet(f, T) \in Int
    <2>1. IsFiniteSet(T) /\ \A x \in T : f[x] \in Int
      BY FS_Subset
    <2>2. PICK kt : Sums(kt, f, T)
      BY <2>1, SumsExist
    <2>3. Sums(Solution(f, T), f, T)
      BY <2>2, Zenon DEF Solution
    <2>4. SumFunctionOnSet(f, T) = Solution(f, T)[T]
      BY SumUnfold DEF Solution
    <2>5. Solution(f, T)[T] = it[T] /\ Solution(f, S)[T] = it[T]
      BY <1>1, <1>2, <2>1, <2>3, SumsAgree
    <2> QED
      BY <1>1, <2>4, <2>5
  <1> QED
    BY <1>2, <1>3

\* The empty sum.
LEMMA SumEmpty ==
  ASSUME NEW f
  PROVE  SumFunctionOnSet(f, {}) = 0
  <1>1. IsFiniteSet({}) /\ \A x \in {} : f[x] \in Int
    BY FS_EmptySet
  <1>2. Sums(Solution(f, {}), f, {}) /\ SumFunctionOnSet(f, {}) = Solution(f, {})[{}]
    BY <1>1, SumIsSolution
  <1> QED
    BY <1>2, Zenon DEF Sums

\* A sum of integers is one.
LEMMA SumType ==
  ASSUME NEW S, IsFiniteSet(S), NEW f, \A x \in S : f[x] \in Int
  PROVE  SumFunctionOnSet(f, S) \in Int
  BY SumIsSolution

\* The element that the fold takes out first.
LEMMA SumSome ==
  ASSUME NEW S, IsFiniteSet(S), NEW f, \A x \in S : f[x] \in Int, S # {}
  PROVE  SumFunctionOnSet(f, S) = f[Some(S)] + SumFunctionOnSet(f, S \ {Some(S)})
  <1>1. PICK it : it = Solution(f, S)
    OBVIOUS
  <1>2. it[S] = IF S = {} THEN 0 ELSE f[Some(S)] + it[S \ {Some(S)}]
    <2>1. Sums(it, f, S)
      BY <1>1, SumIsSolution
    <2> QED
      BY <2>1, Zenon DEF Sums
  <1> QED
    BY <1>1, <1>2, SumIsSolution

\* Sums of equal summands are equal.
LEMMA SumEqual ==
  ASSUME NEW S, IsFiniteSet(S), NEW f, NEW g, \A x \in S : f[x] \in Int /\ f[x] = g[x]
  PROVE  SumFunctionOnSet(f, S) = SumFunctionOnSet(g, S)
  <1>1. Sums(Solution(f, S), f, S) /\ SumFunctionOnSet(f, S) = Solution(f, S)[S]
    BY SumIsSolution
  <1>2. Sums(Solution(g, S), g, S) /\ SumFunctionOnSet(g, S) = Solution(g, S)[S]
    BY SumIsSolution
  <1> QED
    BY <1>1, <1>2, SumsAgree

\* Any element can be taken out first.
LEMMA SumRemove ==
  ASSUME NEW S, IsFiniteSet(S), NEW f, \A x \in S : f[x] \in Int, NEW y \in S
  PROVE  SumFunctionOnSet(f, S) = f[y] + SumFunctionOnSet(f, S \ {y})
  <1> DEFINE Sum(T) == SumFunctionOnSet(f, T)
             Good == {T \in SUBSET S : \A x \in T : Sum(T) = f[x] + Sum(T \ {x})}
  <1>1. ASSUME NEW T \in SUBSET S, \A U \in SUBSET T : U # T => U \in Good
        PROVE  T \in Good
    <2> SUFFICES ASSUME NEW x \in T PROVE Sum(T) = f[x] + Sum(T \ {x})
      OBVIOUS
    <2> DEFINE c == Some(T)
    <2>1. IsFiniteSet(T) /\ \A z \in T : f[z] \in Int
      BY FS_Subset
    <2>2. c \in T /\ Sum(T) = f[c] + Sum(T \ {c})
      BY <2>1, SumSome DEF Some
    <2>3. CASE x = c
      BY <2>2, <2>3
    <2>4. CASE x # c
      <3>1. T \ {c} \in Good /\ T \ {x} \in Good /\ x \in T \ {c} /\ c \in T \ {x}
        BY <1>1, <2>2, <2>4
      <3>2. Sum(T \ {c}) = f[x] + Sum((T \ {c}) \ {x})
        BY <3>1
      <3>3. Sum(T \ {x}) = f[c] + Sum((T \ {x}) \ {c})
        BY <3>1
      <3>4. (T \ {c}) \ {x} = (T \ {x}) \ {c} /\ IsFiniteSet((T \ {x}) \ {c})
        BY <2>1, FS_RemoveElement
      <3>5. Sum((T \ {x}) \ {c}) \in Int
        BY <2>1, <3>4, SumType
      <3>6. f[x] \in Int /\ f[c] \in Int
        BY <2>1, <2>2
      <3>7. PICK m, a, b : m = Sum((T \ {x}) \ {c}) /\ a = f[x] /\ b = f[c]
        OBVIOUS
      <3>8. Sum(T) = b + (a + m) /\ Sum(T \ {x}) = b + m /\ a \in Int /\ b \in Int /\ m \in Int
        BY <2>2, <3>2, <3>3, <3>4, <3>5, <3>6, <3>7
      <3> QED
        BY <3>7, <3>8
    <2> QED
      BY <2>3, <2>4
  <1>2. S \in Good
    <2> HIDE DEF Good
    <2> QED
      BY <1>1, SubsetInduction
  <1> QED
    BY <1>2

\* The sum over two disjoint sets.
LEMMA SumUnion ==
  ASSUME NEW A, NEW S, IsFiniteSet(A), IsFiniteSet(S), A \cap S = {},
         NEW f, \A x \in A \cup S : f[x] \in Int
  PROVE  SumFunctionOnSet(f, A \cup S) = SumFunctionOnSet(f, A) + SumFunctionOnSet(f, S)
  <1> DEFINE Sum(T) == SumFunctionOnSet(f, T)
             Good == {T \in SUBSET S : Sum(A \cup T) = Sum(A) + Sum(T)}
  <1>0. Sum(A) \in Int
    BY SumType
  <1>1. ASSUME NEW T \in SUBSET S, \A U \in SUBSET T : U # T => U \in Good
        PROVE  T \in Good
    <2>1. CASE T = {}
      <3>1. A \cup T = A /\ Sum(T) = 0
        BY <2>1, SumEmpty
      <3>2. Sum(A \cup T) = Sum(A) + Sum(T)
        BY <1>0, <3>1
      <3> QED
        BY <3>2
    <2>2. ASSUME NEW x \in T PROVE T \in Good
      <3>1. IsFiniteSet(T) /\ IsFiniteSet(A \cup T) /\ IsFiniteSet(T \ {x})
        BY FS_Subset, FS_Union, FS_RemoveElement
      <3>2. Sum(T) = f[x] + Sum(T \ {x})
        BY <3>1, SumRemove
      <3>3. Sum(A \cup T) = f[x] + Sum((A \cup T) \ {x})
        BY <3>1, SumRemove
      <3>4. (A \cup T) \ {x} = A \cup (T \ {x}) /\ T \ {x} \in Good
        BY <1>1
      <3>5. Sum(T \ {x}) \in Int /\ f[x] \in Int
        BY <3>1, SumType
      <3>6. Sum(A \cup (T \ {x})) = Sum(A) + Sum(T \ {x})
        BY <3>4
      <3>7. Sum(A \cup T) = Sum(A) + Sum(T)
        <4>1. PICK a, b, y : a = Sum(A) /\ b = Sum(T \ {x}) /\ y = f[x]
          OBVIOUS
        <4>2. /\ a \in Int /\ b \in Int /\ y \in Int
              /\ Sum(A \cup T) = y + (a + b) /\ Sum(T) = y + b
          BY <1>0, <3>2, <3>3, <3>4, <3>5, <3>6, <4>1
        <4> QED
          BY <4>1, <4>2
      <3> QED
        BY <3>7
    <2> QED
      BY <2>1, <2>2
  <1>2. S \in Good
    <2> HIDE DEF Good
    <2> QED
      BY <1>1, SubsetInduction
  <1> QED
    BY <1>2

\* The sum of pointwise sums.
LEMMA SumPlus ==
  ASSUME NEW S, IsFiniteSet(S), NEW f, NEW g, NEW h,
         \A x \in S : f[x] \in Int /\ g[x] \in Int /\ h[x] = f[x] + g[x]
  PROVE  SumFunctionOnSet(h, S) = SumFunctionOnSet(f, S) + SumFunctionOnSet(g, S)
  <1> DEFINE Good == {T \in SUBSET S : SumFunctionOnSet(h, T)
                                         = SumFunctionOnSet(f, T) + SumFunctionOnSet(g, T)}
  <1>1. ASSUME NEW T \in SUBSET S, \A U \in SUBSET T : U # T => U \in Good
        PROVE  T \in Good
    <2>1. CASE T = {}
      BY <2>1, SumEmpty
    <2>2. ASSUME NEW x \in T PROVE T \in Good
      <3> DEFINE U == T \ {x}
      <3>1. /\ IsFiniteSet(T) /\ IsFiniteSet(U) /\ U \in Good
            /\ \A z \in T : f[z] \in Int /\ g[z] \in Int /\ h[z] \in Int
        BY <1>1, FS_Subset
      <3>2. SumFunctionOnSet(f, T) = f[x] + SumFunctionOnSet(f, U)
        BY <3>1, SumRemove
      <3>3. SumFunctionOnSet(g, T) = g[x] + SumFunctionOnSet(g, U)
        BY <3>1, SumRemove
      <3>4. SumFunctionOnSet(h, T) = h[x] + SumFunctionOnSet(h, U)
        BY <3>1, SumRemove
      <3>5. /\ SumFunctionOnSet(f, U) \in Int /\ SumFunctionOnSet(g, U) \in Int
            /\ f[x] \in Int /\ g[x] \in Int /\ h[x] = f[x] + g[x]
        BY <3>1, SumType
      <3>6. SumFunctionOnSet(h, U) = SumFunctionOnSet(f, U) + SumFunctionOnSet(g, U)
        BY <3>1
      <3> HIDE DEF U
      <3> QED
        BY <3>2, <3>3, <3>4, <3>5, <3>6
    <2> QED
      BY <2>1, <2>2
  <1>2. S \in Good
    <2> HIDE DEF Good
    <2> QED
      BY <1>1, SubsetInduction
  <1> QED
    BY <1>2

\* The elements of E of a class, and those of the classes in S.
ClassOf(E, class, x) == {i \in E : class[i] = x}
ClassesIn(E, class, S) == {i \in E : class[i] \in S}

\* Sums over the classes of a finite set add up to the sum over what they cover.
LEMMA SumClasses ==
  ASSUME NEW S, IsFiniteSet(S), NEW E, IsFiniteSet(E), NEW f, \A i \in E : f[i] \in Int,
         NEW class, NEW g, \A x \in S : g[x] = SumFunctionOnSet(f, ClassOf(E, class, x))
  PROVE  SumFunctionOnSet(g, S) = SumFunctionOnSet(f, ClassesIn(E, class, S))
  <1> DEFINE In(T) == {i \in E : class[i] \in T}
             Of(x) == {i \in E : class[i] = x}
             Good == {T \in SUBSET S : SumFunctionOnSet(g, T) = SumFunctionOnSet(f, In(T))}
  <1>0. \A x \in S : g[x] \in Int
    BY SumType, FS_Subset DEF ClassOf
  <1>1. ASSUME NEW T \in SUBSET S, \A U \in SUBSET T : U # T => U \in Good
        PROVE  T \in Good
    <2>1. CASE T = {}
      <3>1. In(T) = {}
        BY <2>1
      <3> HIDE DEF In
      <3> QED
        BY <2>1, <3>1, SumEmpty
    <2>2. ASSUME NEW x \in T PROVE T \in Good
      <3> DEFINE U == T \ {x}
      <3>1. IsFiniteSet(T) /\ U \in Good /\ IsFiniteSet(In(U)) /\ IsFiniteSet(Of(x))
        BY <1>1, FS_Subset
      <3>2. SumFunctionOnSet(g, T) = g[x] + SumFunctionOnSet(g, U)
        BY <1>0, <3>1, SumRemove
      <3>3. /\ In(T) = In(U) \cup Of(x) /\ In(U) \cap Of(x) = {}
            /\ \A i \in In(U) \cup Of(x) : f[i] \in Int
        OBVIOUS
      <3>4. SumFunctionOnSet(f, In(T)) = SumFunctionOnSet(f, In(U)) + SumFunctionOnSet(f, Of(x))
        <4>1. PICK A, B : A = In(U) /\ B = Of(x)
          OBVIOUS
        <4>2. /\ IsFiniteSet(A) /\ IsFiniteSet(B) /\ A \cap B = {} /\ In(T) = A \cup B
              /\ \A i \in A \cup B : f[i] \in Int
          BY <3>1, <3>3, <4>1
        <4>3. SumFunctionOnSet(f, A \cup B) = SumFunctionOnSet(f, A) + SumFunctionOnSet(f, B)
          BY <4>2, SumUnion
        <4> QED
          BY <4>1, <4>2, <4>3
      <3>5. SumFunctionOnSet(f, In(U)) \in Int /\ g[x] \in Int
        <4>1. \A i \in In(U) : f[i] \in Int
          OBVIOUS
        <4> HIDE DEF In
        <4> QED
          BY <1>0, <3>1, <4>1, SumType
      <3>6. g[x] = SumFunctionOnSet(f, Of(x))
        BY DEF ClassOf
      <3>7. SumFunctionOnSet(g, U) = SumFunctionOnSet(f, In(U))
        BY <3>1
      <3> HIDE DEF U, In, Of
      <3>8. SumFunctionOnSet(g, T) = SumFunctionOnSet(f, In(T))
        BY <3>2, <3>4, <3>5, <3>6, <3>7
      <3> QED
        BY <3>8
    <2> QED
      BY <2>1, <2>2
  <1>2. S \in Good
    <2> HIDE DEF Good
    <2> QED
      BY <1>1, SubsetInduction
  <1> QED
    BY <1>2 DEF ClassesIn

-----------------------------------------------------------------------------
(* Orderings *)

\* R orders the elements of S strictly and totally.
TotalOrder(R, S) ==
  /\ \A x \in S : <<x, x>> \notin R
  /\ \A x, y, z \in S : <<x, y>> \in R /\ <<y, z>> \in R => <<x, z>> \in R
  /\ \A x, y \in S : x = y \/ <<x, y>> \in R \/ <<y, x>> \in R

\* Ranks are numbers below the size of the set, and tell its elements apart.
LEMMA Ranks ==
  ASSUME NEW S, IsFiniteSet(S), NEW R, TotalOrder(R, S)
  PROVE  /\ Cardinality(S) \in Nat
         /\ \A x \in S : Rank(x, S, R) \in 0..(Cardinality(S) - 1)
         /\ \A x, y \in S : <<x, y>> \in R => Rank(x, S, R) < Rank(y, S, R)
  <1> DEFINE Before(x) == {z \in S : <<z, x>> \in R}
  <1>1. Cardinality(S) \in Nat
    BY FS_CardinalityType
  <1>2. \A x \in S : IsFiniteSet(Before(x)) /\ Cardinality(Before(x)) \in Nat
    BY FS_Subset, FS_CardinalityType
  <1>3. ASSUME NEW x \in S PROVE Cardinality(Before(x)) < Cardinality(S)
    <2>1. Before(x) \in SUBSET S /\ x \notin Before(x)
      BY DEF TotalOrder
    <2>2. Cardinality(Before(x)) <= Cardinality(S) /\ Cardinality(Before(x)) # Cardinality(S)
      <3>1. PICK B : B = Before(x)
        OBVIOUS
      <3> QED
        BY <2>1, <3>1, FS_Subset
    <2> QED
      BY <1>1, <1>2, <2>2
  <1>4. ASSUME NEW x \in S, NEW y \in S, <<x, y>> \in R
        PROVE  Cardinality(Before(x)) < Cardinality(Before(y))
    <2>1. /\ Before(x) \in SUBSET Before(y)
          /\ x \in Before(y) /\ x \notin Before(x)
      BY <1>4 DEF TotalOrder
    <2>2. Cardinality(Before(x)) <= Cardinality(Before(y)) /\ Cardinality(Before(x)) # Cardinality(Before(y))
      <3>1. PICK B, C : B = Before(x) /\ C = Before(y)
        OBVIOUS
      <3>2. IsFiniteSet(C)
        BY <1>2, <3>1
      <3> QED
        BY <2>1, <3>1, <3>2, FS_Subset
    <2> QED
      BY <1>2, <2>2
  <1>5. \A x \in S : Rank(x, S, R) = Cardinality(Before(x))
    BY DEF Rank
  <1> HIDE DEF Before
  <1> QED
    BY <1>1, <1>2, <1>3, <1>4, <1>5

\* InOrder lists every element once, in order.
LEMMA InOrderLists ==
  ASSUME NEW S, IsFiniteSet(S), NEW R, TotalOrder(R, S)
  PROVE  /\ Cardinality(S) \in Nat
         /\ InOrder(S, R) \in [1..Cardinality(S) -> S]
         /\ \A x \in S : \E i \in 1..Cardinality(S) : InOrder(S, R)[i] = x
         /\ \A i, j \in 1..Cardinality(S) : i < j => <<InOrder(S, R)[i], InOrder(S, R)[j]>> \in R
  <1> DEFINE n == Cardinality(S)
             rank == [x \in S |-> Rank(x, S, R)]
             e == InOrder(S, R)
  <1>1. /\ n \in Nat
        /\ \A x \in S : Rank(x, S, R) \in 0..(n - 1)
        /\ \A x, y \in S : <<x, y>> \in R => Rank(x, S, R) < Rank(y, S, R)
    BY Ranks
  <1>2. \A x, y \in S : Rank(x, S, R) = Rank(y, S, R) => x = y
    <2> SUFFICES ASSUME NEW x \in S, NEW y \in S, Rank(x, S, R) = Rank(y, S, R) PROVE x = y
      OBVIOUS
    <2>1. x = y \/ <<x, y>> \in R \/ <<y, x>> \in R
      BY Zenon DEF TotalOrder
    <2>2. Rank(x, S, R) \in Int
      BY <1>1
    <2> QED
      BY <1>1, <2>1, <2>2
  <1>3. rank \in Injection(S, 0..(n - 1))
    <2>1. rank \in [S -> 0..(n - 1)]
      BY <1>1
    <2> HIDE DEF n
    <2> QED
      BY <1>2, <2>1 DEF Injection, IsInjective
  <1>4. IsFiniteSet(0..(n - 1)) /\ Cardinality(0..(n - 1)) = n
    <2>1. n \in Nat
      BY <1>1
    <2> HIDE DEF n
    <2> QED
      BY <2>1, FS_Interval
  <1>5. rank \in Surjection(S, 0..(n - 1))
    BY <1>3, <1>4, FS_Injection
  <1>6. \A k \in 0..(n - 1) : \E x \in S : Rank(x, S, R) = k
    BY <1>5 DEF Surjection
  <1>7. \A i \in 1..n : e[i] \in S /\ Rank(e[i], S, R) = i - 1
    <2> TAKE i \in 1..n
    <2>1. i - 1 \in 0..(n - 1)
      BY <1>1
    <2>2. PICK x \in S : Rank(x, S, R) = i - 1
      BY <1>6, <2>1
    <2>3. e[i] = CHOOSE y \in S : Rank(y, S, R) = i - 1
      BY DEF InOrder
    <2> QED
      BY <2>2, <2>3
  <1>8. e \in [1..n -> S]
    BY <1>7 DEF InOrder
  <1>9. ASSUME NEW x \in S PROVE \E i \in 1..n : e[i] = x
    <2>1. Rank(x, S, R) + 1 \in 1..n /\ (Rank(x, S, R) + 1) - 1 = Rank(x, S, R)
      BY <1>1
    <2> QED
      BY <1>2, <1>7, <2>1
  <1>10. ASSUME NEW i \in 1..n, NEW j \in 1..n, i < j PROVE <<e[i], e[j]>> \in R
    <2>1. e[i] \in S /\ e[j] \in S /\ Rank(e[i], S, R) = i - 1 /\ Rank(e[j], S, R) = j - 1
      BY <1>7
    <2> HIDE DEF e
    <2>2. e[i] = e[j] \/ <<e[i], e[j]>> \in R \/ <<e[j], e[i]>> \in R
      BY <2>1, Zenon DEF TotalOrder
    <2>3. <<e[j], e[i]>> \in R => j - 1 < i - 1
      BY <1>1, <2>1
    <2>4. e[i] = e[j] => i - 1 = j - 1
      BY <2>1
    <2>5. i \in Int /\ j \in Int
      OBVIOUS
    <2> QED
      BY <1>10, <2>2, <2>3, <2>4, <2>5
  <1> QED
    BY <1>1, <1>8, <1>9, <1>10

-----------------------------------------------------------------------------
(* Sequences of anything *)

\* What appending to a sequence does.
LEMMA AppendFacts ==
  ASSUME NEW s, s \in Seq(Range(s)), NEW x
  PROVE  /\ Len(s) \in Nat /\ DOMAIN s = 1..Len(s)
         /\ DOMAIN Append(s, x) = 1..(Len(s) + 1) /\ Len(Append(s, x)) = Len(s) + 1
         /\ Append(s, x)[Len(s) + 1] = x
         /\ \A i \in DOMAIN s : Append(s, x)[i] = s[i]
         /\ Append(s, x) \in Seq(Range(Append(s, x)))
  <1> DEFINE T == Range(s) \cup {x}
  <1>1. s \in Seq(T) /\ x \in T
    OBVIOUS
  <1> HIDE DEF T
  <1>2. /\ Len(s) \in Nat /\ DOMAIN s = 1..Len(s)
        /\ DOMAIN Append(s, x) = 1..(Len(s) + 1) /\ Len(Append(s, x)) = Len(s) + 1
        /\ Append(s, x)[Len(s) + 1] = x
        /\ \A i \in DOMAIN s : Append(s, x)[i] = s[i]
        /\ Append(s, x) \in Seq(T)
    BY <1>1
  <1>3. Append(s, x) \in Seq(Range(Append(s, x)))
    <2>1. PICK y : y = Append(s, x)
      OBVIOUS
    <2>2. Len(y) \in Nat /\ y \in [1..Len(y) -> T] /\ DOMAIN y = 1..Len(y)
      BY <1>2, <2>1, LenProperties
    <2>3. y \in [1..Len(y) -> Range(y)]
      BY <2>2 DEF Range
    <2>4. y \in Seq(Range(y))
      BY <2>2, <2>3, SeqDef
    <2> QED
      BY <2>1, <2>4
  <1> QED
    BY <1>2, <1>3

\* A sequence says what was appended to which sequence.
LEMMA AppendInjects ==
  ASSUME NEW s, s \in Seq(Range(s)), NEW t, t \in Seq(Range(t)), NEW x, NEW y,
         Append(s, x) = Append(t, y)
  PROVE  s = t /\ x = y
  <1> DEFINE T == Range(s) \cup Range(t) \cup {x, y}
  <1>1. s \in Seq(T) /\ t \in Seq(T) /\ x \in T /\ y \in T
    OBVIOUS
  <1> HIDE DEF T
  <1> QED
    BY <1>1, AppendInjective
=============================================================================
