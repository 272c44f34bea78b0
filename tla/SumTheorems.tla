---------------------------- MODULE SumTheorems ----------------------------
(* Facts about SumFunctionOnSet, the sum of a function over a finite set,   *)
(* which the budget's totals and the publications' counts are written with. *)
(* The library's induction theorems take a predicate as a parameter; these  *)
(* proofs use instead that the finite subsets of a set are well founded     *)
(* (WFMin): a smallest set without the property cannot exist.               *)
(* And one fact about the first rows of an ordered query, of which the      *)
(* dispatch of jobs and the batches of a delivery are made.                 *)
EXTENDS Integers, FiniteSets, Functions, FiniteSetTheorems, TLAPS

Chosen(s) == CHOOSE x \in s : TRUE

\* The recursive function that a fold of w over S evaluates.
IsFold(g, w, S) ==
    g = [s \in SUBSET S |-> IF s = {} THEN 0
                            ELSE w[Chosen(s)] + g[s \ {Chosen(s)}]]

\* The library's definition of the sum, unfolded to the fold it is.
LEMMA SumIsFold ==
    ASSUME NEW w, NEW S
    PROVE  SumFunctionOnSet(w, S) = (CHOOSE g : IsFold(g, w, S))[S]
  BY Zenon DEF SumFunctionOnSet, FoldFunctionOnSet, MapThenFoldSet, IsFold, Chosen

\* A family of subsets of a finite set has a smallest member.
LEMMA SmallestSubset ==
    ASSUME NEW S, IsFiniteSet(S), NEW F \in SUBSET (SUBSET S), F # {}
    PROVE  \E T \in F : \A U \in SUBSET T : U # T => U \notin F
<1>1. IsWellFoundedOn(StrictSubsetOrdering(S), SUBSET S)
  BY FS_StrictSubsetOrderingWellFounded, FS_FiniteSubsetsOfFinite
<1>2. PICK T \in F : \A U \in F : <<U, T>> \notin StrictSubsetOrdering(S)
  BY <1>1, WFMin
<1>3. QED
  BY <1>2 DEF StrictSubsetOrdering

\* The value of a fold on a subset.
LEMMA FoldValue ==
    ASSUME NEW w, NEW S, NEW g, IsFold(g, w, S), NEW U \in SUBSET S
    PROVE  /\ U = {} => g[U] = 0
           /\ U # {} => /\ Chosen(U) \in U
                        /\ g[U] = w[Chosen(U)] + g[U \ {Chosen(U)}]
<1>1. g[U] = IF U = {} THEN 0 ELSE w[Chosen(U)] + g[U \ {Chosen(U)}]
  BY DEF IsFold
<1>2. U # {} => Chosen(U) \in U
  BY DEF Chosen
<1>3. QED
  BY <1>1, <1>2

\* The folds of a function over two sets agree on the subsets of both.
LEMMA FoldsAgree ==
    ASSUME NEW w, NEW S, NEW T, IsFiniteSet(S), NEW g, IsFold(g, w, S),
           NEW h, IsFold(h, w, T), NEW V \in SUBSET S, V \in SUBSET T
    PROVE  g[V] = h[V]
<1> DEFINE Bad == {U \in SUBSET (S \cap T) : g[U] # h[U]}
<1>1. SUFFICES ASSUME Bad # {} PROVE FALSE
  OBVIOUS
<1>2. IsFiniteSet(S \cap T)
  BY FS_Intersection
<1>3. PICK U \in Bad : \A R \in SUBSET U : R # U => R \notin Bad
  <2>1. Bad \in SUBSET (SUBSET (S \cap T))
    OBVIOUS
  <2>2. QED
    <3> HIDE DEF Bad
    <3>1. QED
      BY <1>1, <1>2, <2>1, SmallestSubset
<1>4. U \in SUBSET S /\ U \in SUBSET T /\ g[U] # h[U]
  BY <1>3
<1>5. U # {} /\ Chosen(U) \in U
  BY <1>4, FoldValue
<1>6. U \ {Chosen(U)} \notin Bad /\ U \ {Chosen(U)} \in SUBSET (S \cap T)
  BY <1>3, <1>4, <1>5
<1>7. g[U \ {Chosen(U)}] = h[U \ {Chosen(U)}]
  BY <1>6
<1>8. QED
  BY <1>4, <1>5, <1>7, FoldValue

\* The fold exists: the definition by recursion over subsets is sound.
LEMMA FoldExists ==
    ASSUME NEW w, NEW S, IsFiniteSet(S)
    PROVE  \E g : IsFold(g, w, S)
<1> DEFINE Bad == {U \in SUBSET S : ~ \E g : IsFold(g, w, U)}
<1>1. SUFFICES ASSUME Bad # {} PROVE FALSE
  OBVIOUS
<1>2. PICK T \in Bad : \A R \in SUBSET T : R # T => R \notin Bad
  <2>1. Bad \in SUBSET (SUBSET S)
    OBVIOUS
  <2>2. QED
    <3> HIDE DEF Bad
    <3>1. QED
      BY <1>1, <2>1, SmallestSubset
<1> DEFINE F(U) == CHOOSE g : IsFold(g, w, U)
           Rest(U) == U \ {Chosen(U)}
           h == [U \in SUBSET T |-> IF U = {} THEN 0
                                    ELSE w[Chosen(U)] + F(Rest(U))[Rest(U)]]
<1>3. ASSUME NEW U \in SUBSET T, U # T PROVE IsFold(F(U), w, U)
  <2>1. \E g : IsFold(g, w, U)
    BY <1>2, <1>3
  <2>2. QED
    BY <2>1
<1>4. ASSUME NEW U \in SUBSET T, U # {}
      PROVE  Chosen(U) \in U /\ Rest(U) \in SUBSET T /\ Rest(U) # T
  BY <1>4 DEF Chosen
<1>5. ASSUME NEW V \in SUBSET T, V # T PROVE h[V] = F(V)[V]
  <2>1. IsFold(F(V), w, V)
    BY <1>3, <1>5
  <2>2. CASE V = {}
    <3>1. F(V)[V] = 0
      <4> HIDE DEF F
      <4>1. QED
        BY <2>1, <2>2, FoldValue
    <3>2. h[V] = 0
      BY <2>2
    <3>3. QED
      BY <3>1, <3>2
  <2>3. CASE V # {}
    <3>1. /\ Chosen(V) \in V /\ Rest(V) \in SUBSET T /\ Rest(V) # T
          /\ Rest(V) \in SUBSET V
      BY <1>4, <2>3
    <3>2. IsFold(F(Rest(V)), w, Rest(V))
      BY <1>3, <3>1
    <3>3. IsFiniteSet(V)
      BY FS_Subset, <1>2
    <3>4. F(V)[Rest(V)] = F(Rest(V))[Rest(V)]
      <4> HIDE DEF F, Rest
      <4>1. Rest(V) \in SUBSET Rest(V)
        OBVIOUS
      <4>2. QED
        BY <2>1, <3>1, <3>2, <3>3, <4>1, FoldsAgree
    <3>5. F(V)[V] = w[Chosen(V)] + F(V)[Rest(V)]
      <4> HIDE DEF F
      <4>1. QED
        BY <2>1, <2>3, FoldValue
    <3>6. h[V] = w[Chosen(V)] + F(Rest(V))[Rest(V)]
      BY <2>3
    <3>7. QED
      BY <3>4, <3>5, <3>6
  <2>4. QED
    BY <2>2, <2>3
<1>6. IsFold(h, w, T)
  <2>1. ASSUME NEW U \in SUBSET T, U # {} PROVE h[Rest(U)] = F(Rest(U))[Rest(U)]
    <3> HIDE DEF F, h
    <3>1. QED
      BY <1>4, <1>5, <2>1
  <2>2. h = [U \in SUBSET T |-> IF U = {} THEN 0 ELSE w[Chosen(U)] + h[Rest(U)]]
    <3> HIDE DEF F
    <3>1. \A U \in SUBSET T :
             (IF U = {} THEN 0 ELSE w[Chosen(U)] + F(Rest(U))[Rest(U)])
                = (IF U = {} THEN 0 ELSE w[Chosen(U)] + h[Rest(U)])
      BY <2>1
    <3>2. QED
      BY <3>1
  <2>3. QED
    BY <2>2 DEF IsFold
<1>7. QED
  BY <1>2, <1>6
-----------------------------------------------------------------------------
(* The sum itself.                                                          *)

\* The sum, one chosen summand at a time.
LEMMA SumIs ==
    ASSUME NEW w, NEW S, IsFiniteSet(S)
    PROVE  /\ S = {} => SumFunctionOnSet(w, S) = 0
           /\ S # {} => /\ Chosen(S) \in S
                        /\ SumFunctionOnSet(w, S)
                              = w[Chosen(S)] + SumFunctionOnSet(w, S \ {Chosen(S)})
<1> DEFINE F(U) == CHOOSE g : IsFold(g, w, U)
           R == S \ {Chosen(S)}
<1>1. IsFold(F(S), w, S)
  BY FoldExists
<1>2. IsFold(F(R), w, R)
  <2>1. IsFiniteSet(R)
    BY FS_Subset
  <2>2. QED
    BY <2>1, FoldExists
<1>3. SumFunctionOnSet(w, S) = F(S)[S] /\ SumFunctionOnSet(w, R) = F(R)[R]
  BY SumIsFold
<1> HIDE DEF F
<1>4. F(S)[R] = F(R)[R]
  <2> HIDE DEF R
  <2>1. R \in SUBSET S /\ R \in SUBSET R
    BY DEF R
  <2>2. QED
    BY <1>1, <1>2, <2>1, FoldsAgree
<1>5. QED
  BY <1>1, <1>3, <1>4, FoldValue

\* Nothing sums up to zero: no spend, no reservation (budgets.py _evaluate_locked).
LEMMA SumOfNone == ASSUME NEW w PROVE SumFunctionOnSet(w, {}) = 0
  BY SumIs, FS_EmptySet

\* A smallest subset of a finite set for which something fails.
LEMMA SmallestFailure ==
    ASSUME NEW S, IsFiniteSet(S), NEW F \in SUBSET (SUBSET S), F # {}
    PROVE  \E T \in F : /\ IsFiniteSet(T) /\ T \in SUBSET S
                        /\ \A x \in T : T \ {x} \notin F /\ T \ {x} \in SUBSET S
<1>1. PICK T \in F : \A U \in SUBSET T : U # T => U \notin F
  BY SmallestSubset
<1>2. QED
  BY <1>1, FS_Subset

\* A sum of natural numbers is one: totals of micro-dollars are never negative.
LEMMA SumInNat ==
    ASSUME NEW w, NEW S, IsFiniteSet(S), \A x \in S : w[x] \in Nat
    PROVE  SumFunctionOnSet(w, S) \in Nat
<1> DEFINE Bad == {T \in SUBSET S : SumFunctionOnSet(w, T) \notin Nat}
<1>1. SUFFICES ASSUME Bad # {} PROVE FALSE
  OBVIOUS
<1>2. PICK T \in Bad : /\ IsFiniteSet(T) /\ T \in SUBSET S
                       /\ \A x \in T : T \ {x} \notin Bad /\ T \ {x} \in SUBSET S
  <2>1. Bad \in SUBSET (SUBSET S)
    OBVIOUS
  <2>2. QED
    <3> HIDE DEF Bad
    <3>1. QED
      BY <1>1, <2>1, SmallestFailure
<1>3. T # {}
  BY <1>2, SumOfNone
<1>4. Chosen(T) \in T /\ SumFunctionOnSet(w, T)
                          = w[Chosen(T)] + SumFunctionOnSet(w, T \ {Chosen(T)})
  BY <1>2, <1>3, SumIs
<1>5. QED
  BY <1>2, <1>4

\* Only the summands count: an operation that changes none leaves the total alone.
LEMMA SumSame ==
    ASSUME NEW v, NEW w, NEW S, IsFiniteSet(S), \A x \in S : v[x] = w[x]
    PROVE  SumFunctionOnSet(v, S) = SumFunctionOnSet(w, S)
<1> DEFINE Bad == {T \in SUBSET S : SumFunctionOnSet(v, T) # SumFunctionOnSet(w, T)}
<1>1. SUFFICES ASSUME Bad # {} PROVE FALSE
  OBVIOUS
<1>2. PICK T \in Bad : /\ IsFiniteSet(T) /\ T \in SUBSET S
                       /\ \A x \in T : T \ {x} \notin Bad /\ T \ {x} \in SUBSET S
  <2>1. Bad \in SUBSET (SUBSET S)
    OBVIOUS
  <2>2. QED
    <3> HIDE DEF Bad
    <3>1. QED
      BY <1>1, <2>1, SmallestFailure
<1>3. T # {}
  BY <1>2, SumOfNone
<1>4. /\ Chosen(T) \in T
      /\ SumFunctionOnSet(v, T) = v[Chosen(T)] + SumFunctionOnSet(v, T \ {Chosen(T)})
      /\ SumFunctionOnSet(w, T) = w[Chosen(T)] + SumFunctionOnSet(w, T \ {Chosen(T)})
  BY <1>2, <1>3, SumIs
<1>5. QED
  BY <1>2, <1>4

\* The order in which the summands are taken does not matter.
LEMMA SumWithout ==
    ASSUME NEW w, NEW S, IsFiniteSet(S), \A x \in S : w[x] \in Nat, NEW y \in S
    PROVE  SumFunctionOnSet(w, S) = w[y] + SumFunctionOnSet(w, S \ {y})
<1> DEFINE Bad == {T \in SUBSET S : \E x \in T :
                      SumFunctionOnSet(w, T) # w[x] + SumFunctionOnSet(w, T \ {x})}
<1>1. SUFFICES ASSUME Bad # {} PROVE FALSE
  OBVIOUS
<1>2. PICK T \in Bad : /\ IsFiniteSet(T) /\ T \in SUBSET S
                       /\ \A x \in T : T \ {x} \notin Bad /\ T \ {x} \in SUBSET S
  <2>1. Bad \in SUBSET (SUBSET S)
    OBVIOUS
  <2>2. QED
    <3> HIDE DEF Bad
    <3>1. QED
      BY <1>1, <2>1, SmallestFailure
<1>3. PICK x \in T : SumFunctionOnSet(w, T) # w[x] + SumFunctionOnSet(w, T \ {x})
  BY <1>2
<1> DEFINE c == Chosen(T)
<1>4. c \in T /\ SumFunctionOnSet(w, T) = w[c] + SumFunctionOnSet(w, T \ {c})
  BY <1>2, <1>3, SumIs
<1>5. c # x
  BY <1>3, <1>4
<1>6. /\ SumFunctionOnSet(w, T \ {c}) = w[x] + SumFunctionOnSet(w, (T \ {c}) \ {x})
      /\ SumFunctionOnSet(w, T \ {x}) = w[c] + SumFunctionOnSet(w, (T \ {x}) \ {c})
  BY <1>2, <1>4, <1>5
<1>7. (T \ {c}) \ {x} = (T \ {x}) \ {c}
  OBVIOUS
<1>8. SumFunctionOnSet(w, (T \ {x}) \ {c}) \in Nat
  <2>1. IsFiniteSet((T \ {x}) \ {c}) /\ \A z \in (T \ {x}) \ {c} : w[z] \in Nat
    BY <1>2, FS_Subset
  <2>2. QED
    BY <2>1, SumInNat
<1>9. w[x] \in Nat /\ w[c] \in Nat
  BY <1>2, <1>4
<1>10. QED
  BY <1>3, <1>4, <1>6, <1>7, <1>8, <1>9

\* With no summand larger the total is not: a released reservation or an ended
\* lease can only lower what is committed.
LEMMA SumOfLess ==
    ASSUME NEW v, NEW w, NEW S, IsFiniteSet(S),
           \A x \in S : v[x] \in Nat /\ w[x] \in Nat /\ v[x] <= w[x]
    PROVE  SumFunctionOnSet(v, S) <= SumFunctionOnSet(w, S)
<1> DEFINE Bad == {T \in SUBSET S :
                      ~(SumFunctionOnSet(v, T) <= SumFunctionOnSet(w, T))}
<1>1. SUFFICES ASSUME Bad # {} PROVE FALSE
  OBVIOUS
<1>2. PICK T \in Bad : /\ IsFiniteSet(T) /\ T \in SUBSET S
                       /\ \A x \in T : T \ {x} \notin Bad /\ T \ {x} \in SUBSET S
  <2>1. Bad \in SUBSET (SUBSET S)
    OBVIOUS
  <2>2. QED
    <3> HIDE DEF Bad
    <3>1. QED
      BY <1>1, <2>1, SmallestFailure
<1>3. T # {}
  BY <1>2, SumOfNone
<1>4. /\ Chosen(T) \in T
      /\ SumFunctionOnSet(v, T) = v[Chosen(T)] + SumFunctionOnSet(v, T \ {Chosen(T)})
      /\ SumFunctionOnSet(w, T) = w[Chosen(T)] + SumFunctionOnSet(w, T \ {Chosen(T)})
  BY <1>2, <1>3, SumIs
<1>5. /\ SumFunctionOnSet(v, T \ {Chosen(T)}) \in Nat
      /\ SumFunctionOnSet(w, T \ {Chosen(T)}) \in Nat
  <2>1. IsFiniteSet(T \ {Chosen(T)}) /\ \A z \in T \ {Chosen(T)} : v[z] \in Nat /\ w[z] \in Nat
    BY <1>2, FS_Subset
  <2>2. QED
    BY <2>1, SumInNat
<1>6. QED
  BY <1>2, <1>4, <1>5

\* Fewer summands sum up to no more: so do the entries of another day, or the
\* leases that are still live.
LEMMA SumOfFewer ==
    ASSUME NEW w, NEW S, IsFiniteSet(S), \A x \in S : w[x] \in Nat, NEW U \in SUBSET S
    PROVE  SumFunctionOnSet(w, U) <= SumFunctionOnSet(w, S)
<1> DEFINE Bad == {T \in SUBSET S : /\ U \subseteq T
                      /\ ~(SumFunctionOnSet(w, U) <= SumFunctionOnSet(w, T))}
<1>1. SUFFICES ASSUME Bad # {} PROVE FALSE
  OBVIOUS
<1>2. PICK T \in Bad : /\ IsFiniteSet(T) /\ T \in SUBSET S
                       /\ \A x \in T : T \ {x} \notin Bad /\ T \ {x} \in SUBSET S
  <2>1. Bad \in SUBSET (SUBSET S)
    OBVIOUS
  <2>2. QED
    <3> HIDE DEF Bad
    <3>1. QED
      BY <1>1, <2>1, SmallestFailure
<1>3. SumFunctionOnSet(w, U) \in Nat
  <2>1. IsFiniteSet(U) /\ \A z \in U : w[z] \in Nat
    BY FS_Subset
  <2>2. QED
    BY <2>1, SumInNat
<1>4. PICK x \in T : x \notin U
  BY <1>2, <1>3
<1>5. SumFunctionOnSet(w, U) <= SumFunctionOnSet(w, T \ {x})
  BY <1>2, <1>4
<1>6. SumFunctionOnSet(w, T \ {x}) \in Nat
  <2>1. IsFiniteSet(T \ {x}) /\ \A z \in T \ {x} : w[z] \in Nat
    BY <1>2, FS_Subset
  <2>2. QED
    BY <2>1, SumInNat
<1>7. SumFunctionOnSet(w, T) = w[x] + SumFunctionOnSet(w, T \ {x}) /\ w[x] \in Nat
  BY <1>2, SumWithout
<1>8. QED
  BY <1>2, <1>3, <1>5, <1>6, <1>7

\* One summand may be larger by one: the posts of a target exceed the words of
\* its operators by one at most.
LEMMA SumOfOneMore ==
    ASSUME NEW v, NEW w, NEW S, IsFiniteSet(S), NEW y \in S,
           \A x \in S : v[x] \in Nat /\ w[x] \in Nat /\ (x # y => v[x] <= w[x]),
           v[y] <= w[y] + 1
    PROVE  SumFunctionOnSet(v, S) <= 1 + SumFunctionOnSet(w, S)
<1>1. IsFiniteSet(S \ {y})
  BY FS_Subset
<1>2. SumFunctionOnSet(v, S \ {y}) <= SumFunctionOnSet(w, S \ {y})
  BY <1>1, SumOfLess
<1>3. /\ SumFunctionOnSet(v, S) = v[y] + SumFunctionOnSet(v, S \ {y})
      /\ SumFunctionOnSet(w, S) = w[y] + SumFunctionOnSet(w, S \ {y})
  BY SumWithout
<1>4. SumFunctionOnSet(v, S \ {y}) \in Nat /\ SumFunctionOnSet(w, S \ {y}) \in Nat
  BY <1>1, SumInNat
<1>5. v[y] \in Nat /\ w[y] \in Nat
  OBVIOUS
<1>6. QED
  BY <1>2, <1>3, <1>4, <1>5

\* Zeros sum up to zero: rows without a reservation commit nothing.
LEMMA SumOfZeros ==
    ASSUME NEW w, NEW S, IsFiniteSet(S), \A x \in S : w[x] = 0
    PROVE  SumFunctionOnSet(w, S) = 0
<1> DEFINE Bad == {T \in SUBSET S : SumFunctionOnSet(w, T) # 0}
<1>1. SUFFICES ASSUME Bad # {} PROVE FALSE
  OBVIOUS
<1>2. PICK T \in Bad : /\ IsFiniteSet(T) /\ T \in SUBSET S
                       /\ \A x \in T : T \ {x} \notin Bad /\ T \ {x} \in SUBSET S
  <2>1. Bad \in SUBSET (SUBSET S)
    OBVIOUS
  <2>2. QED
    <3> HIDE DEF Bad
    <3>1. QED
      BY <1>1, <2>1, SmallestFailure
<1>3. T # {}
  BY <1>2, SumOfNone
<1>4. Chosen(T) \in T /\ SumFunctionOnSet(w, T)
                          = w[Chosen(T)] + SumFunctionOnSet(w, T \ {Chosen(T)})
  BY <1>2, <1>3, SumIs
<1>5. QED
  BY <1>2, <1>4

-----------------------------------------------------------------------------
(* The first rows of an ordered query with LIMIT n are at most n.           *)
LEMMA AtMostTheLimit ==
    ASSUME NEW S \in SUBSET Nat, IsFiniteSet(S), NEW n \in Nat
    PROVE  LET first == {j \in S : Cardinality({k \in S : k < j}) < n}
           IN  IsFiniteSet(first) /\ Cardinality(first) <= n
<1> DEFINE before(j) == {k \in S : k < j}
           first == {j \in S : Cardinality(before(j)) < n}
           rank == [j \in first |-> Cardinality(before(j))]
<1>1. \A j \in S : IsFiniteSet(before(j)) /\ Cardinality(before(j)) \in Nat
  BY FS_Subset, FS_CardinalityType
<1>2. ASSUME NEW i \in S, NEW j \in S, i < j
      PROVE  Cardinality(before(i)) # Cardinality(before(j))
  <2>1. before(i) \in SUBSET before(j) /\ i \in before(j) /\ i \notin before(i)
    <3>1. i \in Nat /\ j \in Nat
      OBVIOUS
    <3>2. ASSUME NEW k \in S, k < i PROVE k < j
      <4>1. k \in Nat
        OBVIOUS
      <4>2. QED
        BY <1>2, <3>1, <3>2, <4>1
    <3>3. \A k \in before(i) : k \in before(j)
      BY <3>2
    <3>4. i \in before(j) /\ i \notin before(i)
      BY <1>2, <3>1
    <3>5. QED
      BY <3>3, <3>4
  <2>2. before(i) # before(j)
    BY <2>1
  <2> HIDE DEF before
  <2>3. QED
    BY <1>1, <2>1, <2>2, FS_Subset
<1>3. \A i, j \in S : Cardinality(before(i)) = Cardinality(before(j)) => i = j
  <2> SUFFICES ASSUME NEW i \in S, NEW j \in S, i # j
               PROVE  Cardinality(before(i)) # Cardinality(before(j))
    OBVIOUS
  <2>1. i < j \/ j < i
    OBVIOUS
  <2> HIDE DEF before
  <2>2. QED
    BY <1>2, <2>1
<1> HIDE DEF before
<1>4. rank \in Injection(first, 0..(n - 1))
  <2>1. \A j \in first : Cardinality(before(j)) \in 0..(n - 1)
    BY <1>1
  <2>3. rank \in [first -> 0..(n - 1)]
    BY <2>1
  <2>2. \A i, j \in first : rank[i] = rank[j] => i = j
    BY <1>3
  <2>4. QED
    BY <2>2, <2>3 DEF Injection, IsInjective
<1>5. IsFiniteSet(0..(n - 1)) /\ Cardinality(0..(n - 1)) = n
  BY FS_Interval, FS_EmptySet
<1> HIDE DEF first, rank
<1>6. IsFiniteSet(first) /\ Cardinality(first) <= n
  BY <1>4, <1>5, FS_Injection
<1>7. QED
  BY <1>6 DEF first, before
=============================================================================
