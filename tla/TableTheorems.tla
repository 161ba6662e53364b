----------------------------- MODULE TableTheorems -----------------------------
(***************************************************************************)
(* Facts about tables, for the proofs: sums over finite sets of rows        *)
(* (SumFunctionOnSet of the community modules), the row with the largest    *)
(* number, rows inserted and updated.  Sums are defined by recursion on the *)
(* set; induction is by a smallest counterexample, which exists because     *)
(* finite sets are well-founded under inclusion.                            *)
(***************************************************************************)
EXTENDS Integers, FiniteSets, Functions, FiniteSetTheorems, WellFoundedInduction,
        SequenceTheorems, TLAPS

\* The element that the recursion sets apart.
Pick(T) == CHOOSE x \in T : TRUE

\* g adds up f over the subsets of S, the way SumFunctionOnSet does.
Adds(g, f, S) == g = [T \in SUBSET S |-> IF T = {} THEN 0 ELSE f[Pick(T)] + g[T \ {Pick(T)}]]

\* A sum is what an adder gives its set.
LEMMA SumIs ==
  ASSUME NEW f, NEW S
  PROVE  SumFunctionOnSet(f, S) = (CHOOSE g : Adds(g, f, S))[S]
BY DEF SumFunctionOnSet, FoldFunctionOnSet, MapThenFoldSet, Adds, Pick

\* Of any collection of finite sets, one has no proper subset in it.
LEMMA Smallest ==
  ASSUME NEW S, NEW C, C \subseteq FiniteSubsetsOf(S), C # {}
  PROVE  \E T \in C : \A U \in C : U \subseteq T => U = T
<1>1. IsWellFoundedOn(StrictSubsetOrdering(S), FiniteSubsetsOf(S))
  BY FS_StrictSubsetOrderingWellFounded
<1>2. PICK T \in C : \A U \in C : ~(<<U, T>> \in StrictSubsetOrdering(S))
  BY <1>1, WFMin
<1>3. ASSUME NEW U \in C, U \subseteq T
      PROVE  U = T
  <2>1. <<U, T>> \notin StrictSubsetOrdering(S) /\ U \in SUBSET S /\ T \in SUBSET S
    BY <1>2 DEF FiniteSubsetsOf
  <2>. QED
    BY <2>1, <1>3 DEF StrictSubsetOrdering
<1>. QED
  BY <1>3

\* It is one of them.
LEMMA PickIn == ASSUME NEW T, T # {} PROVE Pick(T) \in T
BY DEF Pick

\* What an adder is, unfolded.
LEMMA AddsAt ==
  ASSUME NEW f, NEW S, NEW g, Adds(g, f, S)
  PROVE  /\ g[{}] = 0
         /\ \A T \in SUBSET S : T # {} => g[T] = f[Pick(T)] + g[T \ {Pick(T)}]
<1>1. g = [T \in SUBSET S |-> IF T = {} THEN 0 ELSE f[Pick(T)] + g[T \ {Pick(T)}]]
  BY DEF Adds
<1>2. {} \in SUBSET S
  OBVIOUS
<1>. QED
  BY <1>1, <1>2

\* Two of them agree wherever both are defined.
LEMMA AddsUnique ==
  ASSUME NEW f, NEW S, NEW R, NEW g, NEW h, Adds(g, f, S), Adds(h, f, R),
         NEW V \in SUBSET S, V \in SUBSET R, IsFiniteSet(V)
  PROVE  g[V] = h[V]
<1>. DEFINE C == {T \in FiniteSubsetsOf(V) : g[T] # h[T]}
<1>. SUFFICES ASSUME C # {} PROVE FALSE
  BY DEF FiniteSubsetsOf
<1>1. PICK T \in C : \A U \in C : U \subseteq T => U = T
  <2>. C \subseteq FiniteSubsetsOf(V)
    OBVIOUS
  <2>. HIDE DEF C
  <2>. QED
    BY Smallest
<1>2. T \in SUBSET S /\ T \in SUBSET R /\ IsFiniteSet(T) /\ g[T] # h[T] /\ T \in SUBSET V
  BY DEF FiniteSubsetsOf
<1>3. T # {}
  <2>1. g[{}] = 0 /\ h[{}] = 0
    BY AddsAt
  <2>. QED
    BY <1>2, <2>1
<1>. DEFINE U == T \ {Pick(T)}
<1>4. U \subseteq T /\ U # T /\ IsFiniteSet(U)
  BY <1>2, <1>3, PickIn, FS_Subset
<1>5. U \notin C
  BY <1>1, <1>4
<1>6. g[U] = h[U]
  BY <1>2, <1>4, <1>5 DEF FiniteSubsetsOf
<1>. QED
  BY <1>2, <1>3, <1>6, AddsAt

\* A finite set has one.
LEMMA AddsExists ==
  ASSUME NEW f, NEW V, IsFiniteSet(V)
  PROVE  \E g : Adds(g, f, V)
<1>. DEFINE C == {T \in FiniteSubsetsOf(V) : ~\E g : Adds(g, f, T)}
<1>. SUFFICES ASSUME C # {} PROVE FALSE
  BY DEF FiniteSubsetsOf
<1>1. PICK S \in C : \A U \in C : U \subseteq S => U = S
  <2>. C \subseteq FiniteSubsetsOf(V)
    OBVIOUS
  <2>. HIDE DEF C
  <2>. QED
    BY Smallest
<1>2. IsFiniteSet(S) /\ S \subseteq V /\ ~\E g : Adds(g, f, S)
  BY DEF FiniteSubsetsOf
<1>. DEFINE h(U) == CHOOSE g : Adds(g, f, U)
            v(T) == IF T = {} THEN 0 ELSE f[Pick(T)] + h(T \ {Pick(T)})[T \ {Pick(T)}]
            g == [T \in SUBSET S |-> v(T)]
<1>3. ASSUME NEW U, U \subseteq S, U # S
      PROVE  IsFiniteSet(U) /\ Adds(h(U), f, U)
  <2>1. IsFiniteSet(U) /\ U \in FiniteSubsetsOf(V)
    BY <1>2, <1>3, FS_Subset DEF FiniteSubsetsOf
  <2>2. \E k : Adds(k, f, U)
    BY <2>1, <1>1, <1>3
  <2>. QED
    BY <2>1, <2>2
<1>4. ASSUME NEW U, U \subseteq S, U # S
      PROVE  v(U) = h(U)[U]
  <2>1. CASE U = {}
    BY <2>1, <1>3, <1>4, AddsAt
  <2>2. CASE U # {}
    <3>. DEFINE W == U \ {Pick(U)}
    <3>1. W \subseteq U /\ W \subseteq S /\ W # S
      BY <1>4
    <3>2. Adds(h(U), f, U) /\ Adds(h(W), f, W) /\ IsFiniteSet(W)
      BY <3>1, <1>3, <1>4
    <3>3. h(U)[U] = f[Pick(U)] + h(U)[W]
      <4>. HIDE DEF h
      <4>. QED
        BY <3>2, <2>2, AddsAt
    <3>4. h(U)[W] = h(W)[W]
      <4>. HIDE DEF h
      <4>. QED
        BY <3>1, <3>2, AddsUnique
    <3>. QED
      BY <3>3, <3>4, <2>2
  <2>. QED
    BY <2>1, <2>2
<1>5. ASSUME NEW T \in SUBSET S
      PROVE  v(T) = IF T = {} THEN 0 ELSE f[Pick(T)] + g[T \ {Pick(T)}]
  <2>1. CASE T = {}
    BY <2>1
  <2>2. CASE T # {}
    <3>1. T \ {Pick(T)} \in SUBSET S /\ T \ {Pick(T)} # S
      BY <2>2, PickIn
    <3>2. g[T \ {Pick(T)}] = v(T \ {Pick(T)})
      BY <3>1
    <3>3. v(T \ {Pick(T)}) = h(T \ {Pick(T)})[T \ {Pick(T)}]
      BY <3>1, <1>4
    <3>. QED
      BY <2>2, <3>2, <3>3
  <2>. QED
    BY <2>1, <2>2
<1>6. Adds(g, f, S)
  <2>. HIDE DEF v
  <2>. QED
    BY <1>5 DEF Adds
<1>. QED
  BY <1>2, <1>6

\* Every adder of a finite set gives its subsets their sums.
LEMMA SumAdds ==
  ASSUME NEW f, NEW S, IsFiniteSet(S), NEW T \in SUBSET S
  PROVE  /\ SumFunctionOnSet(f, T) = (CHOOSE g : Adds(g, f, S))[T]
         /\ Adds(CHOOSE g : Adds(g, f, S), f, S)
<1>1. IsFiniteSet(T)
  BY FS_Subset
<1>2. Adds(CHOOSE g : Adds(g, f, S), f, S) /\ Adds(CHOOSE g : Adds(g, f, T), f, T)
  BY <1>1, AddsExists
<1>. QED
  BY <1>1, <1>2, SumIs, AddsUnique

\* The sum over nothing.
LEMMA SumEmpty ==
  ASSUME NEW f
  PROVE  SumFunctionOnSet(f, {}) = 0
<1>. DEFINE g == CHOOSE h : Adds(h, f, {})
<1>1. Adds(g, f, {}) /\ SumFunctionOnSet(f, {}) = g[{}]
  BY SumAdds, FS_EmptySet
<1>. HIDE DEF g
<1>. QED
  BY <1>1, AddsAt

\* The recursion, for finite sets.
LEMMA SumPick ==
  ASSUME NEW f, NEW S, IsFiniteSet(S), S # {}
  PROVE  SumFunctionOnSet(f, S) = f[Pick(S)] + SumFunctionOnSet(f, S \ {Pick(S)})
<1>. DEFINE g == CHOOSE h : Adds(h, f, S)
<1>1. Adds(g, f, S) /\ SumFunctionOnSet(f, S) = g[S]
  BY SumAdds
<1>2. SumFunctionOnSet(f, S \ {Pick(S)}) = g[S \ {Pick(S)}]
  BY SumAdds
<1>3. g[S] = f[Pick(S)] + g[S \ {Pick(S)}]
  <2>. HIDE DEF g
  <2>1. S \in SUBSET S
    OBVIOUS
  <2>. QED
    BY <1>1, <2>1, AddsAt
<1>. QED
  BY <1>1, <1>2, <1>3

\* Sums of integers are integers, sums of naturals naturals.
LEMMA SumInt ==
  ASSUME NEW S, IsFiniteSet(S), NEW f, \A x \in S : f[x] \in Int
  PROVE  /\ SumFunctionOnSet(f, S) \in Int
         /\ (\A x \in S : f[x] >= 0) => SumFunctionOnSet(f, S) >= 0
<1>. DEFINE Good(T) == /\ SumFunctionOnSet(f, T) \in Int
                       /\ (\A x \in T : f[x] >= 0) => SumFunctionOnSet(f, T) >= 0
            C == {T \in FiniteSubsetsOf(S) : ~Good(T)}
<1>. SUFFICES ASSUME C # {} PROVE FALSE
  BY DEF FiniteSubsetsOf
<1>1. PICK T \in C : \A U \in C : U \subseteq T => U = T
  <2>. C \subseteq FiniteSubsetsOf(S)
    OBVIOUS
  <2>. HIDE DEF C
  <2>. QED
    BY Smallest
<1>2. T \in SUBSET S /\ IsFiniteSet(T) /\ ~Good(T)
  BY DEF FiniteSubsetsOf
<1>3. T # {}
  BY <1>2, SumEmpty
<1>4. Pick(T) \in T /\ IsFiniteSet(T \ {Pick(T)})
  BY <1>2, <1>3, PickIn, FS_Subset
<1>5. Good(T \ {Pick(T)})
  BY <1>1, <1>2, <1>4 DEF FiniteSubsetsOf
<1>6. SumFunctionOnSet(f, T) = f[Pick(T)] + SumFunctionOnSet(f, T \ {Pick(T)})
  BY <1>2, <1>3, SumPick
<1>. QED
  BY <1>2, <1>4, <1>5, <1>6

\* Any term can be taken out first.
LEMMA SumTake ==
  ASSUME NEW S, IsFiniteSet(S), NEW f, \A x \in S : f[x] \in Int, NEW e \in S
  PROVE  SumFunctionOnSet(f, S) = f[e] + SumFunctionOnSet(f, S \ {e})
<1>. DEFINE Good(T) == \A x \in T : SumFunctionOnSet(f, T) = f[x] + SumFunctionOnSet(f, T \ {x})
            C == {T \in FiniteSubsetsOf(S) : ~Good(T)}
<1>. SUFFICES ASSUME C # {} PROVE FALSE
  BY DEF FiniteSubsetsOf
<1>1. PICK T \in C : \A U \in C : U \subseteq T => U = T
  <2>. C \subseteq FiniteSubsetsOf(S)
    OBVIOUS
  <2>. HIDE DEF C
  <2>. QED
    BY Smallest
<1>2. T \in SUBSET S /\ IsFiniteSet(T) /\ ~Good(T)
  BY DEF FiniteSubsetsOf
<1>3. PICK x \in T : SumFunctionOnSet(f, T) # f[x] + SumFunctionOnSet(f, T \ {x})
  BY <1>2
<1>. DEFINE p == Pick(T)
<1>4. p \in T /\ SumFunctionOnSet(f, T) = f[p] + SumFunctionOnSet(f, T \ {p})
  BY <1>2, <1>3, PickIn, SumPick
<1>5. p # x
  BY <1>3, <1>4
<1>6. /\ IsFiniteSet(T \ {p}) /\ IsFiniteSet(T \ {x}) /\ IsFiniteSet(T \ {p, x})
      /\ (T \ {p}) \ {x} = T \ {p, x} /\ (T \ {x}) \ {p} = T \ {p, x}
  BY <1>2, FS_Subset
<1>7. Good(T \ {p}) /\ Good(T \ {x})
  <2>1. T \ {p} \notin C /\ T \ {x} \notin C
    BY <1>1, <1>3, <1>4
  <2>. QED
    BY <2>1, <1>2, <1>6 DEF FiniteSubsetsOf
<1>8. /\ SumFunctionOnSet(f, T \ {p}) = f[x] + SumFunctionOnSet(f, T \ {p, x})
      /\ SumFunctionOnSet(f, T \ {x}) = f[p] + SumFunctionOnSet(f, T \ {p, x})
  BY <1>3, <1>4, <1>5, <1>6, <1>7
<1>9. f[p] \in Int /\ f[x] \in Int /\ SumFunctionOnSet(f, T \ {p, x}) \in Int
  BY <1>2, <1>3, <1>4, <1>6, SumInt
<1>. QED
  BY <1>3, <1>4, <1>8, <1>9

\* Only the terms matter, not what else the function says.
LEMMA SumSame ==
  ASSUME NEW S, IsFiniteSet(S), NEW f, NEW g, \A x \in S : f[x] = g[x]
  PROVE  SumFunctionOnSet(f, S) = SumFunctionOnSet(g, S)
<1>. DEFINE C == {T \in FiniteSubsetsOf(S) : SumFunctionOnSet(f, T) # SumFunctionOnSet(g, T)}
<1>. SUFFICES ASSUME C # {} PROVE FALSE
  BY DEF FiniteSubsetsOf
<1>1. PICK T \in C : \A U \in C : U \subseteq T => U = T
  <2>. C \subseteq FiniteSubsetsOf(S)
    OBVIOUS
  <2>. HIDE DEF C
  <2>. QED
    BY Smallest
<1>2. T \in SUBSET S /\ IsFiniteSet(T) /\ SumFunctionOnSet(f, T) # SumFunctionOnSet(g, T)
  BY DEF FiniteSubsetsOf
<1>3. T # {}
  BY <1>2, SumEmpty
<1>4. Pick(T) \in T /\ IsFiniteSet(T \ {Pick(T)})
  BY <1>2, <1>3, PickIn, FS_Subset
<1>5. SumFunctionOnSet(f, T \ {Pick(T)}) = SumFunctionOnSet(g, T \ {Pick(T)})
  BY <1>1, <1>2, <1>4 DEF FiniteSubsetsOf
<1>6. /\ SumFunctionOnSet(f, T) = f[Pick(T)] + SumFunctionOnSet(f, T \ {Pick(T)})
      /\ SumFunctionOnSet(g, T) = g[Pick(T)] + SumFunctionOnSet(g, T \ {Pick(T)})
  BY <1>2, <1>3, SumPick
<1>. QED
  BY <1>2, <1>4, <1>5, <1>6

\* A new term.
LEMMA SumAdd ==
  ASSUME NEW S, IsFiniteSet(S), NEW e, e \notin S, NEW f, \A x \in S \cup {e} : f[x] \in Int
  PROVE  SumFunctionOnSet(f, S \cup {e}) = SumFunctionOnSet(f, S) + f[e]
<1>1. IsFiniteSet(S \cup {e}) /\ (S \cup {e}) \ {e} = S
  BY FS_AddElement
<1>2. SumFunctionOnSet(f, S \cup {e}) = f[e] + SumFunctionOnSet(f, S)
  BY <1>1, SumTake
<1>. QED
  BY <1>2, SumInt

\* The sum over two sets that have nothing in common.
LEMMA SumUnion ==
  ASSUME NEW S, IsFiniteSet(S), NEW R, IsFiniteSet(R), S \cap R = {},
         NEW f, \A x \in S \cup R : f[x] \in Int
  PROVE  SumFunctionOnSet(f, S \cup R) = SumFunctionOnSet(f, S) + SumFunctionOnSet(f, R)
<1>. DEFINE Good(T) == SumFunctionOnSet(f, S \cup T)
                         = SumFunctionOnSet(f, S) + SumFunctionOnSet(f, T)
            C == {T \in FiniteSubsetsOf(R) : ~Good(T)}
<1>. SUFFICES ASSUME C # {} PROVE FALSE
  BY DEF FiniteSubsetsOf
<1>1. PICK T \in C : \A U \in C : U \subseteq T => U = T
  <2>. C \subseteq FiniteSubsetsOf(R)
    OBVIOUS
  <2>. HIDE DEF C
  <2>. QED
    BY Smallest
<1>2. T \in SUBSET R /\ IsFiniteSet(T) /\ ~Good(T)
  BY DEF FiniteSubsetsOf
<1>3. T # {}
  <2>1. Good({})
    <3>1. S \cup {} = S /\ SumFunctionOnSet(f, S) \in Int
      BY SumInt
    <3>. QED
      BY <3>1, SumEmpty
  <2>. QED
    BY <1>2, <2>1
<1>. DEFINE p == Pick(T)
            U == T \ {p}
<1>4. p \in T /\ p \notin S /\ IsFiniteSet(U) /\ U \subseteq R /\ p \notin U
  BY <1>2, <1>3, PickIn, FS_Subset
<1>5. Good(U)
  BY <1>1, <1>2, <1>4 DEF FiniteSubsetsOf
<1>6. IsFiniteSet(S \cup U) /\ S \cup T = (S \cup U) \cup {p} /\ p \notin S \cup U /\ T = U \cup {p}
  BY <1>4, FS_Union
<1>7. /\ SumFunctionOnSet(f, S \cup T) = SumFunctionOnSet(f, S \cup U) + f[p]
      /\ SumFunctionOnSet(f, T) = SumFunctionOnSet(f, U) + f[p]
  <2>1. \A x \in (S \cup U) \cup {p} : f[x] \in Int
    BY <1>2, <1>4
  <2>. HIDE DEF U, p
  <2>. QED
    BY <1>4, <1>6, <2>1, SumAdd
<1>8. SumFunctionOnSet(f, S) \in Int /\ SumFunctionOnSet(f, U) \in Int /\ f[p] \in Int
  BY <1>2, <1>4, SumInt
<1>. QED
  BY <1>2, <1>5, <1>7, <1>8

\* Term by term, what is added adds up.
LEMMA SumsAdd ==
  ASSUME NEW S, IsFiniteSet(S), NEW f, NEW g, NEW h,
         \A x \in S : f[x] \in Int /\ g[x] \in Int /\ h[x] = f[x] + g[x]
  PROVE  SumFunctionOnSet(h, S) = SumFunctionOnSet(f, S) + SumFunctionOnSet(g, S)
<1>. DEFINE Good(T) == SumFunctionOnSet(h, T)
                         = SumFunctionOnSet(f, T) + SumFunctionOnSet(g, T)
            C == {T \in FiniteSubsetsOf(S) : ~Good(T)}
<1>. SUFFICES ASSUME C # {} PROVE FALSE
  BY DEF FiniteSubsetsOf
<1>1. PICK T \in C : \A U \in C : U \subseteq T => U = T
  <2>. C \subseteq FiniteSubsetsOf(S)
    OBVIOUS
  <2>. HIDE DEF C
  <2>. QED
    BY Smallest
<1>2. T \in SUBSET S /\ IsFiniteSet(T) /\ ~Good(T)
  BY DEF FiniteSubsetsOf
<1>3. T # {}
  BY <1>2, SumEmpty
<1>. DEFINE p == Pick(T)
            U == T \ {p}
<1>4. p \in T /\ IsFiniteSet(U) /\ U \subseteq S /\ U # T /\ U \subseteq T
  BY <1>2, <1>3, PickIn, FS_Subset
<1>5. Good(U)
  BY <1>1, <1>2, <1>4 DEF FiniteSubsetsOf
<1>6. /\ SumFunctionOnSet(f, T) = f[p] + SumFunctionOnSet(f, U)
      /\ SumFunctionOnSet(g, T) = g[p] + SumFunctionOnSet(g, U)
      /\ SumFunctionOnSet(h, T) = h[p] + SumFunctionOnSet(h, U)
  BY <1>2, <1>3, SumPick
<1>7. /\ SumFunctionOnSet(f, U) \in Int /\ SumFunctionOnSet(g, U) \in Int
      /\ f[p] \in Int /\ g[p] \in Int /\ h[p] = f[p] + g[p]
  BY <1>2, <1>4, SumInt
<1>. QED
  BY <1>2, <1>5, <1>6, <1>7

\* Nothing adds up to nothing.
LEMMA SumZero ==
  ASSUME NEW S, IsFiniteSet(S), NEW f, \A x \in S : f[x] = 0
  PROVE  SumFunctionOnSet(f, S) = 0
<1>1. SumFunctionOnSet(f, S) = SumFunctionOnSet(f, S) + SumFunctionOnSet(f, S)
  BY SumsAdd
<1>2. SumFunctionOnSet(f, S) \in Int
  <2>1. \A x \in S : f[x] \in Int
    OBVIOUS
  <2>. QED
    BY <2>1, SumInt
<1>3. \A n \in Int : n = n + n => n = 0
  OBVIOUS
<1>. QED
  BY <1>1, <1>2, <1>3

\* A sum in which one row at most counts.
LEMMA SumOne ==
  ASSUME NEW S, IsFiniteSet(S), NEW e, NEW f, \A x \in S : f[x] \in Int,
         \A x \in S \ {e} : f[x] = 0
  PROVE  SumFunctionOnSet(f, S) = IF e \in S THEN f[e] ELSE 0
<1>1. ASSUME NEW T \in SUBSET S, \A x \in T : f[x] = 0
      PROVE  SumFunctionOnSet(f, T) = 0
  BY <1>1, SumZero, FS_Subset
<1>2. CASE e \in S
  <2>1. SumFunctionOnSet(f, S) = f[e] + SumFunctionOnSet(f, S \ {e})
    BY <1>2, SumTake
  <2>2. SumFunctionOnSet(f, S \ {e}) = 0
    BY <1>1
  <2>. QED
    BY <1>2, <2>1, <2>2
<1>3. CASE e \notin S
  BY <1>1, <1>3
<1>. QED
  BY <1>2, <1>3

\* A sum over some of the rows is one over all of them, where the others count
\* for nothing.
LEMMA SumPart ==
  ASSUME NEW S, IsFiniteSet(S), NEW T \in SUBSET S, NEW f, NEW g,
         \A x \in S : f[x] \in Int, \A x \in T : f[x] = g[x], \A x \in S \ T : f[x] = 0
  PROVE  SumFunctionOnSet(f, S) = SumFunctionOnSet(g, T)
<1>1. IsFiniteSet(T) /\ IsFiniteSet(S \ T) /\ T \cup (S \ T) = S
  BY FS_Subset, FS_Difference
<1>2. SumFunctionOnSet(f, T \cup (S \ T)) = SumFunctionOnSet(f, T) + SumFunctionOnSet(f, S \ T)
  BY <1>1, SumUnion
<1>3. SumFunctionOnSet(f, S \ T) = 0
  BY <1>1, SumZero
<1>4. SumFunctionOnSet(f, T) = SumFunctionOnSet(g, T)
  BY <1>1, SumSame
<1>5. SumFunctionOnSet(f, T) \in Int
  BY <1>1, SumInt
<1>6. SumFunctionOnSet(f, S) = SumFunctionOnSet(f, T \cup (S \ T))
  BY <1>1, Zenon
<1>. QED
  BY <1>2, <1>3, <1>4, <1>5, <1>6

\* What each row of S adds up to over the columns R.
RowSums(h, S, R) == [x \in S |-> SumFunctionOnSet(h[x], R)]

\* A table of numbers adds up to the same by rows (h) and by columns (v).
LEMMA SumSwap ==
  ASSUME NEW S, IsFiniteSet(S), NEW R, IsFiniteSet(R), NEW h, NEW v,
         \A x \in S, y \in R : h[x][y] \in Int /\ v[y][x] = h[x][y]
  PROVE  SumFunctionOnSet(RowSums(h, S, R), S) = SumFunctionOnSet(RowSums(v, R, S), R)
<1>. PICK g : g = RowSums(v, R, S)
  OBVIOUS
<1>1. \A y \in R : g[y] = SumFunctionOnSet(v[y], S)
  BY DEF RowSums
<1>. DEFINE Part(T) == RowSums(h, S, T)
            Good(T) == SumFunctionOnSet(Part(T), S) = SumFunctionOnSet(g, T)
            C == {T \in FiniteSubsetsOf(R) : ~Good(T)}
<1>. SUFFICES ASSUME C # {} PROVE FALSE
  BY DEF FiniteSubsetsOf
<1>2. PICK T \in C : \A U \in C : U \subseteq T => U = T
  <2>. C \subseteq FiniteSubsetsOf(R)
    OBVIOUS
  <2>. HIDE DEF C
  <2>. QED
    BY Smallest
<1>3. T \in SUBSET R /\ IsFiniteSet(T) /\ ~Good(T)
  BY DEF FiniteSubsetsOf
<1>4. T # {}
  <2>1. \A x \in S : Part({})[x] \in Int /\ Part({})[x] = 0
    BY SumEmpty DEF RowSums
  <2>2. SumFunctionOnSet(Part({}), S) = 0
    <3>. HIDE DEF Part
    <3>. QED
      BY <2>1, SumZero
  <2>. QED
    BY <1>3, <2>2, SumEmpty
<1>. DEFINE p == Pick(T)
            U == T \ {p}
<1>5. p \in T /\ p \in R /\ IsFiniteSet(U) /\ U \subseteq R /\ U # T /\ U \subseteq T
  BY <1>3, <1>4, PickIn, FS_Subset
<1>6. Good(U)
  BY <1>2, <1>3, <1>5 DEF FiniteSubsetsOf
<1>7. SumFunctionOnSet(g, T) = g[p] + SumFunctionOnSet(g, U)
  BY <1>3, <1>4, SumPick
<1>8. ASSUME NEW x \in S
      PROVE  /\ v[p][x] \in Int /\ SumFunctionOnSet(h[x], U) \in Int
             /\ SumFunctionOnSet(h[x], T) = v[p][x] + SumFunctionOnSet(h[x], U)
  <2>1. SumFunctionOnSet(h[x], T) = h[x][p] + SumFunctionOnSet(h[x], U)
    BY <1>3, <1>4, SumPick
  <2>2. SumFunctionOnSet(h[x], U) \in Int
    BY <1>5, SumInt
  <2>. QED
    BY <1>5, <2>1, <2>2
<1>9. \A x \in S : /\ v[p][x] \in Int /\ Part(U)[x] \in Int
                   /\ Part(T)[x] = v[p][x] + Part(U)[x]
  BY <1>8 DEF RowSums
<1>10. SumFunctionOnSet(Part(T), S) = SumFunctionOnSet(v[p], S) + SumFunctionOnSet(Part(U), S)
  <2>. HIDE DEF Part, p, U
  <2>. QED
    BY <1>9, SumsAdd
<1>. QED
  BY <1>1, <1>3, <1>5, <1>6, <1>7, <1>10

\* Term by term, what is at most as large adds up to at most as much.
LEMMA SumMonotone ==
  ASSUME NEW S, IsFiniteSet(S), NEW f, NEW g,
         \A x \in S : f[x] \in Int /\ g[x] \in Int /\ f[x] <= g[x]
  PROVE  SumFunctionOnSet(f, S) <= SumFunctionOnSet(g, S)
<1>. DEFINE C == {T \in FiniteSubsetsOf(S) : ~(SumFunctionOnSet(f, T) <= SumFunctionOnSet(g, T))}
<1>. SUFFICES ASSUME C # {} PROVE FALSE
  BY DEF FiniteSubsetsOf
<1>1. PICK T \in C : \A U \in C : U \subseteq T => U = T
  <2>. C \subseteq FiniteSubsetsOf(S)
    OBVIOUS
  <2>. HIDE DEF C
  <2>. QED
    BY Smallest
<1>2. T \in SUBSET S /\ IsFiniteSet(T) /\ ~(SumFunctionOnSet(f, T) <= SumFunctionOnSet(g, T))
  BY DEF FiniteSubsetsOf
<1>3. T # {}
  BY <1>2, SumEmpty
<1>4. Pick(T) \in T /\ IsFiniteSet(T \ {Pick(T)})
  BY <1>2, <1>3, PickIn, FS_Subset
<1>5. SumFunctionOnSet(f, T \ {Pick(T)}) <= SumFunctionOnSet(g, T \ {Pick(T)})
  BY <1>1, <1>2, <1>4 DEF FiniteSubsetsOf
<1>6. /\ SumFunctionOnSet(f, T) = f[Pick(T)] + SumFunctionOnSet(f, T \ {Pick(T)})
      /\ SumFunctionOnSet(g, T) = g[Pick(T)] + SumFunctionOnSet(g, T \ {Pick(T)})
  BY <1>2, <1>3, SumPick
<1>7. /\ SumFunctionOnSet(f, T \ {Pick(T)}) \in Int /\ SumFunctionOnSet(g, T \ {Pick(T)}) \in Int
      /\ f[Pick(T)] \in Int /\ g[Pick(T)] \in Int /\ f[Pick(T)] <= g[Pick(T)]
  BY <1>2, <1>4, SumInt
<1>. QED
  BY <1>2, <1>5, <1>6, <1>7

\* One row of a sum gets at most d more, the others no more.
LEMMA SumMoves ==
  ASSUME NEW S, IsFiniteSet(S), NEW e \in S, NEW f, NEW g, NEW d \in Int,
         \A x \in S : f[x] \in Int /\ g[x] \in Int,
         \A x \in S \ {e} : g[x] <= f[x], g[e] <= f[e] + d
  PROVE  SumFunctionOnSet(g, S) <= SumFunctionOnSet(f, S) + d
<1>1. IsFiniteSet(S \ {e})
  BY FS_RemoveElement
<1>2. /\ SumFunctionOnSet(f, S) = f[e] + SumFunctionOnSet(f, S \ {e})
      /\ SumFunctionOnSet(g, S) = g[e] + SumFunctionOnSet(g, S \ {e})
  BY SumTake
<1>3. SumFunctionOnSet(g, S \ {e}) <= SumFunctionOnSet(f, S \ {e})
  BY <1>1, SumMonotone
<1>4. SumFunctionOnSet(f, S \ {e}) \in Int /\ SumFunctionOnSet(g, S \ {e}) \in Int
  BY <1>1, SumInt
<1>. QED
  BY <1>2, <1>3, <1>4

\* A sum of rows that are at most k.
LEMMA SumAtMost ==
  ASSUME NEW k \in Int, NEW S, IsFiniteSet(S), NEW f, \A x \in S : f[x] \in Int /\ f[x] <= k
  PROVE  SumFunctionOnSet(f, S) <= k * Cardinality(S)
<1>. DEFINE C == {T \in FiniteSubsetsOf(S) : ~(SumFunctionOnSet(f, T) <= k * Cardinality(T))}
<1>. SUFFICES ASSUME C # {} PROVE FALSE
  BY DEF FiniteSubsetsOf
<1>1. PICK T \in C : \A U \in C : U \subseteq T => U = T
  <2>. C \subseteq FiniteSubsetsOf(S)
    OBVIOUS
  <2>. HIDE DEF C
  <2>. QED
    BY Smallest
<1>2. T \in SUBSET S /\ IsFiniteSet(T) /\ ~(SumFunctionOnSet(f, T) <= k * Cardinality(T))
  BY <1>1 DEF FiniteSubsetsOf
<1>3. T # {}
  <2>1. SumFunctionOnSet(f, {}) = 0 /\ Cardinality({}) = 0
    BY SumEmpty, FS_EmptySet
  <2>2. 0 <= k * 0
    OBVIOUS
  <2>. QED
    BY <1>2, <2>1, <2>2
<1>4. PICK x \in T : TRUE
  BY <1>3
<1>5. PICK n \in Nat : Cardinality(T) = n /\ Cardinality(T \ {x}) = n - 1 /\ IsFiniteSet(T \ {x})
  BY <1>2, FS_RemoveElement, FS_CardinalityType
<1>6. T \ {x} \in FiniteSubsetsOf(S) /\ T \ {x} \notin C
  BY <1>1, <1>2, <1>4, <1>5 DEF FiniteSubsetsOf
<1>7. SumFunctionOnSet(f, T \ {x}) <= k * (n - 1)
  BY <1>5, <1>6
<1>8. SumFunctionOnSet(f, T) = f[x] + SumFunctionOnSet(f, T \ {x})
  BY <1>2, <1>4, SumTake
<1>9. SumFunctionOnSet(f, T \ {x}) \in Int
  BY <1>2, <1>5, SumInt
<1>10. k * (n - 1) + k = k * n
  OBVIOUS
<1>11. f[x] \in Int /\ f[x] <= k /\ k * (n - 1) \in Int
  BY <1>2
<1>. QED
  BY <1>2, <1>5, <1>7, <1>8, <1>9, <1>10, <1>11

-----------------------------------------------------------------------------
(* Rows that are added to a table and changed in it.                         *)

\* A row is inserted.
LEMMA RowAdded ==
  ASSUME NEW R, NEW t \in Seq(R), NEW q \in R
  PROVE  /\ Append(t, q) \in Seq(R)
         /\ DOMAIN Append(t, q) = DOMAIN t \cup {Len(t) + 1}
         /\ \A i \in DOMAIN t : i # Len(t) + 1 /\ Append(t, q)[i] = t[i]
         /\ Append(t, q)[Len(t) + 1] = q
<1>1. Append(t, q) \in Seq(R) /\ Len(Append(t, q)) = Len(t) + 1 /\ Len(t) \in Nat
  BY AppendProperties, LenProperties
<1>2. DOMAIN t = 1 .. Len(t) /\ DOMAIN Append(t, q) = 1 .. (Len(t) + 1)
  BY <1>1, LenProperties
<1>. QED
  BY <1>1, <1>2, AppendProperties

\* A row is updated.
LEMMA RowChanged ==
  ASSUME NEW R, NEW t \in Seq(R), NEW i \in DOMAIN t, NEW q \in R
  PROVE  /\ [t EXCEPT ![i] = q] \in Seq(R)
         /\ DOMAIN [t EXCEPT ![i] = q] = DOMAIN t
         /\ \A k \in DOMAIN t : [t EXCEPT ![i] = q][k] = IF k = i THEN q ELSE t[k]
<1>1. i \in 1 .. Len(t) /\ DOMAIN t = 1 .. Len(t)
  BY LenProperties
<1>. QED
  BY <1>1, ExceptSeq

LEMMA RowIn == ASSUME NEW R, NEW t \in Seq(R), NEW i \in DOMAIN t PROVE t[i] \in R
<1>1. i \in 1 .. Len(t)
  BY LenProperties
<1>. QED
  BY <1>1, ElementOfSeq

\* Of finitely many numbered rows, one has the largest number.
LEMMA Largest ==
  ASSUME NEW S, IsFiniteSet(S), S # {}, NEW f, \A x \in S : f[x] \in Int
  PROVE  \E x \in S : \A y \in S : f[y] <= f[x]
<1>. DEFINE Top(T) == \E x \in T : \A y \in T : f[y] <= f[x]
            C == {T \in FiniteSubsetsOf(S) : T # {} /\ ~Top(T)}
<1>. SUFFICES ASSUME C # {} PROVE FALSE
  BY DEF FiniteSubsetsOf
<1>. HIDE DEF Top
<1>0. C \subseteq FiniteSubsetsOf(S)
  OBVIOUS
<1>1. PICK T \in C : \A U \in C : U \subseteq T => U = T
  <2>. HIDE DEF C
  <2>. QED
    BY <1>0, Smallest
<1>2. T \subseteq S /\ IsFiniteSet(T) /\ T # {} /\ ~Top(T)
  BY <1>1 DEF FiniteSubsetsOf
<1>3. PICK e \in T : TRUE
  BY <1>2
<1>. DEFINE U == T \ {e}
<1>4. IsFiniteSet(U) /\ U \subseteq S /\ U # T /\ U \subseteq T
  BY <1>2, <1>3, FS_RemoveElement
<1>5. U \notin C
  BY <1>1, <1>4
<1>6. U = {} \/ Top(U)
  BY <1>4, <1>5 DEF FiniteSubsetsOf
<1>7. CASE U = {}
  <2>1. \A y \in T : y = e
    BY <1>7
  <2>2. f[e] \in Int
    BY <1>2, <1>3
  <2>. QED
    BY <1>2, <1>3, <2>1, <2>2 DEF Top
<1>8. CASE Top(U)
  <2>1. PICK x \in U : \A y \in U : f[y] <= f[x]
    BY <1>8 DEF Top
  <2>2. f[x] \in Int /\ f[e] \in Int /\ (\A y \in T : f[y] \in Int) /\ x \in T
    BY <1>2, <1>3, <2>1
  <2>3. CASE f[e] <= f[x]
    <3>1. \A y \in T : f[y] <= f[x]
      BY <2>1, <2>3
    <3>. QED
      BY <1>2, <2>2, <3>1 DEF Top
  <2>4. CASE f[x] <= f[e]
    <3>1. \A y \in T : f[y] <= f[e]
      BY <2>1, <2>2, <2>4
    <3>. QED
      BY <1>2, <1>3, <3>1 DEF Top
  <2>. QED
    BY <2>2, <2>3, <2>4
<1>. QED
  BY <1>6, <1>7, <1>8

\* A set of numbers has a least one.
LEMMA LeastNumber ==
  ASSUME NEW T, T \subseteq Nat, T # {}
  PROVE  \E m \in T : \A n \in T : m <= n
<1>. DEFINE R == OpToRel(<, Nat)
<1>1. IsWellFoundedOn(R, Nat)
  BY NatLessThanWellFounded
<1>2. PICK m \in T : \A n \in T : ~(<<n, m>> \in R)
  BY <1>1, WFMin, Zenon
<1>3. \A n \in T : ~(n < m)
  BY <1>2 DEF OpToRel
<1>. QED
  BY <1>3

=============================================================================
