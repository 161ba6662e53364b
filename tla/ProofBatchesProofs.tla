------------------------- MODULE ProofBatchesProofs -------------------------
(***************************************************************************)
(* Merkle proofs lead to their root and to no other leaf, for every number  *)
(* of leaves (Merkle); overlapping sealers leave one chain of batches with  *)
(* provable journals, and no anchor is confirmed ahead of its batch, for    *)
(* every number of journals, sealers and commands (ProofBatches).           *)
(***************************************************************************)
EXTENDS ProofBatches, TableTheorems

-----------------------------------------------------------------------------
(* Trees.                                                                  *)

\* g holds the levels of the tree over L, as many as there could be.
Bottom(L) == Padded([i \in DOMAIN L |-> LeafHash(L[i])])
Levels(g, L, n) == g = [k \in 0 .. n |-> IF k = 0 THEN Bottom(L) ELSE Padded(Above(g[k - 1]))]
Tree(L) == CHOOSE g : Levels(g, L, Len(L))
Top(L) == CHOOSE k \in 0 .. Len(L) :
            Len(Tree(L)[k]) = 1 /\ \A h \in 0 .. k - 1 : Len(Tree(L)[h]) > 1

LEMMA BuildLevelsIs ==
  ASSUME NEW L
  PROVE  BuildLevels(L) = [k \in 1 .. Top(L) + 1 |-> Tree(L)[k - 1]]
BY DEF BuildLevels, Tree, Top, Levels, Bottom

\* The recursion of build_levels has a solution.
LEMMA LevelsExist ==
  ASSUME NEW L, NEW n \in Nat
  PROVE  \E g : Levels(g, L, n)
<1>. DEFINE T == {m \in Nat : ~\E g : Levels(g, L, m)}
<1>. SUFFICES ASSUME T # {} PROVE FALSE
  OBVIOUS
<1>1. PICK m \in T : \A k \in T : m <= k
  BY LeastNumber
<1>2. CASE m = 0
  <2>. DEFINE g == [k \in 0 .. 0 |-> Bottom(L)]
  <2>1. g = [k \in 0 .. 0 |-> IF k = 0 THEN Bottom(L) ELSE Padded(Above(g[k - 1]))]
    OBVIOUS
  <2>. QED
    BY <2>1, <1>2 DEF Levels
<1>3. CASE m # 0
  <2>1. m - 1 \in Nat /\ m - 1 \notin T
    BY <1>1, <1>3
  <2>2. PICK g : Levels(g, L, m - 1)
    BY <2>1
  <2>. DEFINE h == [k \in 0 .. m |-> IF k < m THEN g[k] ELSE Padded(Above(g[m - 1]))]
  <2>3. \A k \in 0 .. m - 1 : g[k] = IF k = 0 THEN Bottom(L) ELSE Padded(Above(g[k - 1]))
    BY <2>1, <2>2 DEF Levels
  <2>4. h = [k \in 0 .. m |-> IF k = 0 THEN Bottom(L) ELSE Padded(Above(h[k - 1]))]
    <3>1. ASSUME NEW k \in 0 .. m
          PROVE  h[k] = IF k = 0 THEN Bottom(L) ELSE Padded(Above(h[k - 1]))
      <4>1. CASE k = 0
        BY <4>1, <2>3, <1>3
      <4>2. CASE k # 0 /\ k < m
        BY <4>2, <2>3
      <4>3. CASE k = m
        BY <4>3, <1>3, <2>1
      <4>. QED
        BY <4>1, <4>2, <4>3
    <3>. HIDE DEF h
    <3>. SUFFICES h = [k \in 0 .. m |-> h[k]]
      BY <3>1
    <3>. QED
      BY DEF h
  <2>. QED
    BY <2>4, <1>1 DEF Levels
<1>. QED
  BY <1>2, <1>3

\* The levels, one above the other.
LEMMA TreeAt ==
  ASSUME NEW L, Len(L) \in Nat
  PROVE  /\ Tree(L)[0] = Bottom(L)
         /\ \A k \in 1 .. Len(L) : Tree(L)[k] = Padded(Above(Tree(L)[k - 1]))
<1>1. Levels(Tree(L), L, Len(L))
  BY LevelsExist DEF Tree
<1>. DEFINE g == Tree(L)
<1>. HIDE DEF g
<1>2. Levels(g, L, Len(L)) => /\ g[0] = Bottom(L)
                              /\ \A k \in 1 .. Len(L) : g[k] = Padded(Above(g[k - 1]))
  BY DEF Levels
<1>. QED
  BY <1>1, <1>2 DEF g

\* A level is a sequence of n hashes; what has a level above it is paired.
Hashes(s, n) == n \in Nat /\ Len(s) = n /\ \E T : s \in Seq(T)
Paired(n) == n = 1 \/ \E h \in Nat : n = 2 * h

\* Halves.
LEMMA Halves ==
  ASSUME NEW n \in Nat
  PROVE  \/ n % 2 # 1 /\ \E h \in Nat : n = 2 * h
         \/ n % 2 = 1 /\ \E h \in Nat : n + 1 = 2 * h
<1>1. n \div 2 \in Nat /\ n \div 2 + 1 \in Nat
  OBVIOUS
<1>2. n % 2 = 0 => n = 2 * (n \div 2)
  OBVIOUS
<1>3. n % 2 = 1 => n + 1 = 2 * (n \div 2 + 1)
  OBVIOUS
<1>4. n % 2 = 0 \/ n % 2 = 1
  OBVIOUS
<1>. QED
  BY <1>1, <1>2, <1>3, <1>4

\* Padding keeps what is there and makes pairs.
LEMMA PaddedIs ==
  ASSUME NEW s, NEW n \in Nat \ {0}, Hashes(s, n)
  PROVE  \E m \in Nat \ {0} :
           /\ Hashes(Padded(s), m) /\ Paired(m)
           /\ m = n \/ (m = n + 1 /\ n > 1)
           /\ \A i \in 1 .. n : Padded(s)[i] = s[i]
<1>1. PICK T : s \in Seq(T)
  BY DEF Hashes
<1>2. Len(s) = n /\ s[n] \in T
  BY <1>1, ElementOfSeq DEF Hashes
<1>3. CASE n > 1 /\ n % 2 = 1
  <2>1. Padded(s) = Append(s, s[n])
    BY <1>2, <1>3 DEF Padded, Last
  <2>2. /\ Append(s, s[n]) \in Seq(T)
        /\ Len(Append(s, s[n])) = n + 1
        /\ \A i \in 1 .. n : Append(s, s[n])[i] = s[i]
    BY <1>1, <1>2, AppendProperties
  <2>3. Paired(n + 1)
    BY <1>3, Halves DEF Paired
  <2>. WITNESS n + 1 \in Nat \ {0}
  <2>. QED
    BY <1>3, <2>1, <2>2, <2>3 DEF Hashes
<1>4. CASE ~(n > 1 /\ n % 2 = 1)
  <2>1. Padded(s) = s
    BY <1>2, <1>4 DEF Padded
  <2>2. Paired(n)
    BY <1>4, Halves DEF Paired
  <2>. WITNESS n \in Nat \ {0}
  <2>. QED
    BY <2>1, <2>2
<1>. QED
  BY <1>3, <1>4

\* A sequence given by its elements.
LEMMA ListIs ==
  ASSUME NEW n \in Nat, NEW e
  PROVE  Hashes([i \in 1 .. n |-> e[i]], n)
<1>. DEFINE T == {e[i] : i \in 1 .. n}
            s == [i \in 1 .. n |-> e[i]]
<1>1. s \in [1 .. n -> T]
  OBVIOUS
<1>2. s \in Seq(T) /\ DOMAIN s = 1 .. n
  BY <1>1
<1>3. Len(s) = n
  <2>. HIDE DEF s
  <2>. QED
    BY <1>2, LenProperties
<1>. HIDE DEF s
<1>4. Hashes(s, n)
  BY <1>2, <1>3 DEF Hashes
<1>. QED
  BY <1>4 DEF s

\* A level of pairs has half as many nodes above it.
LEMMA AboveIs ==
  ASSUME NEW s, NEW n \in Nat, Hashes(s, n), n > 1, Paired(n)
  PROVE  \E h \in Nat \ {0} :
           /\ n = 2 * h /\ Hashes(Above(s), h)
           /\ \A i \in 1 .. h : Above(s)[i] = NodeHash(s[2 * i - 1], s[2 * i])
<1>1. PICK h \in Nat : n = 2 * h
  BY DEF Paired
<1>2. h \in Nat \ {0} /\ n \div 2 = h /\ Len(s) = n
  BY <1>1 DEF Hashes
<1>. DEFINE e == [i \in 1 .. h |-> NodeHash(s[2 * i - 1], s[2 * i])]
<1>3. Above(s) = e /\ e = [i \in 1 .. h |-> e[i]]
  BY <1>2 DEF Above
<1>4. \A i \in 1 .. h : e[i] = NodeHash(s[2 * i - 1], s[2 * i])
  OBVIOUS
<1>. HIDE DEF e
<1>5. Hashes(e, h)
  BY <1>1, <1>3, ListIs
<1>. QED
  BY <1>1, <1>2, <1>3, <1>4, <1>5

\* The leaves' level.
LEMMA BottomIs ==
  ASSUME NEW L, NEW n \in Nat \ {0}, Hashes(L, n)
  PROVE  \E m \in Nat \ {0} :
           /\ Hashes(Bottom(L), m) /\ Paired(m) /\ (m = n \/ m = n + 1)
           /\ \A i \in 1 .. n : Bottom(L)[i] = LeafHash(L[i])
<1>1. DOMAIN L = 1 .. n
  BY LenProperties DEF Hashes
<1>. DEFINE e == [i \in DOMAIN L |-> LeafHash(L[i])]
<1>2. e = [i \in 1 .. n |-> e[i]] /\ \A i \in 1 .. n : e[i] = LeafHash(L[i])
  BY <1>1
<1>3. Bottom(L) = Padded(e)
  BY DEF Bottom
<1>. HIDE DEF e
<1>4. Hashes(e, n)
  BY <1>2, ListIs
<1>5. PICK m \in Nat \ {0} : /\ Hashes(Padded(e), m) /\ Paired(m)
                             /\ m = n \/ (m = n + 1 /\ n > 1)
                             /\ \A i \in 1 .. n : Padded(e)[i] = e[i]
  BY <1>4, PaddedIs
<1>6. \A i \in 1 .. n : Bottom(L)[i] = LeafHash(L[i])
  BY <1>2, <1>3, <1>5
<1>. QED
  BY <1>3, <1>5, <1>6

\* As long as every level below has several nodes, levels shrink.
Shrinks(L, n, k) ==
  (\A h \in 0 .. k - 1 : Len(Tree(L)[h]) > 1) =>
    \E m \in Nat \ {0} : /\ Hashes(Tree(L)[k], m) /\ Paired(m)
                         /\ m = 1 \/ m <= n + 1 - k

LEMMA LevelsShrink ==
  ASSUME NEW L, NEW n \in Nat \ {0}, Hashes(L, n), NEW k \in 0 .. n
  PROVE  Shrinks(L, n, k)
<1>. DEFINE T == {j \in 0 .. n : ~Shrinks(L, n, j)}
<1>. SUFFICES ASSUME T # {} PROVE FALSE
  OBVIOUS
<1>1. PICK j \in T : \A i \in T : j <= i
  <2>1. T \subseteq Nat
    OBVIOUS
  <2>. HIDE DEF T
  <2>. QED
    BY <2>1, LeastNumber
<1>2. Len(L) = n
  BY DEF Hashes
<1>3. \A h \in 0 .. j - 1 : Len(Tree(L)[h]) > 1
  BY <1>1 DEF Shrinks
<1>4. ASSUME NEW m \in Nat \ {0}, Hashes(Tree(L)[j], m), Paired(m), m = 1 \/ m <= n + 1 - j
      PROVE  FALSE
  BY <1>1, <1>4 DEF Shrinks
<1>5. CASE j = 0
  <2>1. Tree(L)[0] = Bottom(L)
    BY <1>2, TreeAt
  <2>2. PICK m \in Nat \ {0} : Hashes(Bottom(L), m) /\ Paired(m) /\ (m = n \/ m = n + 1)
    BY BottomIs
  <2>. QED
    BY <1>4, <1>5, <2>1, <2>2
<1>6. CASE j # 0
  <2>1. j - 1 \in 0 .. n /\ j - 1 \notin T /\ j \in 1 .. n
    BY <1>1, <1>6
  <2>2. Tree(L)[j] = Padded(Above(Tree(L)[j - 1]))
    BY <1>2, <2>1, TreeAt
  <2>3. PICK m \in Nat \ {0} : /\ Hashes(Tree(L)[j - 1], m) /\ Paired(m)
                               /\ m = 1 \/ m <= n + 1 - (j - 1)
    BY <1>3, <2>1 DEF Shrinks
  <2>4. m > 1
    <3>1. Len(Tree(L)[j - 1]) > 1
      BY <1>3, <2>1
    <3>. QED
      BY <3>1, <2>3 DEF Hashes
  <2>5. PICK h \in Nat \ {0} : m = 2 * h /\ Hashes(Above(Tree(L)[j - 1]), h)
    BY <2>3, <2>4, AboveIs
  <2>6. PICK q \in Nat \ {0} : /\ Hashes(Tree(L)[j], q) /\ Paired(q)
                               /\ q = h \/ (q = h + 1 /\ h > 1)
    BY <2>2, <2>5, PaddedIs
  <2>7. q <= n + 1 - j
    BY <2>1, <2>3, <2>4, <2>5, <2>6
  <2>. QED
    BY <1>4, <2>6, <2>7
<1>. QED
  BY <1>5, <1>6

\* The root's level is reached, and below it every level is paired and complete.
LEMMA TopIs ==
  ASSUME NEW L, NEW n \in Nat \ {0}, Hashes(L, n)
  PROVE  /\ Top(L) \in 0 .. n /\ Len(Tree(L)[Top(L)]) = 1
         /\ \A k \in 0 .. Top(L) : \E m \in Nat \ {0} :
              /\ Hashes(Tree(L)[k], m) /\ Paired(m)
              /\ k < Top(L) => m > 1
<1>. DEFINE A == {k \in 0 .. n : ~(Len(Tree(L)[k]) > 1)}
<1>1. Len(L) = n
  BY DEF Hashes
<1>2. A # {}
  <2>. SUFFICES ASSUME A = {} PROVE FALSE
    OBVIOUS
  <2>1. Shrinks(L, n, n)
    BY LevelsShrink
  <2>2. \A h \in 0 .. n : Len(Tree(L)[h]) > 1
    OBVIOUS
  <2>3. PICK m \in Nat \ {0} : Hashes(Tree(L)[n], m) /\ (m = 1 \/ m <= n + 1 - n)
    BY <2>1, <2>2 DEF Shrinks
  <2>4. Len(Tree(L)[n]) = m /\ Len(Tree(L)[n]) > 1
    BY <2>2, <2>3 DEF Hashes
  <2>5. m > 1
    BY <2>4
  <2>. QED
    BY <2>3, <2>5
<1>3. PICK k \in A : \A i \in A : k <= i
  <2>1. A \subseteq Nat
    OBVIOUS
  <2>. HIDE DEF A
  <2>. QED
    BY <1>2, <2>1, LeastNumber
<1>4. \A h \in 0 .. k - 1 : Len(Tree(L)[h]) > 1
  BY <1>3
<1>5. Len(Tree(L)[k]) = 1
  <2>1. Shrinks(L, n, k)
    BY LevelsShrink
  <2>2. PICK m \in Nat \ {0} : Hashes(Tree(L)[k], m)
    BY <2>1, <1>4 DEF Shrinks
  <2>3. Len(Tree(L)[k]) = m
    BY <2>2 DEF Hashes
  <2>. QED
    BY <2>2, <2>3
<1>6. /\ Top(L) \in 0 .. n /\ Len(Tree(L)[Top(L)]) = 1
      /\ \A h \in 0 .. Top(L) - 1 : Len(Tree(L)[h]) > 1
  BY <1>1, <1>4, <1>5 DEF Top
<1>7. ASSUME NEW j \in 0 .. Top(L)
      PROVE  \E m \in Nat \ {0} : /\ Hashes(Tree(L)[j], m) /\ Paired(m)
                                  /\ j < Top(L) => m > 1
  <2>1. Shrinks(L, n, j)
    BY <1>6, LevelsShrink
  <2>2. PICK m \in Nat \ {0} : Hashes(Tree(L)[j], m) /\ Paired(m)
    BY <2>1, <1>6 DEF Shrinks
  <2>3. j < Top(L) => m > 1
    BY <2>2, <1>6 DEF Hashes
  <2>. QED
    BY <2>2, <2>3
<1>. QED
  BY <1>6, <1>7

-----------------------------------------------------------------------------
(* Proofs.                                                                 *)

\* g holds the positions of a leaf on the levels above it.
Positions(g, index, n) == g = [k \in 1 .. n |-> IF k = 1 THEN index ELSE g[k - 1] \div 2]
Position(index, n) == CHOOSE g : Positions(g, index, n)

\* The recursion of generate_proof has a solution.
LEMMA PositionsExist ==
  ASSUME NEW index, NEW n \in Nat \ {0}
  PROVE  \E g : Positions(g, index, n)
<1>. DEFINE T == {m \in Nat \ {0} : ~\E g : Positions(g, index, m)}
<1>. SUFFICES ASSUME T # {} PROVE FALSE
  OBVIOUS
<1>1. PICK m \in T : \A k \in T : m <= k
  <2>1. T \subseteq Nat
    OBVIOUS
  <2>. HIDE DEF T
  <2>. QED
    BY <2>1, LeastNumber
<1>2. CASE m = 1
  <2>. DEFINE g == [k \in 1 .. 1 |-> index]
  <2>1. g = [k \in 1 .. 1 |-> IF k = 1 THEN index ELSE g[k - 1] \div 2]
    OBVIOUS
  <2>. QED
    BY <2>1, <1>1, <1>2 DEF Positions
<1>3. CASE m # 1
  <2>1. m - 1 \in Nat \ {0} /\ m - 1 \notin T
    BY <1>1, <1>3
  <2>2. PICK g : Positions(g, index, m - 1)
    BY <2>1
  <2>. DEFINE h == [k \in 1 .. m |-> IF k < m THEN g[k] ELSE g[m - 1] \div 2]
  <2>3. \A k \in 1 .. m - 1 : g[k] = IF k = 1 THEN index ELSE g[k - 1] \div 2
    BY <2>1, <2>2 DEF Positions
  <2>4. ASSUME NEW k \in 1 .. m
        PROVE  h[k] = IF k = 1 THEN index ELSE h[k - 1] \div 2
    <3>1. CASE k = 1
      BY <3>1, <2>3, <1>3
    <3>2. CASE k # 1 /\ k < m
      BY <3>2, <2>3
    <3>3. CASE k = m
      BY <3>3, <1>3, <2>1
    <3>. QED
      BY <3>1, <3>2, <3>3
  <2>5. h = [k \in 1 .. m |-> h[k]]
    OBVIOUS
  <2>6. h = [k \in 1 .. m |-> IF k = 1 THEN index ELSE h[k - 1] \div 2]
    <3>. HIDE DEF h
    <3>. QED
      BY <2>4, <2>5
  <2>. QED
    BY <2>6, <1>1 DEF Positions
<1>. QED
  BY <1>2, <1>3

LEMMA PositionAt ==
  ASSUME NEW index, NEW n \in Nat \ {0}
  PROVE  /\ Position(index, n)[1] = index
         /\ \A k \in 2 .. n : Position(index, n)[k] = Position(index, n)[k - 1] \div 2
<1>1. Positions(Position(index, n), index, n)
  BY PositionsExist DEF Position
<1>. DEFINE g == Position(index, n)
<1>. HIDE DEF g
<1>2. Positions(g, index, n) => /\ g[1] = index
                                /\ \A k \in 2 .. n : g[k] = g[k - 1] \div 2
  BY DEF Positions
<1>. QED
  BY <1>1, <1>2 DEF g

\* g holds the hashes on the way up from a leaf.
Climbs(g, p, proof, n) ==
  g = [k \in 0 .. n |-> IF k = 0 THEN LeafHash(p) ELSE Combine(g[k - 1], proof[k])]

\* The recursion of verify_proof has a solution.
LEMMA ClimbsExist ==
  ASSUME NEW p, NEW proof, NEW n \in Nat
  PROVE  \E g : Climbs(g, p, proof, n)
<1>. DEFINE T == {m \in Nat : ~\E g : Climbs(g, p, proof, m)}
<1>. SUFFICES ASSUME T # {} PROVE FALSE
  OBVIOUS
<1>1. PICK m \in T : \A k \in T : m <= k
  BY LeastNumber
<1>2. CASE m = 0
  <2>. DEFINE g == [k \in 0 .. 0 |-> LeafHash(p)]
  <2>1. g = [k \in 0 .. 0 |-> IF k = 0 THEN LeafHash(p) ELSE Combine(g[k - 1], proof[k])]
    OBVIOUS
  <2>. QED
    BY <2>1, <1>2 DEF Climbs
<1>3. CASE m # 0
  <2>1. m - 1 \in Nat /\ m - 1 \notin T
    BY <1>1, <1>3
  <2>2. PICK g : Climbs(g, p, proof, m - 1)
    BY <2>1
  <2>. DEFINE h == [k \in 0 .. m |-> IF k < m THEN g[k] ELSE Combine(g[m - 1], proof[m])]
  <2>3. \A k \in 0 .. m - 1 : g[k] = IF k = 0 THEN LeafHash(p) ELSE Combine(g[k - 1], proof[k])
    BY <2>1, <2>2 DEF Climbs
  <2>4. ASSUME NEW k \in 0 .. m
        PROVE  h[k] = IF k = 0 THEN LeafHash(p) ELSE Combine(h[k - 1], proof[k])
    <3>1. CASE k = 0
      BY <3>1, <2>3, <1>3
    <3>2. CASE k # 0 /\ k < m
      BY <3>2, <2>3
    <3>3. CASE k = m
      BY <3>3, <1>3, <2>1
    <3>. QED
      BY <3>1, <3>2, <3>3
  <2>5. h = [k \in 0 .. m |-> h[k]]
    OBVIOUS
  <2>6. h = [k \in 0 .. m |-> IF k = 0 THEN LeafHash(p) ELSE Combine(h[k - 1], proof[k])]
    <3>. HIDE DEF h
    <3>. QED
      BY <2>4, <2>5
  <2>. QED
    BY <2>6, <1>1 DEF Climbs
<1>. QED
  BY <1>2, <1>3

\* The hashes g that verify_proof passes on its way up, from the leaf p.
Ascent(g, p, proof, n) ==
  /\ Climb(p, proof) = g[n] /\ g[0] = LeafHash(p)
  /\ \A k \in 1 .. n : g[k] = Combine(g[k - 1], proof[k])

LEMMA ClimbAt ==
  ASSUME NEW p, NEW proof, NEW n \in Nat, Len(proof) = n
  PROVE  \E g : Ascent(g, p, proof, n)
<1>. DEFINE g == CHOOSE h : Climbs(h, p, proof, n)
<1>1. Climbs(g, p, proof, n)
  BY ClimbsExist
<1>2. Climb(p, proof) = g[n]
  BY DEF Climb, Climbs
<1>. HIDE DEF g
<1>3. g[0] = LeafHash(p) /\ \A k \in 1 .. n : g[k] = Combine(g[k - 1], proof[k])
  BY <1>1 DEF Climbs
<1>. QED
  BY <1>2, <1>3 DEF Ascent

\* A proof leads two leaves to one hash only if they are one: node hashes commit
\* to both children (_node_hash, leaf_hash).
LEMMA ClimbsApart ==
  ASSUME NEW proof, NEW n \in Nat, Len(proof) = n, NEW p, NEW q,
         Climb(p, proof) = Climb(q, proof)
  PROVE  p = q
<1>p. PICK g : Ascent(g, p, proof, n)
  BY ClimbAt
<1>q. PICK h : Ascent(h, q, proof, n)
  BY ClimbAt
<1>1. /\ Climb(p, proof) = g[n] /\ g[0] = LeafHash(p)
      /\ \A k \in 1 .. n : g[k] = Combine(g[k - 1], proof[k])
  BY <1>p DEF Ascent
<1>2. /\ Climb(q, proof) = h[n] /\ h[0] = LeafHash(q)
      /\ \A k \in 1 .. n : h[k] = Combine(h[k - 1], proof[k])
  BY <1>q DEF Ascent
<1>. DEFINE T == {k \in 0 .. n : g[k] = h[k]}
<1>3. n \in T
  <2>1. g[n] = h[n]
    BY <1>1, <1>2, Zenon
  <2>2. n \in 0 .. n
    OBVIOUS
  <2>. QED
    BY <2>1, <2>2
<1>4. PICK m \in T : \A k \in T : m <= k
  <2>1. T \subseteq Nat
    OBVIOUS
  <2>. HIDE DEF T
  <2>. QED
    BY <1>3, <2>1, LeastNumber
<1>5. m = 0
  <2>. SUFFICES ASSUME m # 0 PROVE FALSE
    OBVIOUS
  <2>1. m \in 1 .. n /\ m - 1 \in 0 .. n /\ m - 1 \notin T
    BY <1>4
  <2>2. Combine(g[m - 1], proof[m]) = Combine(h[m - 1], proof[m])
    BY <1>1, <1>2, <1>4, <2>1
  <2>3. g[m - 1] = h[m - 1]
    BY <2>2 DEF Combine, NodeHash
  <2>. QED
    BY <2>1, <2>3
<1>. QED
  BY <1>1, <1>2, <1>4, <1>5 DEF LeafHash

\* What generate_proof puts on the path of a leaf.
Sibling(L, i, k) ==
  LET at == Position(i, Top(L) + 1)[k]
      pair == IF at % 2 = 0 THEN at + 1 ELSE at - 1
  IN IF pair >= Len(Tree(L)[k - 1]) THEN Len(Tree(L)[k - 1]) - 1 ELSE pair

LEMMA ProofIs ==
  ASSUME NEW L, NEW n \in Nat \ {0}, Hashes(L, n), NEW i
  PROVE  /\ Len(GenerateProof(L, i)) = Top(L)
         /\ \A k \in 1 .. Top(L) :
              GenerateProof(L, i)[k] =
                [hash |-> Tree(L)[k - 1][Sibling(L, i, k) + 1],
                 side |-> IF Sibling(L, i, k) < Position(i, Top(L) + 1)[k] THEN "LEFT" ELSE "RIGHT"]
<1>. DEFINE t == Top(L)
            lv == BuildLevels(L)
            e == [k \in 1 .. t |->
                   [hash |-> Tree(L)[k - 1][Sibling(L, i, k) + 1],
                    side |-> IF Sibling(L, i, k) < Position(i, t + 1)[k] THEN "LEFT" ELSE "RIGHT"]]
<1>1. t \in Nat
  BY TopIs
<1>2. Len(lv) = t + 1 /\ \A k \in 1 .. t + 1 : lv[k] = Tree(L)[k - 1]
  <2>. DEFINE s == [k \in 1 .. t + 1 |-> Tree(L)[k - 1]]
  <2>1. lv = s /\ s = [k \in 1 .. t + 1 |-> s[k]]
    BY BuildLevelsIs
  <2>2. \A k \in 1 .. t + 1 : s[k] = Tree(L)[k - 1]
    OBVIOUS
  <2>. HIDE DEF s, lv, t
  <2>3. Hashes(s, t + 1)
    BY <1>1, <2>1, ListIs
  <2>. QED
    BY <2>1, <2>2, <2>3 DEF Hashes
<1>3. GenerateProof(L, i) = e
  <2>. DEFINE pos == CHOOSE g : g = [k \in 1 .. Len(lv) |-> IF k = 1 THEN i ELSE g[k - 1] \div 2]
              pair(k) == IF pos[k] % 2 = 0 THEN pos[k] + 1 ELSE pos[k] - 1
              sib(k) == IF pair(k) >= Len(lv[k]) THEN Len(lv[k]) - 1 ELSE pair(k)
  <2>1. GenerateProof(L, i) = [k \in 1 .. Len(lv) - 1 |->
                                [hash |-> lv[k][sib(k) + 1],
                                 side |-> IF sib(k) < pos[k] THEN "LEFT" ELSE "RIGHT"]]
    BY DEF GenerateProof
  <2>2. pos = Position(i, t + 1) /\ Len(lv) - 1 = t
    <3>. HIDE DEF lv, t
    <3>. QED
      BY <1>1, <1>2 DEF Position, Positions
  <2>3. ASSUME NEW k \in 1 .. t
        PROVE  lv[k] = Tree(L)[k - 1] /\ sib(k) = Sibling(L, i, k)
    <3>1. lv[k] = Tree(L)[k - 1]
      BY <1>1, <1>2
    <3>. HIDE DEF lv, pos
    <3>. QED
      BY <2>2, <3>1 DEF Sibling
  <2>. HIDE DEF lv, pos, sib, t
  <2>. QED
    BY <2>1, <2>2, <2>3
<1>4. e = [k \in 1 .. t |-> e[k]]
  OBVIOUS
<1>5. \A k \in 1 .. t : e[k] =
         [hash |-> Tree(L)[k - 1][Sibling(L, i, k) + 1],
          side |-> IF Sibling(L, i, k) < Position(i, t + 1)[k] THEN "LEFT" ELSE "RIGHT"]
  OBVIOUS
<1>. HIDE DEF e
<1>6. Hashes(e, t)
  BY <1>1, <1>4, ListIs
<1>. QED
  BY <1>3, <1>5, <1>6 DEF Hashes

\* Where a node, its sibling and their parent are.
LEMMA Parents ==
  ASSUME NEW h \in Nat, NEW x \in 0 .. 2 * h - 1
  PROVE  /\ x \div 2 \in 0 .. h - 1
         /\ \/ x % 2 = 0 /\ x = 2 * (x \div 2) /\ x + 1 < 2 * h
            \/ x % 2 = 1 /\ x % 2 # 0 /\ x = 2 * (x \div 2) + 1
<1>1. x \div 2 \in 0 .. h - 1
  OBVIOUS
<1>2. x % 2 = 0 => x = 2 * (x \div 2)
  OBVIOUS
<1>3. x % 2 = 1 => x = 2 * (x \div 2) + 1
  OBVIOUS
<1>4. x % 2 = 0 \/ x % 2 = 1
  OBVIOUS
<1>5. x % 2 = 0 => x + 1 < 2 * h
  OBVIOUS
<1>. QED
  BY <1>1, <1>2, <1>3, <1>4, <1>5

\* One step of a proof leads from a node to the one above it.
LEMMA StepUp ==
  ASSUME NEW L, NEW n \in Nat \ {0}, Hashes(L, n), NEW i, NEW k \in 1 .. Top(L),
         NEW m \in Nat, Hashes(Tree(L)[k - 1], m),
         Position(i, Top(L) + 1)[k] \in 0 .. m - 1
  PROVE  /\ Combine(Tree(L)[k - 1][Position(i, Top(L) + 1)[k] + 1], GenerateProof(L, i)[k])
              = Tree(L)[k][Position(i, Top(L) + 1)[k] \div 2 + 1]
         /\ \E q \in Nat : /\ Hashes(Tree(L)[k], q)
                           /\ Position(i, Top(L) + 1)[k] \div 2 \in 0 .. q - 1
<1>. DEFINE s == Tree(L)[k - 1]
            x == Position(i, Top(L) + 1)[k]
            y == x \div 2
<1>0. Len(s) = m /\ Len(L) = n /\ k \in 1 .. n /\ k - 1 \in 0 .. Top(L) /\ k - 1 < Top(L)
  BY TopIs DEF Hashes
<1>1. m > 1 /\ Paired(m)
  <2>1. PICK q \in Nat \ {0} : Hashes(s, q) /\ Paired(q) /\ q > 1
    BY <1>0, TopIs
  <2>2. q = m
    BY <2>1, <1>0 DEF Hashes
  <2>. QED
    BY <2>1, <2>2
<1>2. PICK h \in Nat \ {0} : /\ m = 2 * h /\ Hashes(Above(s), h)
                             /\ \A j \in 1 .. h : Above(s)[j] = NodeHash(s[2 * j - 1], s[2 * j])
  BY <1>1, AboveIs
<1>3. PICK q \in Nat \ {0} : /\ Hashes(Padded(Above(s)), q) /\ (q = h \/ (q = h + 1 /\ h > 1))
                             /\ \A j \in 1 .. h : Padded(Above(s))[j] = Above(s)[j]
  BY <1>2, PaddedIs
<1>4. Tree(L)[k] = Padded(Above(s))
  BY <1>0, TreeAt
<1>5. Sibling(L, i, k) = (LET pair == IF x % 2 = 0 THEN x + 1 ELSE x - 1
                          IN IF pair >= m THEN m - 1 ELSE pair)
  BY <1>0 DEF Sibling
<1>6. GenerateProof(L, i)[k] = [hash |-> s[Sibling(L, i, k) + 1],
                                side |-> IF Sibling(L, i, k) < x THEN "LEFT" ELSE "RIGHT"]
  BY ProofIs
<1>. HIDE DEF s, x
<1>7. /\ y \in 0 .. h - 1
      /\ \/ x % 2 = 0 /\ x = 2 * y /\ x + 1 < m
         \/ x % 2 = 1 /\ x % 2 # 0 /\ x = 2 * y + 1
  BY <1>2, Parents DEF x
<1>. HIDE DEF y
<1>8. y + 1 \in 1 .. h /\ 2 * (y + 1) - 1 = 2 * y + 1 /\ 2 * (y + 1) = 2 * y + 2
  BY <1>7
<1>9. Tree(L)[k][y + 1] = NodeHash(s[2 * y + 1], s[2 * y + 2])
  BY <1>2, <1>3, <1>4, <1>8
<1>10. Combine(s[x + 1], GenerateProof(L, i)[k]) = NodeHash(s[2 * y + 1], s[2 * y + 2])
  <2>1. CASE x % 2 = 0
    <3>1. x = 2 * y /\ x + 1 < m /\ x \in Nat
      BY <2>1, <1>7, <1>8
    <3>2. Sibling(L, i, k) = x + 1
      BY <2>1, <3>1, <1>5
    <3>3. GenerateProof(L, i)[k] = [hash |-> s[x + 2], side |-> "RIGHT"]
      <4>1. x + 1 + 1 = x + 2 /\ ~(x + 1 < x)
        BY <3>1
      <4>. QED
        BY <1>6, <3>2, <4>1
    <3>4. Combine(s[x + 1], GenerateProof(L, i)[k]) = NodeHash(s[x + 1], s[x + 2])
      BY <3>3 DEF Combine
    <3>. QED
      BY <3>1, <3>4
  <2>2. CASE x % 2 # 0
    <3>1. x = 2 * y + 1 /\ x \in Nat /\ x - 1 < m
      BY <2>2, <1>7, <1>8, <1>2
    <3>2. Sibling(L, i, k) = x - 1
      BY <2>2, <3>1, <1>5
    <3>3. GenerateProof(L, i)[k] = [hash |-> s[x], side |-> "LEFT"]
      <4>1. x - 1 + 1 = x /\ x - 1 < x
        BY <3>1
      <4>. QED
        BY <1>6, <3>2, <4>1
    <3>4. Combine(s[x + 1], GenerateProof(L, i)[k]) = NodeHash(s[x], s[x + 1])
      BY <3>3 DEF Combine
    <3>5. x + 1 = 2 * y + 2
      BY <3>1, <1>7
    <3>. QED
      BY <3>1, <3>4, <3>5
  <2>. QED
    BY <2>1, <2>2
<1>11. Hashes(Tree(L)[k], q) /\ y \in 0 .. q - 1 /\ q \in Nat
  BY <1>3, <1>4, <1>7
<1>. QED
  BY <1>9, <1>10, <1>11 DEF s, x, y

\* The proof of a leaf leads to the root of its tree, for every number of leaves
\* (merkle_root, generate_proof, verify_proof).
THEOREM ProofsLeadToRoot ==
  ASSUME NEW L, NEW n \in Nat \ {0}, Hashes(L, n), NEW i \in 0 .. n - 1
  PROVE  VerifyProof(L[i + 1], GenerateProof(L, i), MerkleRoot(L))
<1>. DEFINE t == Top(L)
            pos == Position(i, t + 1)
            proof == GenerateProof(L, i)
<1>1. t \in Nat /\ Len(Tree(L)[t]) = 1 /\ Len(proof) = t
  <2>1. t \in 0 .. n /\ Len(Tree(L)[t]) = 1
    BY TopIs
  <2>2. Len(proof) = t
    BY ProofIs
  <2>. QED
    BY <2>1, <2>2
<1>p. PICK g : Ascent(g, L[i + 1], proof, t)
  <2>. HIDE DEF t, proof
  <2>. QED
    BY <1>1, ClimbAt
<1>2. /\ Climb(L[i + 1], proof) = g[t] /\ g[0] = LeafHash(L[i + 1])
      /\ \A k \in 1 .. t : g[k] = Combine(g[k - 1], proof[k])
  BY <1>p DEF Ascent
<1>3. pos[1] = i /\ \A k \in 2 .. t + 1 : pos[k] = pos[k - 1] \div 2
  BY <1>1, PositionAt
<1>4. \A k \in 0 .. t : /\ g[k] = Tree(L)[k][pos[k + 1] + 1]
                        /\ \E m \in Nat : Hashes(Tree(L)[k], m) /\ pos[k + 1] \in 0 .. m - 1
  <2>. DEFINE Good(k) == /\ g[k] = Tree(L)[k][pos[k + 1] + 1]
                         /\ \E m \in Nat : Hashes(Tree(L)[k], m) /\ pos[k + 1] \in 0 .. m - 1
              T == {k \in 0 .. t : ~Good(k)}
  <2>. SUFFICES ASSUME T # {} PROVE FALSE
    OBVIOUS
  <2>1. PICK k \in T : \A j \in T : k <= j
    <3>1. T \subseteq Nat
      OBVIOUS
    <3>. HIDE DEF T
    <3>. QED
      BY <3>1, LeastNumber
  <2>2. Good(0)
    <3>1. Tree(L)[0] = Bottom(L)
      BY TreeAt DEF Hashes
    <3>2. PICK m \in Nat \ {0} : /\ Hashes(Bottom(L), m) /\ (m = n \/ m = n + 1)
                                 /\ \A j \in 1 .. n : Bottom(L)[j] = LeafHash(L[j])
      BY BottomIs
    <3>3. pos[0 + 1] = i /\ i \in 0 .. m - 1 /\ i + 1 \in 1 .. n /\ m \in Nat
      BY <1>3, <3>2
    <3>. HIDE DEF pos
    <3>. QED
      BY <1>2, <3>1, <3>2, <3>3
  <2>3. k \in 1 .. t /\ k - 1 \in 0 .. t /\ k - 1 \notin T
    <3>1. k \in 0 .. t /\ k # 0
      BY <2>1, <2>2
    <3>. HIDE DEF T, t
    <3>2. k \in 1 .. t /\ k - 1 \in 0 .. t /\ ~(k <= k - 1)
      BY <1>1, <3>1
    <3>. QED
      BY <2>1, <3>2
  <2>4. Good(k - 1) /\ k - 1 + 1 = k
    BY <2>3
  <2>5. PICK m \in Nat : Hashes(Tree(L)[k - 1], m) /\ pos[k] \in 0 .. m - 1
    BY <2>4
  <2>6. /\ Combine(Tree(L)[k - 1][pos[k] + 1], proof[k]) = Tree(L)[k][pos[k] \div 2 + 1]
        /\ \E q \in Nat : Hashes(Tree(L)[k], q) /\ pos[k] \div 2 \in 0 .. q - 1
    BY <2>3, <2>5, StepUp
  <2>7. pos[k + 1] = pos[k] \div 2
    <3>1. k + 1 \in 2 .. t + 1 /\ k + 1 - 1 = k
      BY <2>3, <1>1
    <3>. HIDE DEF pos, t
    <3>. QED
      BY <1>3, <3>1
  <2>8. g[k] = Combine(Tree(L)[k - 1][pos[k] + 1], proof[k])
    <3>. HIDE DEF pos, t, proof
    <3>. QED
      BY <1>2, <2>3, <2>4
  <2>9. Good(k)
    <3>. HIDE DEF pos, t, proof
    <3>. QED
      BY <2>6, <2>7, <2>8
  <2>. QED
    BY <2>1, <2>9
<1>5. MerkleRoot(L) = Tree(L)[t][1]
  <2>. DEFINE s == [k \in 1 .. t + 1 |-> Tree(L)[k - 1]]
  <2>1. BuildLevels(L) = s /\ s = [k \in 1 .. t + 1 |-> s[k]] /\ s[t + 1] = Tree(L)[t]
    BY <1>1, BuildLevelsIs
  <2>2. Len(s) = t + 1
    <3>. HIDE DEF s, t
    <3>1. Hashes(s, t + 1)
      BY <1>1, <2>1, ListIs
    <3>. QED
      BY <3>1 DEF Hashes
  <2>. HIDE DEF s, t
  <2>. QED
    BY <2>1, <2>2 DEF MerkleRoot, Last
<1>6. pos[t + 1] = 0
  <2>. HIDE DEF pos, t, proof
  <2>0. t \in 0 .. t
    BY <1>1
  <2>1. PICK m \in Nat : Hashes(Tree(L)[t], m) /\ pos[t + 1] \in 0 .. m - 1
    BY <1>4, <2>0
  <2>2. m = 1
    <3>1. Len(Tree(L)[t]) = m
      BY <2>1 DEF Hashes
    <3>. QED
      BY <1>1, <3>1
  <2>. HIDE DEF pos, t
  <2>. QED
    BY <2>1, <2>2
<1>7. g[t] = Tree(L)[t][1]
  <2>. HIDE DEF pos, t
  <2>1. t \in 0 .. t
    BY <1>1
  <2>. QED
    BY <1>4, <1>6, <2>1
<1>. QED
  BY <1>2, <1>5, <1>7 DEF VerifyProof

-----------------------------------------------------------------------------
(* Rows by id.                                                             *)

Increasing(r) == \A m, n \in DOMAIN r : m < n => r[m] < r[n]

\* The largest number of a finite set.
LEMMA LargestNumber ==
  ASSUME NEW S \in SUBSET Nat, IsFiniteSet(S), S # {}
  PROVE  \E x \in S : \A y \in S : y <= x
<1>. DEFINE f == [x \in S |-> x]
<1>1. \A x \in S : f[x] \in Int /\ f[x] = x
  OBVIOUS
<1>2. PICK x \in S : \A y \in S : f[y] <= f[x]
  <2>. HIDE DEF f
  <2>. QED
    BY <1>1, Largest
<1>. QED
  BY <1>1, <1>2

\* Finitely many ids can be ordered.
LEMMA OrderExists ==
  ASSUME NEW S \in SUBSET Nat, IsFiniteSet(S)
  PROVE  \E r \in [1 .. Cardinality(S) -> S] : Increasing(r)
<1>. DEFINE C == {T \in FiniteSubsetsOf(S) : ~\E r \in [1 .. Cardinality(T) -> T] : Increasing(r)}
<1>. SUFFICES ASSUME C # {} PROVE FALSE
  BY DEF FiniteSubsetsOf
<1>1. PICK T \in C : \A U \in C : U \subseteq T => U = T
  <2>. C \subseteq FiniteSubsetsOf(S)
    OBVIOUS
  <2>. HIDE DEF C
  <2>. QED
    BY Smallest
<1>2. /\ IsFiniteSet(T) /\ T \subseteq S /\ T \subseteq Nat
      /\ ~\E r \in [1 .. Cardinality(T) -> T] : Increasing(r)
  BY <1>1 DEF FiniteSubsetsOf
<1>3. T # {}
  <2>. SUFFICES ASSUME T = {} PROVE FALSE
    OBVIOUS
  <2>1. Cardinality(T) = 0
    BY FS_EmptySet
  <2>2. [i \in 1 .. 0 |-> i] \in [1 .. Cardinality(T) -> T] /\ Increasing([i \in 1 .. 0 |-> i])
    BY <2>1 DEF Increasing
  <2>. QED
    BY <1>2, <2>2
<1>4. PICK x \in T : \A y \in T : y <= x
  BY <1>2, <1>3, LargestNumber
<1>. DEFINE U == T \ {x}
            n == Cardinality(T)
<1>5. /\ IsFiniteSet(U) /\ Cardinality(U) = n - 1 /\ n \in Nat
      /\ Cardinality(U) \in Nat
  BY <1>2, FS_RemoveElement, FS_CardinalityType
<1>6. U \in FiniteSubsetsOf(S) /\ U \notin C
  BY <1>1, <1>2, <1>5 DEF FiniteSubsetsOf
<1>7. PICK r \in [1 .. n - 1 -> U] : Increasing(r)
  BY <1>5, <1>6
<1>. DEFINE q == [i \in 1 .. n |-> IF i = n THEN x ELSE r[i]]
<1>8. \A i \in 1 .. n - 1 : r[i] \in U /\ r[i] < x
  <2>1. \A y \in U : y < x
    BY <1>2, <1>4
  <2>. HIDE DEF U
  <2>. QED
    BY <1>7, <2>1
<1>9. q \in [1 .. n -> T]
  <2>1. \A i \in 1 .. n : i # n => i \in 1 .. n - 1
    BY <1>5
  <2>. HIDE DEF n
  <2>. QED
    BY <1>8, <2>1
<1>10. Increasing(q)
  <2>. SUFFICES ASSUME NEW i \in 1 .. n, NEW j \in 1 .. n, i < j PROVE q[i] < q[j]
    BY DEF Increasing
  <2>1. i \in 1 .. n - 1 /\ (j = n \/ j \in 1 .. n - 1) /\ i # n
    BY <1>5
  <2>. HIDE DEF n
  <2>2. q[i] = r[i]
    BY <2>1
  <2>3. CASE j = n
    BY <2>1, <2>2, <2>3, <1>8
  <2>4. CASE j # n
    <3>1. r[i] < r[j] /\ q[j] = r[j]
      BY <2>1, <2>4, <1>7 DEF Increasing
    <3>. QED
      BY <2>2, <3>1
  <2>. QED
    BY <2>3, <2>4
<1>. QED
  BY <1>2, <1>9, <1>10

LEMMA ByIdIs ==
  ASSUME NEW S \in SUBSET Nat, IsFiniteSet(S)
  PROVE  ById(S) \in [1 .. Cardinality(S) -> S] /\ Increasing(ById(S))
<1>1. \E r \in [1 .. Cardinality(S) -> S] : \A m, n \in DOMAIN r : m < n => r[m] < r[n]
  BY OrderExists DEF Increasing
<1>. QED
  BY <1>1 DEF ById, Increasing

\* Ids in order are at least as far apart as their places.
LEMMA Spread ==
  ASSUME NEW c \in Nat, NEW r \in [1 .. c -> Nat], Increasing(r),
         NEW m \in 1 .. c, NEW n \in m .. c
  PROVE  r[m] + (n - m) <= r[n]
<1>. DEFINE T == {k \in m .. c : ~(r[m] + (k - m) <= r[k])}
<1>. SUFFICES ASSUME T # {} PROVE FALSE
  OBVIOUS
<1>1. PICK k \in T : \A j \in T : k <= j
  <2>1. T \subseteq Nat
    OBVIOUS
  <2>. HIDE DEF T
  <2>. QED
    BY <2>1, LeastNumber
<1>2. k # m
  BY <1>1
<1>3. k - 1 \in m .. c /\ k - 1 \notin T /\ k - 1 \in 1 .. c /\ k \in 1 .. c /\ k - 1 < k
  BY <1>1, <1>2
<1>4. r[k - 1] < r[k] /\ r[k - 1] \in Nat /\ r[k] \in Nat /\ r[m] \in Nat
  BY <1>3 DEF Increasing
<1>5. r[m] + ((k - 1) - m) <= r[k - 1]
  BY <1>3
<1>. QED
  BY <1>1, <1>3, <1>4, <1>5

\* Ordering an interval gives its numbers one by one.
LEMMA ByIdOfRun ==
  ASSUME NEW a \in Nat, NEW b \in Nat, a <= b
  PROVE  ById(a .. b) = IdRun(a, b)
<1>. DEFINE c == b - a + 1
            r == ById(a .. b)
<1>1. IsFiniteSet(a .. b) /\ Cardinality(a .. b) = c /\ c \in Nat \ {0}
  BY FS_Interval
<1>2. r \in [1 .. c -> a .. b] /\ Increasing(r)
  BY <1>1, ByIdIs
<1>. HIDE DEF r
<1>3. \A k \in 1 .. c : r[k] = a + k - 1
  <2>. TAKE k \in 1 .. c
  <2>1. r \in [1 .. c -> Nat]
    BY <1>2
  <2>0. 1 \in 1 .. c /\ k \in 1 .. c /\ c \in k .. c /\ c \in Nat
    BY <1>1
  <2>2. r[1] + (k - 1) <= r[k]
    <3>. HIDE DEF c
    <3>. QED
      BY <1>2, <2>0, <2>1, Spread
  <2>3. r[k] + (c - k) <= r[c]
    <3>. HIDE DEF c
    <3>. QED
      BY <1>2, <2>0, <2>1, Spread
  <2>4. r[1] \in a .. b /\ r[k] \in a .. b /\ r[c] \in a .. b
    BY <1>1, <1>2
  <2>. QED
    BY <2>2, <2>3, <2>4
<1>. QED
  BY <1>2, <1>3 DEF r, IdRun

\* seal_batch takes the lowest ids it is given, up to the first gap.
LEMMA SelectedIs ==
  ASSUME NEW S \in SUBSET Nat, IsFiniteSet(S), Selected(S) # <<>>
  PROVE  LET r == Selected(S)
         IN /\ r \in Seq(S) /\ Len(r) \in Nat \ {0}
            /\ r = IdRun(r[1], r[1] + Len(r) - 1)
            /\ r[1] .. r[1] + Len(r) - 1 \subseteq S
<1>. DEFINE c == Cardinality(S)
            o == ById(S)
            Q == {n \in DOMAIN o : n <= MAX_BATCH_SIZE /\ o[n] = o[1] + n - 1}
            r == Selected(S)
<1>1. c \in Nat /\ o \in [1 .. c -> S] /\ Increasing(o)
  BY ByIdIs, FS_CardinalityType
<1>2. r = SubSeq(o, 1, Cardinality(Q))
  BY DEF Selected
<1>3. \A n : n \in Q <=> n \in 1 .. c /\ n <= MAX_BATCH_SIZE /\ o[n] = o[1] + n - 1
  BY <1>1
<1>. HIDE DEF o, c, Q
<1>4. ASSUME NEW n \in Q, NEW m \in 1 .. n
      PROVE  m \in Q
  <2>1. n \in 1 .. c
    BY <1>3
  <2>2. m \in 1 .. c /\ n \in m .. c /\ 1 \in 1 .. c /\ m \in 1 .. m /\ o \in [1 .. c -> Nat]
    <3>1. m \in Nat /\ n \in Nat /\ 1 <= m /\ m <= n /\ n <= c
      BY <2>1, <1>1
    <3>2. o \in [1 .. c -> Nat]
      BY <1>1
    <3>. QED
      BY <1>1, <3>1, <3>2
  <2>3. o[m] + (n - m) <= o[n]
    BY <1>1, <2>2, Spread
  <2>4. o[1] + (m - 1) <= o[m]
    BY <1>1, <2>2, Spread
  <2>5. o[1] \in Nat /\ o[m] \in Nat /\ o[n] \in Nat
    BY <2>1, <2>2
  <2>6. o[n] = o[1] + n - 1 /\ n <= MAX_BATCH_SIZE /\ MAX_BATCH_SIZE \in Nat
    BY <1>3, ProofAssumption
  <2>7. o[m] = o[1] + m - 1
    BY <2>1, <2>2, <2>3, <2>4, <2>5, <2>6
  <2>8. m <= MAX_BATCH_SIZE
    BY <2>1, <2>2, <2>6
  <2>. QED
    BY <1>3, <2>2, <2>7, <2>8
<1>5. Q \subseteq 1 .. c /\ Q \subseteq Nat
  BY <1>1, <1>3
<1>6. PICK q \in Nat : Q = 1 .. q
  <2>1. CASE Q = {}
    <3>1. Q = 1 .. 0
      BY <2>1
    <3>. QED
      BY <3>1
  <2>2. CASE Q # {}
    <3>1. IsFiniteSet(Q)
      <4>1. IsFiniteSet(1 .. c)
        BY <1>1, FS_Interval
      <4>. QED
        BY <4>1, <1>5, FS_Subset, Zenon
    <3>2. PICK x \in Q : \A y \in Q : y <= x
      BY <2>2, <3>1, <1>5, LargestNumber
    <3>3. x \in Nat /\ \A y \in Q : y \in 1 .. x
      BY <1>1, <1>5, <3>2
    <3>4. \A y \in 1 .. x : y \in Q
      BY <1>4
    <3>5. Q = 1 .. x
      BY <3>3, <3>4
    <3>. QED
      BY <3>3, <3>5
  <2>. QED
    BY <2>1, <2>2
<1>14. Cardinality(Q) = q
  <2>1. Cardinality(1 .. q) = q
    BY FS_Interval
  <2>. QED
    BY <1>6, <2>1
<1>15. \A n \in 1 .. q : n \in 1 .. c /\ o[n] \in S /\ o[n] = o[1] + n - 1
  BY <1>1, <1>3, <1>6
<1>7. /\ SubSeq(o, 1, q) \in Seq(S) /\ Len(SubSeq(o, 1, q)) = q
      /\ \A i \in 1 .. q : SubSeq(o, 1, q)[i] = o[i]
  <2>1. /\ SubSeq(o, 1, q) \in Seq(S) /\ Len(SubSeq(o, 1, q)) = IF 1 <= q THEN q - 1 + 1 ELSE 0
        /\ \A i \in 1 .. q - 1 + 1 : SubSeq(o, 1, q)[i] = o[1 + i - 1]
    BY <1>15, SubSeqProperties
  <2>2. q - 1 + 1 = q /\ \A i \in 1 .. q : 1 + i - 1 = i
    OBVIOUS
  <2>. QED
    BY <2>1, <2>2
<1>8. r = SubSeq(o, 1, q) /\ r # <<>>
  BY <1>2, <1>14
<1>. HIDE DEF r
<1>9. r \in Seq(S) /\ Len(r) = q /\ \A i \in 1 .. q : r[i] = o[i]
  BY <1>7, <1>8
<1>10. q # 0
  BY <1>8, <1>9, EmptySeq
<1>11. r[1] = o[1] /\ o[1] \in Nat /\ \A i \in 1 .. q : r[i] = r[1] + i - 1 /\ r[i] \in S
  <2>1. 1 \in 1 .. q
    BY <1>10
  <2>2. r[1] = o[1] /\ o[1] \in S
    BY <2>1, <1>9, <1>15
  <2>3. \A i \in 1 .. q : r[i] = o[i] /\ o[i] = o[1] + i - 1 /\ o[i] \in S
    BY <1>9, <1>15
  <2>. QED
    BY <2>2, <2>3
<1>12. r = IdRun(r[1], r[1] + q - 1)
  <2>1. r[1] + q - 1 - r[1] + 1 = q
    BY <1>11
  <2>2. r = [i \in 1 .. q |-> r[i]]
    BY <1>9, LenProperties
  <2>. QED
    BY <1>11, <2>1, <2>2 DEF IdRun
<1>13. r[1] .. r[1] + q - 1 \subseteq S
  <2>. SUFFICES ASSUME NEW x \in r[1] .. r[1] + q - 1 PROVE x \in S
    OBVIOUS
  <2>1. x - r[1] + 1 \in 1 .. q /\ r[1] + (x - r[1] + 1) - 1 = x
    BY <1>11
  <2>. QED
    BY <1>11, <2>1
<1>. QED
  BY <1>9, <1>10, <1>12, <1>13 DEF r

-----------------------------------------------------------------------------
(* The parts of the invariant, and what keeps them.                        *)

USE ProofAssumption

BatchesSound == BatchesInLine /\ \A b \in batches : BatchSound(b)
SealersSound == \A s \in Sealers : SealerSound(s)
AnchorsKnown == \A a \in DOMAIN anchors : anchors[a].batch \in Sequences
CommandsSound == \A w \in Anchorers : DOMAIN store[w] \subseteq Sequences /\ CommandSound(w)

LEMMA BInvIs ==
  BInv <=> /\ TypeOK /\ BatchesSound /\ SealersSound /\ AnchorsKnown /\ CommandsSound
           /\ ConfirmedIsAnchored
BY DEF BInv, BatchesSound, SealersSound, AnchorsKnown, CommandsSound

LEMMA BInvNext ==
  ASSUME TypeOK', BatchesSound', SealersSound', AnchorsKnown', CommandsSound', ConfirmedIsAnchored'
  PROVE  BInv'
BY DEF BInv, BatchesSound, SealersSound, AnchorsKnown, CommandsSound

\* A batch is found by its sequence.
LEMMA BatchIs ==
  ASSUME BatchesInLine, NEW b \in batches
  PROVE  Batch(b.sequence) = b
BY DEF BatchesInLine, Batch

LEMMA BatchFound ==
  ASSUME BatchesInLine, NEW n \in Sequences
  PROVE  Batch(n) \in batches /\ Batch(n).sequence = n
BY DEF Batch, Sequences

\* What a manifest commits to.
LEMMA ManifestFields ==
  ASSUME NEW b, NEW c, ManifestHash(b) = ManifestHash(c)
  PROVE  b.sequence = c.sequence /\ b.first = c.first /\ b.last = c.last
<1>. DEFINE m(x) == [sequence |-> x.sequence, first |-> x.first, last |-> x.last, count |-> x.count,
                     root |-> x.root, previous |-> x.previous]
<1>1. m(b) = m(c)
  <2>1. <<m(b)>> = <<m(c)>>
    BY DEF ManifestHash
  <2>. HIDE DEF m
  <2>. QED
    BY <2>1
<1>2. m(b).sequence = m(c).sequence /\ m(b).first = m(c).first /\ m(b).last = m(c).last
  BY <1>1
<1>. QED
  BY <1>2

\* Rows that are inserted or anchored leave the others' manifests, and journals
\* and anchors are never deleted.
Forward ==
  /\ posted \subseteq posted'
  /\ \A b \in batches : \E c \in batches' :
       /\ c.sequence = b.sequence /\ ManifestHash(c) = ManifestHash(b)
       /\ b.status = "ANCHORED" => c.status = "ANCHORED"
  /\ \A a \in DOMAIN anchors : a \in DOMAIN anchors' /\ anchors'[a].batch = anchors[a].batch

LEMMA SequencesStay == ASSUME Forward PROVE Sequences \subseteq Sequences'
BY DEF Forward, Sequences

LEMMA AnchoredStays ==
  ASSUME BatchesInLine, BatchesInLine', Forward, AnchorsKnown, NEW a \in DOMAIN anchors, Anchored(a)
  PROVE  Anchored(a)'
<1>1. PICK n : n = anchors[a].batch
  OBVIOUS
<1>2. n \in Sequences /\ anchors'[a].batch = n
  BY <1>1 DEF AnchorsKnown, Forward
<1>3. Batch(n) \in batches /\ Batch(n).sequence = n /\ Batch(n).status = "ANCHORED"
  BY <1>1, <1>2, BatchFound DEF Anchored
<1>4. PICK c \in batches' : c.sequence = n /\ c.status = "ANCHORED"
  BY <1>3 DEF Forward
<1>5. Batch(n)' = c
  BY <1>4 DEF BatchesInLine, Batch
<1>6. Anchored(a)' <=> Batch(n)'.status = "ANCHORED"
  BY <1>2 DEF Anchored
<1>. QED
  BY <1>4, <1>5, <1>6

\* A command that does nothing keeps what it knows.
LEMMA CommandStays ==
  ASSUME BatchesInLine, BatchesInLine', Forward, AnchorsKnown, NEW w, CommandSound(w), run'[w] = run[w]
  PROVE  CommandSound(w)'
<1>1. Sequences \subseteq Sequences' /\ DOMAIN anchors \subseteq DOMAIN anchors'
  BY SequencesStay DEF Forward
<1>2. \A a \in DOMAIN anchors : Anchored(a) => Anchored(a)'
  BY AnchoredStays
<1>. QED
  BY <1>1, <1>2 DEF CommandSound

\* Nor does a sealer lose the batch it read.
LEMMA SealerStays ==
  ASSUME Forward, NEW s, SealerSound(s), sealing'[s] = sealing[s]
  PROVE  SealerSound(s)'
<1>1. \A b \in batches : \E c \in batches' : ManifestHash(c) = ManifestHash(b)
  BY DEF Forward
<1>. QED
  BY <1>1 DEF SealerSound

\* Sequences of posted journals stay so.
LEMMA SeqGrows ==
  ASSUME NEW A, NEW B, A \subseteq B, NEW r \in Seq(A)
  PROVE  r \in Seq(B)
<1>1. Len(r) \in Nat /\ r \in [1 .. Len(r) -> A]
  BY LenProperties
<1>2. r \in [1 .. Len(r) -> B]
  BY <1>1
<1>. QED
  BY <1>1, <1>2

-----------------------------------------------------------------------------
(* Postings and sealers.                                                   *)

LEMMA InitBInv == Init => BInv
<1>. SUFFICES ASSUME Init PROVE BInv
  OBVIOUS
<1>1. TypeOK
  <2>1. IdleRun \in RunState
    BY DEF IdleRun, RunState, RunPc
  <2>2. run \in [Anchorers -> RunState]
    BY <2>1 DEF Init
  <2>3. \A s \in Sealers : sealing[s].pc = "idle" /\ sealing[s].rows = <<>>
    BY DEF Init, IdleSeal
  <2>4. /\ nextId = 1 /\ writing = {} /\ posted = {} /\ batches = {} /\ anchors = <<>>
        /\ DOMAIN sealing = Sealers /\ DOMAIN store = Anchorers /\ commands = 0 /\ crashes = 0
    BY DEF Init
  <2>5. <<>> \in Seq(AnchorRow) /\ Len(<<>>) = 0 /\ <<>> \in Seq({})
    BY EmptySeq
  <2>6. \A w \in Anchorers : DOMAIN store[w] = {}
    BY DEF Init
  <2>7. \A s \in Sealers : sealing[s].pc \in {"idle", "create"} /\ sealing[s].rows \in Seq(posted)
    BY <2>3, <2>4, <2>5
  <2>8. /\ nextId \in 1 .. MaxId + 1 /\ writing \cup posted \subseteq 1 .. nextId - 1
        /\ commands \in Nat /\ crashes \in Nat /\ Len(anchors) <= MaxAnchors
    BY <2>4, <2>5
  <2>. QED
    BY <2>2, <2>4, <2>5, <2>6, <2>7, <2>8 DEF TypeOK
<1>2. BatchesSound
  <2>1. {b.sequence : b \in batches} = 1 .. 0
    BY DEF Init
  <2>. QED
    BY <2>1 DEF Init, BatchesSound, BatchesInLine
<1>3. SealersSound /\ AnchorsKnown /\ CommandsSound /\ ConfirmedIsAnchored
  BY DEF Init, SealersSound, SealerSound, IdleSeal, AnchorsKnown, CommandsSound, CommandSound,
         ConfirmedIsAnchored, IdleRun
<1>. QED
  BY <1>1, <1>2, <1>3, BInvIs

\* More journals, the same batches.
LEMMA BatchesStay ==
  ASSUME BatchesSound, batches' = batches, posted \subseteq posted'
  PROVE  BatchesSound' /\ Sequences' = Sequences
BY DEF BatchesSound, BatchesInLine, BatchSound, Sequences

\* A step of the ledger or a sealer that inserts no batch and touches no anchor.
Quiet == UNCHANGED <<batches, anchors, store, run, commands, crashes>>

LEMMA QuietKeeps ==
  ASSUME BInv, Quiet, posted \subseteq posted'
  PROVE  /\ BatchesSound' /\ AnchorsKnown' /\ CommandsSound' /\ ConfirmedIsAnchored'
         /\ \A s \in Sealers : sealing'[s] = sealing[s] => SealerSound(s)'
<1>1. BatchesSound' /\ Sequences' = Sequences
  BY BInvIs, BatchesStay DEF Quiet
<1>2. Forward
  BY DEF Forward, Quiet
<1>3. \A a \in DOMAIN anchors : Anchored(a) => Anchored(a)'
  BY <1>1, <1>2, BInvIs, AnchoredStays DEF BatchesSound
<1>4. \A w \in Anchorers : CommandSound(w)'
  BY <1>1, <1>2, BInvIs, CommandStays DEF BatchesSound, CommandsSound, Quiet
<1>5. \A s \in Sealers : sealing'[s] = sealing[s] => SealerSound(s)'
  BY <1>2, BInvIs, SealerStays DEF SealersSound
<1>6. AnchorsKnown' /\ CommandsSound' /\ ConfirmedIsAnchored'
  BY <1>1, <1>3, <1>4, BInvIs DEF Quiet, AnchorsKnown, CommandsSound, ConfirmedIsAnchored, Anchored
<1>. QED
  BY <1>1, <1>5, <1>6

LEMMA PostingStep ==
  ASSUME BInv, InsertJournal \/ (\E i \in writing : CommitJournal(i) \/ RollBackJournal(i))
  PROVE  BInv'
<1>1. Quiet /\ sealing' = sealing /\ posted \subseteq posted'
  BY DEF InsertJournal, CommitJournal, RollBackJournal, Quiet, anchorVars
<1>2. /\ nextId' \in 1 .. MaxId + 1
      /\ writing' \cup posted' \subseteq 1 .. nextId' - 1
  <2>1. nextId \in 1 .. MaxId + 1 /\ writing \cup posted \subseteq 1 .. nextId - 1
    BY BInvIs DEF TypeOK
  <2>. QED
    BY <2>1 DEF InsertJournal, CommitJournal, RollBackJournal
<1>3. TypeOK'
  <2>1. TypeOK
    BY BInvIs
  <2>2. \A s \in Sealers : sealing'[s].rows \in Seq(posted')
    BY <1>1, <2>1, SeqGrows DEF TypeOK
  <2>. QED
    BY <1>1, <1>2, <2>1, <2>2 DEF TypeOK, Quiet
<1>4. SealersSound'
  BY <1>1, QuietKeeps DEF SealersSound
<1>5. BatchesSound' /\ AnchorsKnown' /\ CommandsSound' /\ ConfirmedIsAnchored'
  BY <1>1, QuietKeeps
<1>. QED
  BY <1>3, <1>4, <1>5, BInvNext

\* The last batch, or none.
LEMMA LastBatch ==
  ASSUME BatchesSound, TypeOK
  PROVE  LET last == {b \in batches : \A c \in batches : c.sequence <= b.sequence}
         IN \/ last = {} /\ batches = {}
            \/ \E x \in batches : last = {x} /\ Sequences = 1 .. x.sequence
<1>. DEFINE last == {b \in batches : \A c \in batches : c.sequence <= b.sequence}
<1>1. PICK n \in 0 .. MaxId : Sequences = 1 .. n
  BY DEF BatchesSound, BatchesInLine, Sequences
<1>2. CASE n = 0
  <2>1. batches = {}
    <3>1. Sequences = {}
      BY <1>1, <1>2
    <3>. QED
      BY <3>1 DEF Sequences
  <2>. QED
    BY <2>1
<1>3. CASE n # 0
  <2>1. PICK x \in batches : x.sequence = n
    BY <1>1, <1>3 DEF Sequences
  <2>2. \A c \in batches : c.sequence \in 1 .. n
    BY <1>1 DEF Sequences
  <2>3. \A c \in batches : c.sequence >= n => c = x
    BY <2>1, <2>2 DEF BatchesSound, BatchesInLine
  <2>4. last = {x}
    BY <2>1, <2>2, <2>3
  <2>. QED
    BY <1>1, <2>1, <2>4
<1>. QED
  BY <1>2, <1>3

LEMMA ReadStep ==
  ASSUME BInv, NEW s \in Sealers, ReadJournals(s)
  PROVE  BInv'
<1>. DEFINE last == {b \in batches : \A c \in batches : c.sequence <= b.sequence}
            ids == {i \in posted : i >= Lower(last)}
            rows == Selected(ids)
<1>1. /\ Quiet /\ posted' = posted /\ UNCHANGED ledgerVars /\ rows # <<>>
      /\ sealing' = [sealing EXCEPT ![s] = [pc |-> "create", last |-> last, rows |-> rows]]
  BY DEF ReadJournals, Quiet, ledgerVars, anchorVars
<1>2. TypeOK /\ BatchesSound /\ SealersSound
  BY BInvIs
<1>3. /\ \A t \in Sealers : t # s => sealing'[t] = sealing[t]
      /\ sealing'[s] = [pc |-> "create", last |-> last, rows |-> rows]
      /\ DOMAIN sealing' = Sealers
  <2>. HIDE DEF last, rows
  <2>. QED
    BY <1>1, <1>2 DEF TypeOK
<1>4. ids \in SUBSET Nat /\ IsFiniteSet(ids) /\ ids \subseteq posted
  <2>1. MaxId \in Int /\ ids \subseteq 1 .. MaxId
    BY <1>2 DEF TypeOK
  <2>2. IsFiniteSet(1 .. MaxId)
    BY FS_Interval
  <2>3. IsFiniteSet(ids)
    <3>. HIDE DEF ids
    <3>. QED
      BY <2>1, <2>2, FS_Subset, Zenon
  <2>. QED
    BY <2>1, <2>3
<1>5. /\ rows \in Seq(ids) /\ Len(rows) \in Nat \ {0}
      /\ rows = IdRun(rows[1], rows[1] + Len(rows) - 1)
      /\ rows[1] .. rows[1] + Len(rows) - 1 \subseteq ids
  <2>. HIDE DEF ids
  <2>. QED
    BY <1>1, <1>4, SelectedIs
<1>6. rows \in Seq(posted) /\ rows[1] \in ids
  <2>1. rows \in Seq(posted)
    <3>. HIDE DEF ids, rows
    <3>. QED
      BY <1>4, <1>5, SeqGrows
  <2>2. rows[1] \in ids
    <3>. HIDE DEF ids, rows
    <3>. QED
      BY <1>5, ElementOfSeq
  <2>. QED
    BY <2>1, <2>2
<1>7. last # {} => \E x \in last : /\ last = {x} /\ x.last < rows[1]
                                   /\ \E b \in batches : ManifestHash(b) = ManifestHash(x)
  <2>. SUFFICES ASSUME last # {}
                PROVE  \E x \in last : /\ last = {x} /\ x.last < rows[1]
                                       /\ \E b \in batches : ManifestHash(b) = ManifestHash(x)
    OBVIOUS
  <2>1. PICK x \in batches : last = {x}
    BY <1>2, LastBatch
  <2>2. Lower(last) = x.last + 1
    <3>. HIDE DEF last
    <3>. QED
      BY <2>1 DEF Lower
  <2>3. rows[1] >= x.last + 1 /\ rows[1] \in Nat /\ x.last \in Nat
    <3>1. rows[1] >= Lower(last) /\ rows[1] \in posted
      <4>. HIDE DEF rows, last
      <4>. QED
        BY <1>6
    <3>2. posted \subseteq Nat /\ x.last \in posted
      BY <1>2, <2>1 DEF TypeOK
    <3>. HIDE DEF rows, last
    <3>. QED
      BY <2>2, <3>1, <3>2
  <2>. HIDE DEF rows, last, ids
  <2>4. x.last < rows[1]
    BY <2>3
  <2>. QED
    BY <2>1, <2>4
<1>. HIDE DEF rows, last, ids
<1>8. SealerSound(s)'
  <2>1. batches' = batches
    BY <1>1 DEF Quiet
  <2>2. sealing'[s].last = last /\ sealing'[s].rows = rows
    BY <1>3
  <2>. QED
    BY <1>1, <1>5, <1>7, <2>1, <2>2 DEF SealerSound, ManifestHash, IdRun
<1>9. TypeOK'
  <2>1. \A t \in Sealers : sealing'[t].pc \in {"idle", "create"} /\ sealing'[t].rows \in Seq(posted')
    BY <1>1, <1>2, <1>3, <1>6 DEF TypeOK
  <2>. QED
    BY <1>1, <1>2, <1>3, <2>1 DEF TypeOK, Quiet, ledgerVars
<1>10. SealersSound'
  BY <1>1, <1>3, <1>8, QuietKeeps DEF SealersSound
<1>11. BatchesSound' /\ AnchorsKnown' /\ CommandsSound' /\ ConfirmedIsAnchored'
  BY <1>1, QuietKeeps
<1>. QED
  BY <1>9, <1>10, <1>11, BInvNext

\* A sealer that gives up, or whose insert is refused.
LEMMA IdleStep ==
  ASSUME BInv, NEW s \in Sealers, UNCHANGED <<ledgerVars, anchorVars, batches>>,
         sealing' = [sealing EXCEPT ![s] = IdleSeal]
  PROVE  BInv'
<1>1. Quiet /\ posted' = posted /\ UNCHANGED ledgerVars
  BY DEF Quiet, ledgerVars, anchorVars
<1>2. TypeOK
  BY BInvIs
<1>3. /\ \A t \in Sealers : t # s => sealing'[t] = sealing[t]
      /\ sealing'[s] = IdleSeal
      /\ DOMAIN sealing' = Sealers
  BY <1>2 DEF TypeOK
<1>4. SealerSound(s)'
  BY <1>3 DEF SealerSound, IdleSeal
<1>5. SealersSound'
  BY <1>1, <1>3, <1>4, QuietKeeps DEF SealersSound
<1>6. TypeOK'
  <2>1. IdleSeal.pc = "idle" /\ IdleSeal.rows \in Seq(posted)
    BY EmptySeq DEF IdleSeal
  <2>2. \A t \in Sealers : sealing'[t].pc \in {"idle", "create"} /\ sealing'[t].rows \in Seq(posted)
    BY <1>2, <1>3, <2>1 DEF TypeOK
  <2>. QED
    BY <1>1, <1>2, <1>3, <2>2 DEF TypeOK, Quiet, ledgerVars
<1>7. BatchesSound' /\ AnchorsKnown' /\ CommandsSound' /\ ConfirmedIsAnchored'
  BY <1>1, QuietKeeps
<1>. QED
  BY <1>5, <1>6, <1>7, BInvNext

\* What commands know survives new batches and new states of batches.
LEMMA CommandsKeep ==
  ASSUME BInv, Forward, BatchesSound', UNCHANGED <<anchors, store, run>>
  PROVE  AnchorsKnown' /\ CommandsSound' /\ ConfirmedIsAnchored'
<1>1. Sequences \subseteq Sequences'
  BY SequencesStay
<1>2. BatchesSound /\ AnchorsKnown /\ CommandsSound /\ ConfirmedIsAnchored
  BY BInvIs
<1>3. \A a \in DOMAIN anchors : Anchored(a) => Anchored(a)'
  BY <1>2, AnchoredStays DEF BatchesSound
<1>4. \A w \in Anchorers : CommandSound(w)'
  BY <1>2, CommandStays DEF BatchesSound, CommandsSound
<1>5. AnchorsKnown'
  BY <1>1, <1>2 DEF AnchorsKnown
<1>6. CommandsSound'
  BY <1>1, <1>2, <1>4 DEF CommandsSound
<1>7. ConfirmedIsAnchored'
  BY <1>2, <1>3 DEF ConfirmedIsAnchored, Anchored
<1>. QED
  BY <1>5, <1>6, <1>7

\* The batch a sealer inserts continues the chain.
LEMMA NewBatchIs ==
  ASSUME BInv, NEW s \in Sealers, sealing[s].pc = "create", NEW n \in 0 .. MaxId, Sequences = 1 .. n,
         NewBatch(s).sequence \notin Sequences
  PROVE  LET b == NewBatch(s)
         IN /\ b.sequence = n + 1 /\ n + 1 <= b.first /\ b.first <= b.last
            /\ b.first \in posted /\ b.last \in posted /\ b.first .. b.last \subseteq posted
            /\ b.root = MerkleRoot(IdRun(b.first, b.last)) /\ b.count = b.last - b.first + 1
            /\ n = 0 => b.previous = <<>>
            /\ n > 0 => \E y \in batches : /\ y.sequence = n /\ b.previous = ManifestHash(y)
                                           /\ y.last < b.first
<1>. DEFINE b == NewBatch(s)
            last == sealing[s].last
            rows == sealing[s].rows
<1>1. TypeOK /\ BatchesSound /\ SealersSound
  BY BInvIs
<1>2. /\ rows \in Seq(posted) /\ rows # <<>> /\ rows = IdRun(rows[1], rows[1] + Len(rows) - 1)
      /\ last # {} => \E x \in last : /\ last = {x} /\ x.last < rows[1]
                                      /\ \E y \in batches : ManifestHash(y) = ManifestHash(x)
  BY <1>1 DEF TypeOK, SealersSound, SealerSound
<1>3. /\ b.sequence = IF last = {} THEN 1 ELSE (CHOOSE x \in last : TRUE).sequence + 1
      /\ b.first = rows[1] /\ b.last = Last(rows) /\ b.root = MerkleRoot(rows)
      /\ b.count = Len(rows)
      /\ b.previous = IF last = {} THEN <<>> ELSE ManifestHash(CHOOSE x \in last : TRUE)
  BY DEF NewBatch
<1>4. posted \subseteq Nat /\ \A i \in posted : i >= 1
  BY <1>1 DEF TypeOK
<1>. HIDE DEF b, rows, last
<1>5. PICK m \in Nat \ {0} : Len(rows) = m
  <2>1. Len(rows) \in Nat /\ Len(rows) # 0
    BY <1>2, EmptySeq
  <2>. QED
    BY <2>1
<1>6. /\ rows[1] \in posted /\ rows[m] \in posted /\ Last(rows) = rows[m]
      /\ \A k \in 1 .. m : rows[k] \in posted
  BY <1>2, <1>5 DEF Last
<1>7. PICK f \in Nat : f = rows[1] /\ f >= 1
  BY <1>4, <1>6
<1>8. rows = [k \in 1 .. m |-> f + k - 1] /\ rows = IdRun(f, f + m - 1)
  <2>1. f + m - 1 - f + 1 = m
    OBVIOUS
  <2>2. rows = IdRun(f, f + m - 1)
    BY <1>2, <1>5, <1>7
  <2>3. IdRun(f, f + m - 1) = [k \in 1 .. m |-> f + k - 1]
    BY <2>1 DEF IdRun
  <2>. QED
    BY <2>2, <2>3
<1>9. b.last = f + m - 1 /\ b.first = f
  <2>1. rows[m] = f + m - 1
    BY <1>8
  <2>. QED
    BY <2>1, <1>3, <1>6, <1>7
<1>10. b.first .. b.last \subseteq posted /\ b.first <= b.last
  <2>1. ASSUME NEW x \in f .. f + m - 1 PROVE x \in posted
    <3>1. x - f + 1 \in 1 .. m /\ f + (x - f + 1) - 1 = x
      OBVIOUS
    <3>2. rows[x - f + 1] = x
      BY <1>8, <3>1
    <3>. QED
      BY <1>6, <3>1, <3>2
  <2>. QED
    BY <1>9, <2>1
<1>11. /\ b.first \in posted /\ b.last \in posted /\ b.first \in Nat /\ b.first >= 1
       /\ b.root = MerkleRoot(IdRun(b.first, b.last))
       /\ b.count = b.last - b.first + 1
  <2>1. b.count = b.last - b.first + 1
    BY <1>3, <1>5, <1>9
  <2>. QED
    BY <1>3, <1>6, <1>8, <1>9, <1>7, <2>1
<1>12. /\ b.sequence = n + 1 /\ n + 1 <= b.first
       /\ n = 0 => b.previous = <<>>
       /\ n > 0 => \E y \in batches : /\ y.sequence = n /\ b.previous = ManifestHash(y)
                                      /\ y.last < b.first
  <2>1. CASE last = {}
    <3>1. b.sequence = 1 /\ b.previous = <<>>
      BY <1>3, <2>1
    <3>2. n = 0
      BY <3>1 DEF b
    <3>3. 1 <= b.first
      BY <1>4, <1>11
    <3>. QED
      BY <3>1, <3>2, <3>3
  <2>2. CASE last # {}
    <3>1. PICK x \in last : /\ last = {x} /\ x.last < rows[1]
                            /\ \E y \in batches : ManifestHash(y) = ManifestHash(x)
      BY <1>2, <2>2
    <3>2. PICK y \in batches : ManifestHash(y) = ManifestHash(x)
      BY <3>1
    <3>3. y.sequence = x.sequence /\ y.last = x.last
      BY <3>2, ManifestFields
    <3>4. (CHOOSE z \in last : TRUE) = x
      BY <3>1
    <3>5. b.sequence = y.sequence + 1 /\ b.previous = ManifestHash(y)
      BY <1>3, <2>2, <3>2, <3>3, <3>4
    <3>6. y.sequence \in 1 .. n
      BY DEF Sequences
    <3>7. y.sequence = n
      BY <3>5, <3>6 DEF b
    <3>8. y.sequence <= y.first /\ y.first <= y.last /\ y.first \in posted /\ y.last \in posted
      BY <1>1 DEF BatchesSound, BatchSound, TypeOK
    <3>9. n + 1 <= b.first /\ y.last < b.first
      <4>1. y.last < b.first
        BY <1>3, <3>1, <3>3
      <4>2. y.first \in Nat /\ y.last \in Nat
        BY <1>4, <3>8
      <4>. QED
        BY <1>11, <3>7, <3>8, <4>1, <4>2
    <3>10. n > 0
      BY <3>6
    <3>. QED
      BY <3>5, <3>7, <3>9, <3>10
  <2>. QED
    BY <2>1, <2>2
<1>. QED
  BY <1>10, <1>11, <1>12 DEF b

LEMMA InsertedStep ==
  ASSUME BInv, NEW s \in Sealers, sealing[s].pc = "create", UNCHANGED <<ledgerVars, anchorVars>>,
         ~\E b \in batches : b.sequence = NewBatch(s).sequence,
         batches' = batches \cup {NewBatch(s)}, sealing' = [sealing EXCEPT ![s] = IdleSeal]
  PROVE  BInv'
<1>1. TypeOK /\ BatchesSound /\ SealersSound
  BY BInvIs
<1>2. PICK n \in 0 .. MaxId : Sequences = 1 .. n
  BY <1>1 DEF BatchesSound, BatchesInLine, Sequences
<1>3. NewBatch(s).sequence \notin Sequences
  BY DEF Sequences
<1>4. PICK b : b = NewBatch(s)
  OBVIOUS
<1>5. /\ b.sequence = n + 1 /\ n + 1 <= b.first /\ b.first <= b.last
      /\ b.first \in posted /\ b.last \in posted /\ b.first .. b.last \subseteq posted
      /\ b.root = MerkleRoot(IdRun(b.first, b.last))
      /\ n = 0 => b.previous = <<>>
      /\ n > 0 => \E y \in batches : /\ y.sequence = n /\ b.previous = ManifestHash(y)
                                     /\ y.last < b.first
  BY <1>2, <1>3, <1>4, NewBatchIs
<1>6. /\ b = [sequence |-> b.sequence, first |-> b.first, last |-> b.last, count |-> b.count,
              root |-> b.root, previous |-> b.previous, status |-> b.status, key |-> b.key]
      /\ b.status = "SEALED" /\ b.key = s
  BY <1>4 DEF NewBatch
<1>7. batches' = batches \cup {b} /\ posted' = posted /\ UNCHANGED ledgerVars
  BY <1>4 DEF ledgerVars
<1>8. /\ posted \subseteq 1 .. MaxId /\ posted \subseteq Nat
      /\ \A c \in batches : c.first \in posted /\ c.last \in posted /\ c.first <= c.last
      /\ \A c \in batches : c.sequence \in 1 .. n
  <2>1. \A c \in batches : c.sequence \in 1 .. n
    BY <1>2 DEF Sequences
  <2>2. nextId - 1 <= MaxId /\ nextId \in Nat
    BY <1>1 DEF TypeOK
  <2>3. posted \subseteq 1 .. nextId - 1
    BY <1>1 DEF TypeOK
  <2>4. posted \subseteq 1 .. MaxId
    BY <2>2, <2>3
  <2>. QED
    BY <1>1, <2>1, <2>4 DEF TypeOK, BatchesSound, BatchSound
<1>9. n + 1 \in 1 .. MaxId /\ n \in Nat
  <2>1. PICK f \in 1 .. MaxId : f = b.first
    BY <1>5, <1>8
  <2>2. n + 1 <= f
    BY <1>5, <2>1
  <2>. QED
    BY <2>2
<1>10. \A c \in batches : c.last < b.first
  <2>. SUFFICES ASSUME NEW c \in batches PROVE c.last < b.first
    OBVIOUS
  <2>1. n > 0
    BY <1>8
  <2>2. PICK y \in batches : y.sequence = n /\ y.last < b.first
    BY <1>5, <2>1
  <2>3. c.sequence = y.sequence => c = y
    BY <1>1 DEF BatchesSound, BatchesInLine
  <2>4. c.sequence < y.sequence => c.last < y.first
    BY <1>1 DEF BatchesSound, BatchesInLine
  <2>5. c.last \in Nat /\ y.first \in Nat /\ y.last \in Nat /\ b.first \in Nat /\ y.first <= y.last
    BY <1>5, <1>8
  <2>6. c.sequence \in 1 .. n
    BY <1>8
  <2>. QED
    BY <1>9, <2>2, <2>3, <2>4, <2>5, <2>6
<1>11. Sequences' = 1 .. n + 1
  <2>1. Sequences' = Sequences \cup {n + 1}
    BY <1>5, <1>7 DEF Sequences
  <2>. QED
    BY <1>2, <1>9, <2>1
<1>12. BatchesInLine'
  <2>1. ASSUME NEW c \in batches', NEW d \in batches'
        PROVE  /\ c.sequence = d.sequence => c = d
               /\ c.sequence < d.sequence => c.last < d.first
    <3>1. CASE c \in batches /\ d \in batches
      BY <1>1, <3>1 DEF BatchesSound, BatchesInLine
    <3>2. CASE c = b /\ d \in batches
      BY <1>5, <1>8, <1>9, <3>2
    <3>3. CASE c \in batches /\ d = b
      BY <1>5, <1>8, <1>9, <1>10, <3>3
    <3>4. CASE c = b /\ d = b
      BY <1>5, <1>9, <3>4
    <3>. QED
      BY <1>7, <3>1, <3>2, <3>3, <3>4
  <2>2. \E m \in 0 .. MaxId : Sequences' = 1 .. m
    BY <1>9, <1>11
  <2>. QED
    BY <2>1, <2>2 DEF BatchesInLine, Sequences
<1>13. \A c \in batches' : BatchSound(c)'
  <2>1. ASSUME NEW c \in batches PROVE BatchSound(c)'
    <3>1. BatchSound(c)
      BY <1>1 DEF BatchesSound
    <3>. QED
      BY <1>7, <3>1 DEF BatchSound, ManifestHash, IdRun
  <2>2. BatchSound(b)'
    <3>1. b.sequence = 1 => b.previous = <<>>
      BY <1>5, <1>9
    <3>2. b.sequence > 1 => \E c \in batches' : c.sequence = b.sequence - 1 /\ b.previous = ManifestHash(c)
      <4>. SUFFICES ASSUME b.sequence > 1
                    PROVE  \E c \in batches' : c.sequence = b.sequence - 1 /\ b.previous = ManifestHash(c)
        OBVIOUS
      <4>1. n > 0 /\ b.sequence - 1 = n
        BY <1>5, <1>9
      <4>. QED
        BY <1>5, <1>7, <4>1
    <3>3. b.sequence <= b.first /\ b.first <= b.last
      BY <1>5
    <3>4. b.first .. b.last \subseteq posted'
      BY <1>5, <1>7
    <3>. QED
      BY <1>5, <1>6, <3>1, <3>2, <3>3, <3>4 DEF BatchSound, ManifestHash, IdRun
  <2>. QED
    BY <1>7, <2>1, <2>2
<1>14. BatchesSound'
  BY <1>12, <1>13 DEF BatchesSound
<1>15. UNCHANGED <<anchors, store, run, commands, crashes>>
  BY DEF anchorVars
<1>16. Forward
  BY <1>7, <1>15 DEF Forward
<1>17. AnchorsKnown' /\ CommandsSound' /\ ConfirmedIsAnchored'
  BY <1>14, <1>15, <1>16, CommandsKeep
<1>18. /\ \A t \in Sealers : t # s => sealing'[t] = sealing[t]
       /\ sealing'[s] = IdleSeal
       /\ DOMAIN sealing' = Sealers
  BY <1>1 DEF TypeOK
<1>19. SealersSound'
  <2>1. SealerSound(s)'
    BY <1>18 DEF SealerSound, IdleSeal
  <2>2. \A t \in Sealers : t # s => SealerSound(t)'
    BY <1>1, <1>16, <1>18, SealerStays DEF SealersSound
  <2>. QED
    BY <2>1, <2>2 DEF SealersSound
<1>20. TypeOK'
  <2>1. IdleSeal.pc = "idle" /\ IdleSeal.rows \in Seq(posted)
    BY EmptySeq DEF IdleSeal
  <2>2. \A t \in Sealers : sealing'[t].pc \in {"idle", "create"} /\ sealing'[t].rows \in Seq(posted)
    BY <1>1, <1>18, <2>1 DEF TypeOK
  <2>3. \A c \in batches' : /\ c.first \in posted /\ c.last \in posted
                            /\ c.sequence \in 1 .. MaxId /\ c.key \in Sealers
                            /\ c.status \in {"SEALED", "ANCHORED"}
    BY <1>1, <1>5, <1>6, <1>7, <1>9 DEF TypeOK
  <2>. QED
    BY <1>1, <1>7, <1>15, <1>18, <2>2, <2>3 DEF TypeOK, ledgerVars
<1>. QED
  BY <1>14, <1>17, <1>19, <1>20, BInvNext

LEMMA SealStep ==
  ASSUME BInv, NEW s \in Sealers, Seal(s)
  PROVE  BInv'
<1>1. CASE ReadJournals(s)
  BY <1>1, ReadStep
<1>2. CASE CreateBatch(s)
  <2>1. CASE \E b \in batches : b.sequence = NewBatch(s).sequence
    BY <1>2, <2>1, IdleStep DEF CreateBatch
  <2>2. CASE ~\E b \in batches : b.sequence = NewBatch(s).sequence
    BY <1>2, <2>2, InsertedStep DEF CreateBatch
  <2>. QED
    BY <2>1, <2>2
<1>3. CASE AbortSeal(s)
  BY <1>3, IdleStep DEF AbortSeal
<1>. QED
  BY <1>1, <1>2, <1>3 DEF Seal

-----------------------------------------------------------------------------
(* Anchoring commands.                                                     *)

LEMMA AnchorTypes ==
  ASSUME BInv
  PROVE  /\ \A a \in DOMAIN anchors : a \in 1 .. MaxAnchors /\ anchors[a] \in AnchorRow
         /\ DOMAIN anchors = 1 .. Len(anchors) /\ Len(anchors) \in 0 .. MaxAnchors
         /\ Sequences \subseteq 1 .. MaxId
         /\ \A w \in Anchorers : run[w] \in RunState
         /\ \A n \in Sequences : Batch(n) \in batches /\ Batch(n).sequence = n
<1>1. TypeOK /\ BatchesSound
  BY BInvIs
<1>2. anchors \in Seq(AnchorRow) /\ Len(anchors) <= MaxAnchors
  BY <1>1 DEF TypeOK
<1>3. /\ DOMAIN anchors = 1 .. Len(anchors) /\ Len(anchors) \in Nat
      /\ \A a \in 1 .. Len(anchors) : anchors[a] \in AnchorRow
  BY <1>2
<1>4. Len(anchors) \in 0 .. MaxAnchors /\ \A a \in 1 .. Len(anchors) : a \in 1 .. MaxAnchors
  BY <1>2, <1>3
<1>5. Sequences \subseteq 1 .. MaxId /\ \A w \in Anchorers : run[w] \in RunState
  BY <1>1 DEF TypeOK, Sequences
<1>6. \A n \in Sequences : Batch(n) \in batches /\ Batch(n).sequence = n
  BY <1>1, BatchFound DEF BatchesSound
<1>. QED
  BY <1>3, <1>4, <1>5, <1>6

\* A step of the command in w which respects the anchors.
LEMMA AnchoringKeeps ==
  ASSUME BInv, NEW w \in Anchorers, UNCHANGED <<ledgerVars, batches, sealing>>,
         anchors' \in Seq(AnchorRow), Len(anchors') <= MaxAnchors,
         \A a \in DOMAIN anchors : a \in DOMAIN anchors' /\ anchors'[a].batch = anchors[a].batch,
         \A a \in DOMAIN anchors' : anchors'[a].batch \in Sequences,
         \A a \in DOMAIN anchors' : anchors'[a].status = "CONFIRMED" =>
            Batch(anchors'[a].batch).status = "ANCHORED",
         DOMAIN store' = Anchorers, DOMAIN store'[w] \subseteq Sequences,
         \A v \in Anchorers \ {w} : store'[v] = store[v],
         NEW r \in RunState, run' = [run EXCEPT ![w] = r], CommandSound(w)',
         commands' \in Nat, crashes' \in Nat
  PROVE  BInv'
<1>1. TypeOK /\ BatchesSound /\ SealersSound /\ AnchorsKnown /\ CommandsSound
  BY BInvIs
<1>2. UNCHANGED <<nextId, writing, posted, batches, sealing>>
  BY DEF ledgerVars
<1>3. BatchesSound' /\ Sequences' = Sequences
  BY <1>1, <1>2, BatchesStay
<1>4. Forward
  BY <1>2 DEF Forward
<1>5. SealersSound'
  BY <1>1, <1>2, <1>4, SealerStays DEF SealersSound
<1>6. AnchorsKnown'
  BY <1>3 DEF AnchorsKnown
<1>7. ConfirmedIsAnchored'
  BY <1>2 DEF ConfirmedIsAnchored, Batch
<1>8. run' \in [Anchorers -> RunState] /\ \A v \in Anchorers \ {w} : run'[v] = run[v]
  BY <1>1 DEF TypeOK
<1>9. CommandsSound'
  <2>1. \A v \in Anchorers \ {w} : CommandSound(v)'
    BY <1>1, <1>3, <1>4, <1>8, CommandStays DEF BatchesSound, CommandsSound
  <2>2. \A v \in Anchorers : DOMAIN store'[v] \subseteq Sequences
    BY <1>1 DEF CommandsSound
  <2>. QED
    BY <1>3, <2>1, <2>2 DEF CommandsSound
<1>10. TypeOK'
  <2>1. \A v \in Anchorers : DOMAIN store'[v] \subseteq 1 .. MaxId
    BY <1>1, AnchorTypes DEF CommandsSound
  <2>. QED
    BY <1>1, <1>2, <1>8, <2>1 DEF TypeOK
<1>. QED
  BY <1>3, <1>5, <1>6, <1>7, <1>9, <1>10, BInvNext

\* One that touches neither anchors nor store.
LEMMA CommandMoves ==
  ASSUME BInv, NEW w \in Anchorers, UNCHANGED <<ledgerVars, batches, sealing, anchors, store>>,
         NEW r \in RunState, run' = [run EXCEPT ![w] = r], CommandSound(w)',
         commands' \in Nat, crashes' \in Nat
  PROVE  BInv'
<1>1. TypeOK /\ AnchorsKnown /\ CommandsSound /\ ConfirmedIsAnchored
  BY BInvIs
<1>2. anchors' \in Seq(AnchorRow) /\ Len(anchors') <= MaxAnchors /\ DOMAIN store' = Anchorers
  BY <1>1 DEF TypeOK
<1>3. \A a \in DOMAIN anchors' : anchors'[a].batch \in Sequences
  BY <1>1 DEF AnchorsKnown
<1>4. \A a \in DOMAIN anchors' : anchors'[a].status = "CONFIRMED" =>
        Batch(anchors'[a].batch).status = "ANCHORED"
  BY <1>1 DEF ConfirmedIsAnchored
<1>5. DOMAIN store'[w] \subseteq Sequences
  BY <1>1 DEF CommandsSound
<1>. QED
  BY <1>2, <1>3, <1>4, <1>5, AnchoringKeeps

\* One that rewrites an anchor row.
LEMMA AnchorMoves ==
  ASSUME BInv, NEW w \in Anchorers, UNCHANGED <<ledgerVars, batches, sealing>>,
         NEW a \in DOMAIN anchors, NEW row \in AnchorRow, anchors' = [anchors EXCEPT ![a] = row],
         row.batch = anchors[a].batch, row.status = "CONFIRMED" => Anchored(a),
         DOMAIN store' = Anchorers, DOMAIN store'[w] \subseteq Sequences,
         \A v \in Anchorers \ {w} : store'[v] = store[v],
         NEW r \in RunState, run' = [run EXCEPT ![w] = r], CommandSound(w)',
         commands' \in Nat, crashes' \in Nat
  PROVE  BInv'
<1>1. TypeOK /\ AnchorsKnown /\ ConfirmedIsAnchored
  BY BInvIs
<1>2. anchors' \in Seq(AnchorRow) /\ Len(anchors') = Len(anchors)
  <2>1. anchors \in Seq(AnchorRow) /\ a \in 1 .. Len(anchors)
    BY <1>1 DEF TypeOK
  <2>. QED
    BY <2>1, ExceptSeq
<1>3. /\ DOMAIN anchors' = DOMAIN anchors
      /\ \A c \in DOMAIN anchors : anchors'[c] = IF c = a THEN row ELSE anchors[c]
  OBVIOUS
<1>4. Len(anchors') <= MaxAnchors
  BY <1>1, <1>2 DEF TypeOK
<1>5. \A c \in DOMAIN anchors' : anchors'[c].batch \in Sequences
  BY <1>1, <1>3 DEF AnchorsKnown
<1>6. \A c \in DOMAIN anchors' : anchors'[c].status = "CONFIRMED" =>
        Batch(anchors'[c].batch).status = "ANCHORED"
  BY <1>1, <1>3 DEF ConfirmedIsAnchored, Anchored
<1>7. \A c \in DOMAIN anchors : c \in DOMAIN anchors' /\ anchors'[c].batch = anchors[c].batch
  BY <1>3
<1>. QED
  BY <1>2, <1>4, <1>5, <1>6, <1>7, AnchoringKeeps

\* A command that is over.
LEMMA OverStep ==
  ASSUME NEW w, run'[w] = IdleRun
  PROVE  CommandSound(w)'
BY DEF CommandSound, IdleRun

LEMMA IdleRunType == IdleRun \in RunState
BY DEF IdleRun, RunState, RunPc

\* A step of the command in w: its types, its new place, and what it knew.
LEMMA Knows ==
  ASSUME BInv, NEW w \in Anchorers
  PROVE  /\ run[w] \in RunState /\ CommandSound(w) /\ DOMAIN run = Anchorers
         /\ DOMAIN store = Anchorers /\ DOMAIN store[w] \subseteq Sequences
         /\ commands \in Nat /\ crashes \in Nat /\ anchors \in Seq(AnchorRow)
         /\ Len(anchors) <= MaxAnchors
BY BInvIs DEF TypeOK, CommandsSound

LEMMA StartStep == ASSUME BInv, NEW w \in Anchorers, StartCommand(w) PROVE BInv'
<1>. DEFINE T == {b.sequence : b \in {c \in batches : c.status = "SEALED"}}
            r == [IdleRun EXCEPT !.pc = "submit", !.todo = T]
<1>1. T \subseteq Sequences /\ Sequences \subseteq 1 .. MaxId
  BY AnchorTypes DEF Sequences
<1>2. UNCHANGED <<ledgerVars, batches, sealing, anchors, store, crashes>> /\ run' = [run EXCEPT ![w] = r]
  BY DEF StartCommand, Goto
<1>3. commands' \in Nat /\ crashes' \in Nat
  BY Knows, <1>2 DEF StartCommand
<1>. HIDE DEF T
<1>4. r.pc = "submit" /\ r.todo = T
  BY DEF IdleRun
<1>5. r \in RunState
  <2>1. T \in SUBSET (1 .. MaxId + MaxAnchors)
    BY <1>1
  <2>. QED
    BY <2>1, IdleRunType DEF RunState, RunPc
<1>. HIDE DEF r
<1>6. run'[w] = r /\ Sequences' = Sequences
  BY <1>2, Knows DEF Sequences
<1>7. CommandSound(w)'
  BY <1>1, <1>4, <1>6 DEF CommandSound
<1>. QED
  BY <1>2, <1>3, <1>5, <1>7, CommandMoves

LEMMA CheckStep == ASSUME BInv, NEW w \in Anchorers, NEW n \in run[w].todo, CheckAnchors(w, n) PROVE BInv'
<1>. DEFINE r == IF \E a \in DOMAIN anchors : anchors[a].batch = n
                   THEN [run[w] EXCEPT !.todo = @ \ {n}]
                   ELSE [run[w] EXCEPT !.pc = "find", !.cur = n]
<1>1. /\ UNCHANGED <<ledgerVars, batches, sealing, anchors, store, commands, crashes>>
      /\ run' = [run EXCEPT ![w] = r] /\ run[w].pc = "submit"
  BY DEF CheckAnchors, Goto
<1>2. commands' \in Nat /\ crashes' \in Nat
  BY Knows, <1>1
<1>3. run[w].todo \subseteq Sequences /\ Sequences \subseteq 1 .. MaxId /\ run[w] \in RunState
  BY Knows, AnchorTypes, <1>1 DEF CommandSound
<1>4. \/ r = [run[w] EXCEPT !.todo = @ \ {n}]
      \/ r = [run[w] EXCEPT !.pc = "find", !.cur = n]
  OBVIOUS
<1>. HIDE DEF r
<1>5. run'[w] = r /\ Sequences' = Sequences
  BY <1>1, Knows DEF Sequences
<1>6. n \in Sequences /\ n \in 1 .. MaxId
  BY <1>3
<1>7. r \in RunState
  <2>1. n \in 0 .. MaxId + MaxAnchors
    BY <1>6
  <2>. QED
    BY <1>3, <1>4, <2>1 DEF RunState, RunPc
<1>8. /\ r.pc \in {"submit", "find"} /\ r.todo \subseteq Sequences
      /\ r.pc = "find" => r.cur \in Sequences
  BY <1>1, <1>3, <1>4, <1>6 DEF RunState
<1>9. CommandSound(w)'
  BY <1>5, <1>8 DEF CommandSound
<1>. QED
  BY <1>1, <1>2, <1>7, <1>9, CommandMoves

\* The live anchor of a batch is one of its anchors.
LEMMA LiveAnchorIs ==
  ASSUME BInv, NEW n, LiveAnchor(n) # 0
  PROVE  LiveAnchor(n) \in DOMAIN anchors /\ anchors[LiveAnchor(n)].batch = n
<1>. DEFINE live == {a \in DOMAIN anchors : anchors[a].batch = n /\ anchors[a].status # "SUPERSEDED"}
<1>1. live # {} /\ LiveAnchor(n) = Min(live)
  BY DEF LiveAnchor
<1>2. live \subseteq Nat
  BY AnchorTypes
<1>3. \E x \in live : \A y \in live : x <= y
  <2>. HIDE DEF live
  <2>. QED
    BY <1>1, <1>2, LeastNumber
<1>4. Min(live) \in live
  BY <1>3 DEF Min
<1>. QED
  BY <1>1, <1>4

\* What a command that goes on with its next batch keeps.
LEMMA SkipIs ==
  ASSUME BInv, NEW w \in Anchorers, run[w].pc \in {"find", "insert", "send", "sent", "refused"}
  PROVE  /\ Skip(w) \in RunState /\ [Skip(w) EXCEPT !.ref = 0] \in RunState
         /\ Skip(w).pc = "submit" /\ Skip(w).todo \subseteq Sequences
         /\ [Skip(w) EXCEPT !.ref = 0].pc = "submit" /\ [Skip(w) EXCEPT !.ref = 0].todo \subseteq Sequences
<1>1. run[w] \in RunState /\ run[w].todo \subseteq Sequences /\ Sequences \subseteq 1 .. MaxId
  BY Knows, AnchorTypes DEF CommandSound
<1>2. 0 \in 0 .. MaxId + MaxAnchors /\ 0 \in 0 .. MaxAnchors
  OBVIOUS
<1>3. Skip(w) \in RunState /\ Skip(w).pc = "submit" /\ Skip(w).todo = run[w].todo \ {run[w].cur}
  BY <1>1, <1>2 DEF Skip, RunState, RunPc
<1>4. PICK s \in RunState : s = Skip(w)
  BY <1>3
<1>5. [s EXCEPT !.ref = 0] \in RunState /\ [s EXCEPT !.ref = 0].pc = s.pc /\ [s EXCEPT !.ref = 0].todo = s.todo
  BY <1>2 DEF RunState
<1>. QED
  BY <1>1, <1>3, <1>4, <1>5

LEMMA FindStep == ASSUME BInv, NEW w \in Anchorers, FindExisting(w) PROVE BInv'
<1>. DEFINE a == LiveAnchor(run[w].cur)
            r == [run[w] EXCEPT !.pc = "insert"]
<1>1. /\ UNCHANGED <<ledgerVars, batches, sealing, store, commands, crashes>>
      /\ run[w].pc = "find"
  BY DEF FindExisting
<1>2. commands' \in Nat /\ crashes' \in Nat
  BY Knows, <1>1
<1>3. /\ run[w].todo \subseteq Sequences /\ run[w].cur \in Sequences
      /\ run[w] \in RunState /\ Sequences' = Sequences
  BY Knows, AnchorTypes, <1>1 DEF CommandSound, Sequences
<1>4. r \in RunState /\ r.pc = "insert" /\ r.todo = run[w].todo /\ r.cur = run[w].cur
  BY <1>3 DEF RunState, RunPc
<1>5. run' = [run EXCEPT ![w] = r] => CommandSound(w)'
  <2>. HIDE DEF r
  <2>. SUFFICES ASSUME run' = [run EXCEPT ![w] = r] PROVE CommandSound(w)'
    OBVIOUS
  <2>1. run'[w] = r
    BY Knows
  <2>. QED
    BY <2>1, <1>3, <1>4 DEF CommandSound
<1>. HIDE DEF r
<1>6. CASE anchors' = anchors /\ run' = [run EXCEPT ![w] = r]
  BY <1>1, <1>2, <1>4, <1>5, <1>6, CommandMoves
<1>7. CASE anchors' = anchors /\ run' = [run EXCEPT ![w] = Skip(w)]
  <2>1. /\ Skip(w) \in RunState /\ Skip(w).pc = "submit" /\ Skip(w).todo \subseteq Sequences
    BY <1>1, SkipIs
  <2>2. run'[w] = Skip(w)
    BY <1>7, Knows
  <2>3. CommandSound(w)'
    BY <2>1, <2>2, <1>3 DEF CommandSound
  <2>. QED
    BY <1>1, <1>2, <1>7, <2>1, <2>3, CommandMoves
<1>8. CASE /\ a # 0 /\ anchors' = [anchors EXCEPT ![a].status = "SUPERSEDED"]
           /\ run' = [run EXCEPT ![w] = r]
  <2>. DEFINE row == [anchors[a] EXCEPT !.status = "SUPERSEDED"]
  <2>1. a \in DOMAIN anchors /\ anchors[a] \in AnchorRow
    BY <1>8, LiveAnchorIs, AnchorTypes
  <2>2. row \in AnchorRow /\ row.batch = anchors[a].batch /\ row.status = "SUPERSEDED"
    BY <2>1 DEF AnchorRow, AnchorStatus
  <2>3. anchors' = [anchors EXCEPT ![a] = row]
    BY <1>8
  <2>4. /\ DOMAIN store' = Anchorers /\ DOMAIN store'[w] \subseteq Sequences
        /\ \A v \in Anchorers \ {w} : store'[v] = store[v]
    BY <1>1, Knows
  <2>. HIDE DEF row, a
  <2>. QED
    BY <1>1, <1>2, <1>4, <1>5, <1>8, <2>1, <2>2, <2>3, <2>4, AnchorMoves
<1>. QED
  BY <1>6, <1>7, <1>8 DEF FindExisting, Goto, r

LEMMA InsertStep == ASSUME BInv, NEW w \in Anchorers, InsertAnchor(w) PROVE BInv'
<1>. DEFINE row == [batch |-> run[w].cur, status |-> "CREATED", ref |-> 0]
            r == [run[w] EXCEPT !.pc = "send", !.ref = Len(anchors) + 1]
<1>1. /\ UNCHANGED <<ledgerVars, batches, sealing, store, commands, crashes>>
      /\ run[w].pc = "insert" /\ Len(anchors) < MaxAnchors
      /\ anchors' = Append(anchors, row) /\ run' = [run EXCEPT ![w] = r]
  BY DEF InsertAnchor, Goto
<1>2. /\ commands' \in Nat /\ crashes' \in Nat
      /\ anchors \in Seq(AnchorRow) /\ ConfirmedIsAnchored /\ AnchorsKnown
      /\ DOMAIN store' = Anchorers /\ DOMAIN store'[w] \subseteq Sequences
      /\ \A v \in Anchorers \ {w} : store'[v] = store[v]
  BY Knows, BInvIs, <1>1
<1>3. /\ run[w].todo \subseteq Sequences /\ run[w].cur \in Sequences /\ Sequences \subseteq 1 .. MaxId
      /\ run[w] \in RunState /\ Sequences' = Sequences
  BY Knows, AnchorTypes, <1>1 DEF CommandSound, Sequences
<1>4. row \in AnchorRow /\ row.batch \in Sequences /\ row.status = "CREATED"
  <2>1. PICK n \in 1 .. MaxId : n = run[w].cur
    BY <1>3
  <2>2. 0 \in 0 .. MaxId
    OBVIOUS
  <2>3. row \in AnchorRow
    BY <2>1, <2>2 DEF AnchorRow, AnchorStatus
  <2>. QED
    BY <1>3, <2>3
<1>. HIDE DEF row
<1>5. PICK n \in 0 .. MaxAnchors : n = Len(anchors) /\ n + 1 \in 1 .. MaxAnchors
  BY <1>1, AnchorTypes
<1>6. /\ anchors' \in Seq(AnchorRow) /\ Len(anchors') = n + 1
      /\ \A i \in 1 .. n : anchors'[i] = anchors[i]
      /\ anchors'[n + 1] = row
  BY <1>1, <1>2, <1>4, <1>5, AppendProperties
<1>7. DOMAIN anchors = 1 .. n /\ DOMAIN anchors' = 1 .. n + 1
  BY <1>2, <1>5, <1>6
<1>8. \A a \in DOMAIN anchors' : (a \in DOMAIN anchors /\ anchors'[a] = anchors[a]) \/ anchors'[a] = row
  <2>. SUFFICES ASSUME NEW a \in 1 .. n + 1 PROVE (a \in 1 .. n /\ anchors'[a] = anchors[a]) \/ anchors'[a] = row
    BY <1>7
  <2>1. a \in 1 .. n \/ a = n + 1
    OBVIOUS
  <2>. QED
    BY <2>1, <1>6
<1>9. \A a \in DOMAIN anchors' : anchors'[a].batch \in Sequences
  BY <1>2, <1>4, <1>8 DEF AnchorsKnown
<1>10. \A a \in DOMAIN anchors' : anchors'[a].status = "CONFIRMED" =>
         Batch(anchors'[a].batch).status = "ANCHORED"
  BY <1>2, <1>4, <1>8 DEF ConfirmedIsAnchored
<1>11. \A a \in DOMAIN anchors : a \in DOMAIN anchors' /\ anchors'[a].batch = anchors[a].batch
  BY <1>6, <1>7
<1>12. /\ r \in RunState /\ r.pc = "send" /\ r.todo = run[w].todo /\ r.cur = run[w].cur
       /\ r.ref = n + 1
  <2>1. n + 1 \in 0 .. MaxAnchors
    BY <1>5
  <2>. QED
    BY <1>3, <1>5, <2>1 DEF RunState, RunPc
<1>. HIDE DEF r
<1>13. CommandSound(w)'
  <2>1. run'[w] = r /\ n + 1 \in DOMAIN anchors'
    BY <1>1, <1>7, Knows
  <2>. QED
    BY <2>1, <1>3, <1>12 DEF CommandSound
<1>14. Len(anchors') <= MaxAnchors
  BY <1>5, <1>6
<1>. QED
  BY <1>1, <1>2, <1>6, <1>9, <1>10, <1>11, <1>12, <1>13, <1>14, AnchoringKeeps

LEMMA SubmitStep == ASSUME BInv, NEW w \in Anchorers, Submit(w) PROVE BInv'
<1>1. /\ UNCHANGED <<ledgerVars, batches, sealing, anchors, commands, crashes>>
      /\ run[w].pc = "send"
  BY DEF Submit
<1>2. /\ commands' \in Nat /\ crashes' \in Nat /\ AnchorsKnown /\ ConfirmedIsAnchored
      /\ anchors' \in Seq(AnchorRow) /\ Len(anchors') <= MaxAnchors
  BY Knows, BInvIs, <1>1
<1>3. /\ run[w].todo \subseteq Sequences /\ run[w].cur \in Sequences /\ run[w].ref \in DOMAIN anchors
      /\ run[w] \in RunState /\ Sequences' = Sequences
  BY Knows, <1>1 DEF CommandSound, Sequences
<1>4. PICK p \in {"sent", "refused"} : run' = [run EXCEPT ![w] = [run[w] EXCEPT !.pc = p]]
  BY DEF Submit, Goto
<1>5. PICK r : r = [run[w] EXCEPT !.pc = p]
  OBVIOUS
<1>6. r \in RunState /\ r.pc = p /\ r.todo = run[w].todo /\ r.cur = run[w].cur /\ r.ref = run[w].ref
  BY <1>3, <1>5 DEF RunState, RunPc
<1>7. CommandSound(w)'
  <2>1. run'[w] = r
    BY <1>4, <1>5, Knows
  <2>. QED
    BY <2>1, <1>1, <1>3, <1>6 DEF CommandSound
<1>8. /\ DOMAIN store' = Anchorers /\ DOMAIN store'[w] \subseteq Sequences
      /\ \A v \in Anchorers \ {w} : store'[v] = store[v]
  <2>1. DOMAIN store = Anchorers /\ DOMAIN store[w] \subseteq Sequences
    BY Knows
  <2>2. CASE store' = store
    BY <2>1, <2>2
  <2>3. CASE ~(store' = store)
    <3>1. store' = [store EXCEPT ![w] = [k \in DOMAIN store[w] \cup {run[w].cur} |->
                                           IF k \in DOMAIN store[w] THEN store[w][k] ELSE 0]]
      BY <2>3 DEF Submit
    <3>. QED
      BY <2>1, <3>1, <1>3
  <2>. QED
    BY <2>2, <2>3
<1>9. \A a \in DOMAIN anchors' : anchors'[a].batch \in Sequences
  BY <1>1, <1>2 DEF AnchorsKnown
<1>10. \A a \in DOMAIN anchors' : anchors'[a].status = "CONFIRMED" =>
         Batch(anchors'[a].batch).status = "ANCHORED"
  BY <1>1, <1>2 DEF ConfirmedIsAnchored
<1>. QED
  BY <1>1, <1>2, <1>4, <1>5, <1>6, <1>7, <1>8, <1>9, <1>10, AnchoringKeeps

LEMMA RecordStep == ASSUME BInv, NEW w \in Anchorers, RecordSubmission(w) PROVE BInv'
<1>1. PICK a : a = run[w].ref
  OBVIOUS
<1>2. PICK row : row = IF run[w].pc = "sent"
                         THEN [anchors[a] EXCEPT !.status = "SUBMITTED", !.ref = run[w].cur]
                         ELSE [anchors[a] EXCEPT !.status = "FAILED"]
  OBVIOUS
<1>3. PICK r : r = [Skip(w) EXCEPT !.ref = 0]
  OBVIOUS
<1>4. /\ UNCHANGED <<ledgerVars, batches, sealing, store, commands, crashes>>
      /\ run[w].pc \in {"sent", "refused"} /\ run' = [run EXCEPT ![w] = r]
      /\ anchors' = [anchors EXCEPT ![a] = row]
  BY <1>1, <1>2, <1>3 DEF RecordSubmission, Goto
<1>5. /\ commands' \in Nat /\ crashes' \in Nat
      /\ DOMAIN store' = Anchorers /\ DOMAIN store'[w] \subseteq Sequences
      /\ \A v \in Anchorers \ {w} : store'[v] = store[v]
  BY Knows, <1>4
<1>6. /\ run[w].cur \in Sequences /\ a \in DOMAIN anchors /\ Sequences \subseteq 1 .. MaxId
      /\ anchors[a] \in AnchorRow /\ Sequences' = Sequences
  BY Knows, AnchorTypes, <1>1, <1>4 DEF CommandSound, Sequences
<1>7. row \in AnchorRow /\ row.batch = anchors[a].batch /\ row.status # "CONFIRMED"
  <2>1. PICK n \in 1 .. MaxId : n = run[w].cur
    BY <1>6
  <2>2. n \in 0 .. MaxId
    OBVIOUS
  <2>3. run[w].cur \in 0 .. MaxId
    BY <2>1, <2>2
  <2>. QED
    BY <1>2, <1>6, <2>3 DEF AnchorRow, AnchorStatus
<1>8. r \in RunState /\ r.pc = "submit" /\ r.todo \subseteq Sequences
  BY <1>3, <1>4, SkipIs
<1>9. CommandSound(w)'
  <2>1. run'[w] = r
    BY <1>4, Knows
  <2>. QED
    BY <2>1, <1>6, <1>8 DEF CommandSound
<1>. QED
  BY <1>4, <1>5, <1>6, <1>7, <1>8, <1>9, AnchorMoves

LEMMA PollingStep == ASSUME BInv, NEW w \in Anchorers, StartPolling(w) PROVE BInv'
<1>. DEFINE T == {a \in DOMAIN anchors : anchors[a].status = "SUBMITTED"}
            r == [IdleRun EXCEPT !.pc = "poll", !.todo = T]
<1>1. /\ UNCHANGED <<ledgerVars, batches, sealing, anchors, store, commands, crashes>>
      /\ run' = [run EXCEPT ![w] = r]
  BY DEF StartPolling, Goto
<1>2. commands' \in Nat /\ crashes' \in Nat
  BY Knows, <1>1
<1>3. T \subseteq DOMAIN anchors /\ T \in SUBSET (1 .. MaxId + MaxAnchors)
  <2>1. \A a \in DOMAIN anchors : a \in 1 .. MaxId + MaxAnchors
    <3>1. \A a \in 1 .. MaxAnchors : a \in 1 .. MaxId + MaxAnchors
      OBVIOUS
    <3>. QED
      BY <3>1, AnchorTypes
  <2>. QED
    BY <2>1
<1>. HIDE DEF T
<1>4. r.pc = "poll" /\ r.todo = T
  BY DEF IdleRun
<1>5. r \in RunState
  BY <1>3, IdleRunType DEF RunState, RunPc
<1>. HIDE DEF r
<1>6. CommandSound(w)'
  <2>1. run'[w] = r
    BY <1>1, Knows
  <2>. QED
    BY <2>1, <1>1, <1>3, <1>4 DEF CommandSound
<1>. QED
  BY <1>1, <1>2, <1>5, <1>6, CommandMoves

LEMMA PolledIs ==
  ASSUME BInv, NEW w \in Anchorers, NEW a, run[w].pc \in {"poll", "confirm"}
  PROVE  Polled(w, a) \in RunState /\ Polled(w, a).pc = "poll" /\ Polled(w, a).todo \subseteq DOMAIN anchors
<1>1. run[w] \in RunState /\ run[w].todo \subseteq DOMAIN anchors
  BY Knows DEF CommandSound
<1>2. 0 \in 0 .. MaxId + MaxAnchors
  OBVIOUS
<1>3. /\ Polled(w, a) \in RunState /\ Polled(w, a).pc = "poll"
      /\ Polled(w, a).todo = run[w].todo \ {a}
  BY <1>1, <1>2 DEF Polled, RunState, RunPc
<1>. QED
  BY <1>1, <1>3

LEMMA OverKeeps ==
  ASSUME BInv, NEW w \in Anchorers, UNCHANGED <<ledgerVars, batches, sealing, anchors, commands, crashes>>,
         store' = store, run' = [run EXCEPT ![w] = IdleRun]
  PROVE  BInv'
<1>1. commands' \in Nat /\ crashes' \in Nat /\ run'[w] = IdleRun
  BY Knows
<1>. QED
  BY <1>1, OverStep, IdleRunType, CommandMoves

LEMMA StatusStep == ASSUME BInv, NEW w \in Anchorers, NEW a \in run[w].todo, GetStatus(w, a) PROVE BInv'
<1>1. PICK n : n = anchors[a].ref
  OBVIOUS
<1>2. UNCHANGED <<ledgerVars, batches, sealing, commands, crashes>> /\ run[w].pc = "poll"
  BY DEF GetStatus
<1>3. /\ commands' \in Nat /\ crashes' \in Nat /\ run[w] \in RunState
      /\ anchors \in Seq(AnchorRow) /\ Len(anchors) <= MaxAnchors
      /\ DOMAIN store = Anchorers /\ DOMAIN store[w] \subseteq Sequences
      /\ run[w].todo \subseteq DOMAIN anchors /\ a \in DOMAIN anchors
      /\ AnchorsKnown /\ ConfirmedIsAnchored
  BY Knows, BInvIs, <1>2 DEF CommandSound
<1>4. CASE n \notin DOMAIN store[w]
  BY <1>1, <1>2, <1>4, OverKeeps DEF GetStatus, Goto
<1>5. CASE n \in DOMAIN store[w]
  <2>1. PICK k : store' = [store EXCEPT ![w] = [store[w] EXCEPT ![n] = k]]
    <3>1. store' = [store EXCEPT ![w] = [store[w] EXCEPT ![n] = IF @ < 2 THEN @ + 1 ELSE @]]
      BY <1>1, <1>5 DEF GetStatus
    <3>2. store' = [store EXCEPT ![w] = [store[w] EXCEPT ![n] =
                      IF store[w][n] < 2 THEN store[w][n] + 1 ELSE store[w][n]]]
      BY <1>5, <3>1
    <3>. QED
      BY <3>2
  <2>2. /\ DOMAIN store' = Anchorers /\ DOMAIN store'[w] \subseteq Sequences
        /\ \A v \in Anchorers \ {w} : store'[v] = store[v]
    BY <1>3, <2>1
  <2>3. \/ anchors' = anchors /\ run' = [run EXCEPT ![w] = [run[w] EXCEPT !.pc = "mined", !.cur = a]]
        \/ /\ anchors' = [anchors EXCEPT ![a] = [anchors[a] EXCEPT !.status = "SUBMITTED"]]
           /\ run' = [run EXCEPT ![w] = Polled(w, a)]
    BY <1>1, <1>5 DEF GetStatus, Goto
  <2>4. CASE anchors' = anchors /\ run' = [run EXCEPT ![w] = [run[w] EXCEPT !.pc = "mined", !.cur = a]]
    <3>1. PICK r : r = [run[w] EXCEPT !.pc = "mined", !.cur = a]
      OBVIOUS
    <3>2. a \in 0 .. MaxId + MaxAnchors
      <4>1. a \in 1 .. MaxAnchors
        BY <1>3, AnchorTypes
      <4>. QED
        BY <4>1
    <3>3. r \in RunState /\ r.pc = "mined" /\ r.todo = run[w].todo /\ r.cur = a
      BY <1>3, <3>1, <3>2 DEF RunState, RunPc
    <3>4. CommandSound(w)'
      <4>1. run'[w] = r
        BY <2>4, <3>1, Knows
      <4>. QED
        BY <4>1, <1>3, <2>4, <3>3 DEF CommandSound
    <3>5. \A c \in DOMAIN anchors' : anchors'[c].batch \in Sequences
      BY <1>3, <2>4 DEF AnchorsKnown
    <3>6. \A c \in DOMAIN anchors' : anchors'[c].status = "CONFIRMED" =>
             Batch(anchors'[c].batch).status = "ANCHORED"
      BY <1>3, <2>4 DEF ConfirmedIsAnchored
    <3>. QED
      BY <1>2, <1>3, <2>2, <2>4, <3>1, <3>3, <3>4, <3>5, <3>6, AnchoringKeeps
  <2>5. CASE /\ anchors' = [anchors EXCEPT ![a] = [anchors[a] EXCEPT !.status = "SUBMITTED"]]
             /\ run' = [run EXCEPT ![w] = Polled(w, a)]
    <3>1. PICK row : row = [anchors[a] EXCEPT !.status = "SUBMITTED"]
      OBVIOUS
    <3>2. anchors[a] \in AnchorRow
      BY <1>3, AnchorTypes
    <3>3. row \in AnchorRow /\ row.batch = anchors[a].batch /\ row.status = "SUBMITTED"
      BY <3>1, <3>2 DEF AnchorRow, AnchorStatus
    <3>4. /\ Polled(w, a) \in RunState /\ Polled(w, a).pc = "poll"
          /\ Polled(w, a).todo \subseteq DOMAIN anchors
      BY <1>2, PolledIs
    <3>5. run'[w] = Polled(w, a) /\ DOMAIN anchors' = DOMAIN anchors
      BY <2>5, Knows
    <3>6. CommandSound(w)'
      BY <3>4, <3>5 DEF CommandSound
    <3>. QED
      BY <1>2, <1>3, <2>2, <2>5, <3>1, <3>3, <3>4, <3>6, AnchorMoves
  <2>. QED
    BY <2>3, <2>4, <2>5
<1>. QED
  BY <1>4, <1>5

LEMMA SaveStep == ASSUME BInv, NEW w \in Anchorers, SaveConfirmed(w) PROVE BInv'
<1>1. PICK a : a = run[w].cur
  OBVIOUS
<1>2. PICK row : row = [anchors[a] EXCEPT !.status = "CONFIRMED"]
  OBVIOUS
<1>3. PICK r : r = Polled(w, a)
  OBVIOUS
<1>4. /\ UNCHANGED <<ledgerVars, batches, sealing, store, commands, crashes>> /\ run[w].pc = "confirm"
      /\ anchors' = [anchors EXCEPT ![a] = row] /\ run' = [run EXCEPT ![w] = r]
  BY <1>1, <1>2, <1>3 DEF SaveConfirmed, Goto
<1>5. /\ commands' \in Nat /\ crashes' \in Nat /\ a \in DOMAIN anchors /\ Anchored(a)
      /\ DOMAIN store' = Anchorers /\ DOMAIN store'[w] \subseteq Sequences
      /\ \A v \in Anchorers \ {w} : store'[v] = store[v]
  BY Knows, <1>1, <1>4 DEF CommandSound
<1>6. row \in AnchorRow /\ row.batch = anchors[a].batch
  <2>1. anchors[a] \in AnchorRow
    BY <1>5, AnchorTypes
  <2>. QED
    BY <1>2, <2>1 DEF AnchorRow, AnchorStatus
<1>7. r \in RunState /\ r.pc = "poll" /\ r.todo \subseteq DOMAIN anchors
  BY <1>3, <1>4, PolledIs
<1>8. CommandSound(w)'
  <2>1. run'[w] = r /\ DOMAIN anchors' = DOMAIN anchors
    BY <1>4, Knows
  <2>. QED
    BY <2>1, <1>7 DEF CommandSound
<1>. QED
  BY <1>4, <1>5, <1>6, <1>7, <1>8, AnchorMoves

LEMMA RestartStep == ASSUME BInv, NEW w \in Anchorers, Restart(w) PROVE BInv'
<1>1. /\ UNCHANGED <<ledgerVars, batches, sealing, anchors, commands>> /\ crashes' = crashes + 1
      /\ store' = [store EXCEPT ![w] = <<>>] /\ run' = [run EXCEPT ![w] = IdleRun]
  BY DEF Restart, Goto
<1>2. /\ commands' \in Nat /\ crashes' \in Nat /\ DOMAIN store = Anchorers /\ DOMAIN run = Anchorers
      /\ anchors' \in Seq(AnchorRow) /\ Len(anchors') <= MaxAnchors
      /\ AnchorsKnown /\ ConfirmedIsAnchored
  BY Knows, BInvIs, <1>1
<1>3. DOMAIN store' = Anchorers /\ store'[w] = <<>> /\ \A v \in Anchorers \ {w} : store'[v] = store[v]
  BY <1>1, <1>2
<1>4. DOMAIN store'[w] \subseteq Sequences
  BY <1>3
<1>5. CommandSound(w)'
  BY <1>1, <1>2, OverStep
<1>6. \A c \in DOMAIN anchors' : anchors'[c].batch \in Sequences
  BY <1>1, <1>2 DEF AnchorsKnown
<1>7. \A c \in DOMAIN anchors' : anchors'[c].status = "CONFIRMED" =>
         Batch(anchors'[c].batch).status = "ANCHORED"
  BY <1>1, <1>2 DEF ConfirmedIsAnchored
<1>. QED
  BY <1>1, <1>2, <1>3, <1>4, <1>5, <1>6, <1>7, IdleRunType, AnchoringKeeps

\* A batch's row once its anchor is mined.
Marked(b, n) == IF b.sequence = n THEN [b EXCEPT !.status = "ANCHORED"] ELSE b

LEMMA MarkedIs ==
  ASSUME BInv, NEW b \in batches, NEW n
  PROVE  LET m == Marked(b, n)
         IN /\ m = [sequence |-> m.sequence, first |-> m.first, last |-> m.last, count |-> m.count,
                    root |-> m.root, previous |-> m.previous, status |-> m.status, key |-> m.key]
            /\ m.sequence = b.sequence /\ m.first = b.first /\ m.last = b.last
            /\ m.count = b.count /\ m.root = b.root /\ m.previous = b.previous /\ m.key = b.key
            /\ m.status = IF b.sequence = n THEN "ANCHORED" ELSE b.status
            /\ ManifestHash(m) = ManifestHash(b)
<1>. DEFINE m == Marked(b, n)
<1>1. b = [sequence |-> b.sequence, first |-> b.first, last |-> b.last, count |-> b.count,
           root |-> b.root, previous |-> b.previous, status |-> b.status, key |-> b.key]
  BY BInvIs DEF BatchesSound, BatchSound
<1>2. /\ m.sequence = b.sequence /\ m.first = b.first /\ m.last = b.last
      /\ m.count = b.count /\ m.root = b.root /\ m.previous = b.previous /\ m.key = b.key
      /\ m.status = IF b.sequence = n THEN "ANCHORED" ELSE b.status
  BY <1>1 DEF Marked
<1>3. m = [sequence |-> m.sequence, first |-> m.first, last |-> m.last, count |-> m.count,
           root |-> m.root, previous |-> m.previous, status |-> m.status, key |-> m.key]
  BY <1>1 DEF Marked
<1>4. ManifestHash(m) = ManifestHash(b)
  BY <1>2 DEF ManifestHash
<1>. QED
  BY <1>2, <1>3, <1>4

LEMMA MarkStep == ASSUME BInv, NEW w \in Anchorers, MarkAnchored(w) PROVE BInv'
<1>1. PICK a : a = run[w].cur
  OBVIOUS
<1>2. PICK n : n = anchors[a].batch
  OBVIOUS
<1>3. PICK r : r = [run[w] EXCEPT !.pc = "confirm"]
  OBVIOUS
<1>4. /\ UNCHANGED <<ledgerVars, sealing, anchors, store, commands, crashes>> /\ run[w].pc = "mined"
      /\ batches' = {Marked(b, n) : b \in batches} /\ run' = [run EXCEPT ![w] = r]
  BY <1>1, <1>2, <1>3 DEF MarkAnchored, Goto, Marked
<1>5. /\ TypeOK /\ BatchesSound /\ SealersSound /\ AnchorsKnown /\ CommandsSound
      /\ ConfirmedIsAnchored /\ run[w] \in RunState
      /\ run[w].todo \subseteq DOMAIN anchors /\ a \in DOMAIN anchors
  BY Knows, BInvIs, <1>1, <1>4 DEF CommandSound
<1>6. UNCHANGED <<nextId, writing, posted>>
  BY <1>4 DEF ledgerVars
<1>7. \A c \in batches' : \E b \in batches : c = Marked(b, n)
  BY <1>4
<1>8. \A b \in batches : Marked(b, n) \in batches'
  BY <1>4
<1>9. Sequences' = Sequences
  <2>1. ASSUME NEW c \in batches' PROVE c.sequence \in Sequences
    BY <1>7, MarkedIs DEF Sequences
  <2>2. ASSUME NEW b \in batches PROVE \E c \in batches' : c.sequence = b.sequence
    BY <1>8, MarkedIs
  <2>. QED
    BY <2>1, <2>2 DEF Sequences
<1>10. BatchesInLine'
  <2>1. ASSUME NEW c \in batches', NEW d \in batches'
        PROVE  /\ c.sequence = d.sequence => c = d
               /\ c.sequence < d.sequence => c.last < d.first
    <3>1. PICK x \in batches : c = Marked(x, n)
      BY <1>7
    <3>2. PICK y \in batches : d = Marked(y, n)
      BY <1>7
    <3>3. c.sequence = x.sequence /\ d.sequence = y.sequence /\ c.last = x.last /\ d.first = y.first
      BY <3>1, <3>2, MarkedIs
    <3>4. /\ x.sequence = y.sequence => x = y
          /\ x.sequence < y.sequence => x.last < y.first
      BY <1>5 DEF BatchesSound, BatchesInLine
    <3>. QED
      BY <3>1, <3>2, <3>3, <3>4
  <2>2. \E m \in 0 .. MaxId : Sequences' = 1 .. m
    BY <1>5, <1>9 DEF BatchesSound, BatchesInLine, Sequences
  <2>. QED
    BY <2>1, <2>2 DEF BatchesInLine, Sequences
<1>11. \A c \in batches' : BatchSound(c)'
  <2>. SUFFICES ASSUME NEW b \in batches PROVE BatchSound(Marked(b, n))'
    BY <1>7
  <2>1. PICK m : m = Marked(b, n)
    OBVIOUS
  <2>2. /\ m = [sequence |-> m.sequence, first |-> m.first, last |-> m.last, count |-> m.count,
                root |-> m.root, previous |-> m.previous, status |-> m.status, key |-> m.key]
        /\ m.sequence = b.sequence /\ m.first = b.first /\ m.last = b.last
        /\ m.root = b.root /\ m.previous = b.previous
    BY <2>1, MarkedIs
  <2>3. BatchSound(b)
    BY <1>5 DEF BatchesSound
  <2>4. m.sequence > 1 => \E c \in batches' : c.sequence = m.sequence - 1 /\ m.previous = ManifestHash(c)
    <3>. SUFFICES ASSUME m.sequence > 1
                  PROVE  \E c \in batches' : c.sequence = m.sequence - 1 /\ m.previous = ManifestHash(c)
      OBVIOUS
    <3>1. PICK c \in batches : c.sequence = m.sequence - 1 /\ m.previous = ManifestHash(c)
      BY <2>2, <2>3 DEF BatchSound
    <3>2. /\ Marked(c, n) \in batches' /\ Marked(c, n).sequence = c.sequence
          /\ ManifestHash(Marked(c, n)) = ManifestHash(c)
      BY <1>8, MarkedIs
    <3>. QED
      BY <3>1, <3>2
  <2>5. /\ m.sequence <= m.first /\ m.first <= m.last /\ m.first .. m.last \subseteq posted'
        /\ m.root = MerkleRoot(IdRun(m.first, m.last)) /\ (m.sequence = 1 => m.previous = <<>>)
    BY <1>6, <2>2, <2>3 DEF BatchSound
  <2>6. BatchSound(m)'
    BY <2>2, <2>4, <2>5 DEF BatchSound, ManifestHash, IdRun
  <2>7. BatchSound(m)' <=> BatchSound(Marked(b, n))'
    BY <2>1 DEF BatchSound, Marked
  <2>. QED
    BY <2>6, <2>7
<1>12. BatchesSound'
  BY <1>10, <1>11 DEF BatchesSound
<1>13. Forward
  <2>1. ASSUME NEW b \in batches
        PROVE  \E c \in batches' : /\ c.sequence = b.sequence /\ ManifestHash(c) = ManifestHash(b)
                                   /\ b.status = "ANCHORED" => c.status = "ANCHORED"
    <3>1. /\ Marked(b, n) \in batches' /\ Marked(b, n).sequence = b.sequence
          /\ ManifestHash(Marked(b, n)) = ManifestHash(b)
          /\ Marked(b, n).status = IF b.sequence = n THEN "ANCHORED" ELSE b.status
      BY <1>8, MarkedIs
    <3>. QED
      BY <3>1
  <2>. QED
    BY <1>4, <1>6, <2>1 DEF Forward
<1>14. Anchored(a)'
  <2>1. n \in Sequences
    BY <1>2, <1>5 DEF AnchorsKnown
  <2>2. Batch(n) \in batches /\ Batch(n).sequence = n
    BY <1>5, <2>1, BatchFound DEF BatchesSound
  <2>3. PICK c : c = Marked(Batch(n), n)
    OBVIOUS
  <2>4. c \in batches' /\ c.sequence = n /\ c.status = "ANCHORED"
    BY <1>8, <2>2, <2>3, MarkedIs
  <2>5. Batch(n)' = c
    BY <1>10, <2>4 DEF BatchesInLine, Batch
  <2>6. Anchored(a)' <=> Batch(n)'.status = "ANCHORED"
    BY <1>2, <1>4 DEF Anchored
  <2>. QED
    BY <2>4, <2>5, <2>6
<1>15. \A c \in DOMAIN anchors : Anchored(c) => Anchored(c)'
  BY <1>5, <1>10, <1>13, AnchoredStays DEF BatchesSound
<1>16. /\ r \in RunState /\ r.pc = "confirm" /\ r.todo = run[w].todo /\ r.cur = a
  BY <1>1, <1>3, <1>5 DEF RunState, RunPc
<1>17. run'[w] = r /\ run' \in [Anchorers -> RunState] /\ \A v \in Anchorers \ {w} : run'[v] = run[v]
  BY <1>4, <1>5, <1>16 DEF TypeOK
<1>18. CommandsSound'
  <2>1. CommandSound(w)'
    <3>1. Anchored(run[w].cur)'
      BY <1>14, <1>16, <1>17 DEF Anchored
    <3>. QED
      BY <1>4, <1>5, <1>14, <1>16, <1>17, <3>1 DEF CommandSound, Anchored
  <2>2. \A v \in Anchorers \ {w} : CommandSound(v)'
    BY <1>5, <1>10, <1>13, <1>17, CommandStays DEF BatchesSound, CommandsSound
  <2>. QED
    BY <1>4, <1>5, <1>9, <2>1, <2>2 DEF CommandsSound
<1>19. AnchorsKnown'
  BY <1>4, <1>5, <1>9 DEF AnchorsKnown
<1>20. ConfirmedIsAnchored'
  BY <1>4, <1>5, <1>15 DEF ConfirmedIsAnchored, Anchored
<1>21. SealersSound'
  BY <1>4, <1>5, <1>13, SealerStays DEF SealersSound
<1>22. TypeOK'
  <2>1. \A c \in batches' : /\ c.first \in posted /\ c.last \in posted
                            /\ c.sequence \in 1 .. MaxId /\ c.key \in Sealers
                            /\ c.status \in {"SEALED", "ANCHORED"}
    <3>. SUFFICES ASSUME NEW b \in batches
                  PROVE  LET c == Marked(b, n)
                         IN /\ c.first \in posted /\ c.last \in posted
                            /\ c.sequence \in 1 .. MaxId /\ c.key \in Sealers
                            /\ c.status \in {"SEALED", "ANCHORED"}
      BY <1>7
    <3>1. /\ b.first \in posted /\ b.last \in posted
          /\ b.sequence \in 1 .. MaxId /\ b.key \in Sealers
          /\ b.status \in {"SEALED", "ANCHORED"}
      BY <1>5 DEF TypeOK
    <3>. QED
      BY <3>1, MarkedIs
  <2>. QED
    BY <1>4, <1>5, <1>6, <1>17, <2>1 DEF TypeOK
<1>. QED
  BY <1>12, <1>18, <1>19, <1>20, <1>21, <1>22, BInvNext

-----------------------------------------------------------------------------
(* The invariant, and what it says.                                        *)

LEMMA AnchorStep == ASSUME BInv, NEW w \in Anchorers, Anchor(w) PROVE BInv'
<1>1. CASE EndCommand(w)
  BY <1>1, OverKeeps DEF EndCommand, Goto
<1>. QED
  BY <1>1, StartStep, CheckStep, FindStep, InsertStep, SubmitStep, RecordStep, PollingStep, StatusStep,
     MarkStep, SaveStep, RestartStep
  DEF Anchor

LEMMA NextBInv == BInv /\ [Next]_vars => BInv'
<1>. SUFFICES ASSUME BInv, [Next]_vars PROVE BInv'
  OBVIOUS
<1>1. CASE InsertJournal \/ (\E i \in writing : CommitJournal(i) \/ RollBackJournal(i))
  BY <1>1, PostingStep
<1>2. ASSUME NEW s \in Sealers, Seal(s) PROVE BInv'
  BY <1>2, SealStep
<1>3. ASSUME NEW w \in Anchorers, Anchor(w) PROVE BInv'
  BY <1>3, AnchorStep
<1>4. CASE UNCHANGED vars
  <2>1. Quiet /\ posted' = posted /\ sealing' = sealing /\ UNCHANGED <<nextId, writing>>
    BY <1>4 DEF vars, ledgerVars, anchorVars, Quiet
  <2>2. /\ BatchesSound' /\ AnchorsKnown' /\ CommandsSound' /\ ConfirmedIsAnchored'
        /\ \A s \in Sealers : sealing'[s] = sealing[s] => SealerSound(s)'
    BY <2>1, QuietKeeps
  <2>3. SealersSound'
    BY <2>1, <2>2 DEF SealersSound
  <2>4. TypeOK'
    BY <2>1, BInvIs DEF Quiet, TypeOK
  <2>. QED
    BY <2>2, <2>3, <2>4, BInvNext
<1>. QED
  BY <1>1, <1>2, <1>3, <1>4 DEF Next

\* However sealers, anchoring commands, crashes and postings interleave, the
\* invariant of the module holds: a batch commits to a run of posted journals
\* above the previous batch's, and commands only know batches and anchors that
\* exist.
THEOREM BatchesInv == Spec => []BInv
BY InitBInv, NextBInv, PTL DEF Spec

\* The types of the tables, the sealers and the commands.
THEOREM BatchTypes == Spec => []TypeOK
<1>1. BInv => TypeOK
  BY DEF BInv
<1>. QED
  BY <1>1, BatchesInv, PTL

\* No anchor is CONFIRMED while its batch is not ANCHORED, wherever the
\* processes that write the two rows die.
THEOREM ConfirmedMeansAnchored == Spec => []ConfirmedIsAnchored
<1>1. BInv => ConfirmedIsAnchored
  BY DEF BInv
<1>. QED
  BY <1>1, BatchesInv, PTL

\* The proof verify_journal builds is that of the journal's place in the run the
\* batch was sealed over.
LEMMA InclusionIs ==
  ASSUME BInv, NEW b \in batches, NEW j \in b.first .. b.last
  PROVE  LET L == IdRun(b.first, b.last)
         IN /\ InclusionProof(j, b) = GenerateProof(L, j - b.first)
            /\ b.root = MerkleRoot(L) /\ Hashes(L, b.last - b.first + 1)
            /\ b.last - b.first + 1 \in Nat \ {0}
            /\ j - b.first \in 0 .. (b.last - b.first + 1) - 1
            /\ L[j - b.first + 1] = j
<1>1. PICK f, l : f = b.first /\ l = b.last
  OBVIOUS
<1>2. /\ f \in Nat /\ l \in Nat /\ f <= l /\ f .. l \subseteq posted
      /\ b.root = MerkleRoot(IdRun(f, l)) /\ posted \subseteq Nat
  <2>1. TypeOK /\ BatchSound(b)
    BY BInvIs DEF BatchesSound
  <2>2. posted \subseteq Nat
    BY <2>1 DEF TypeOK
  <2>. QED
    BY <1>1, <2>1, <2>2 DEF TypeOK, BatchSound
<1>3. {i \in posted : b.first <= i /\ i <= b.last} = f .. l
  <2>1. \A i \in posted : f <= i /\ i <= l => i \in f .. l
    BY <1>2
  <2>2. \A i \in f .. l : i \in posted /\ f <= i /\ i <= l
    BY <1>2
  <2>3. {i \in posted : f <= i /\ i <= l} = f .. l
    BY <2>1, <2>2
  <2>. QED
    BY <1>1, <2>3
<1>4. InclusionProof(j, b) = GenerateProof(IdRun(f, l), j - f)
  BY <1>1, <1>2, <1>3, ByIdOfRun DEF InclusionProof
<1>5. PICK n \in Nat \ {0} : n = l - f + 1
  BY <1>2
<1>6. /\ IdRun(f, l) = [k \in 1 .. n |-> f + k - 1]
      /\ \A k \in 1 .. n : f + k - 1 \in Nat
  BY <1>2, <1>5 DEF IdRun
<1>7. IdRun(f, l) \in Seq(Nat) /\ Len(IdRun(f, l)) = n
  BY <1>6
<1>8. j \in f .. l
  BY <1>1
<1>9. j - f \in 0 .. n - 1 /\ j - f + 1 \in 1 .. n /\ f + (j - f + 1) - 1 = j
  BY <1>2, <1>5, <1>8
<1>10. IdRun(f, l)[j - f + 1] = j
  BY <1>6, <1>9
<1>. QED
  BY <1>1, <1>2, <1>4, <1>5, <1>7, <1>9, <1>10 DEF Hashes

\* At most one batch holds a posted journal.
LEMMA HoldingOne ==
  ASSUME BInv, NEW j \in posted, NEW b \in Holding(j), NEW c \in Holding(j)
  PROVE  b = c
<1>1. TypeOK /\ BatchesInLine
  BY BInvIs DEF BatchesSound
<1>2. posted \subseteq Nat
  BY <1>1 DEF TypeOK
<1>3. /\ b \in batches /\ c \in batches /\ j \in Nat
      /\ b.first \in Nat /\ b.last \in Nat /\ c.first \in Nat /\ c.last \in Nat
      /\ b.first <= j /\ j <= b.last /\ c.first <= j /\ j <= c.last
      /\ b.sequence \in Nat /\ c.sequence \in Nat
  BY <1>1, <1>2 DEF Holding, TypeOK
<1>4. b.sequence < c.sequence \/ c.sequence < b.sequence \/ b.sequence = c.sequence
  BY <1>3
<1>5. /\ b.sequence < c.sequence => b.last < c.first
      /\ c.sequence < b.sequence => c.last < b.first
      /\ b.sequence = c.sequence => b = c
  BY <1>1, <1>3 DEF BatchesInLine
<1>. QED
  BY <1>3, <1>4, <1>5

\* A journal once sealed stays provable: the proof rebuilt from the rows found
\* later leads to the sealed root, and the process that holds the signing key
\* never reads FAILED (verify_journal).
THEOREM SealedStaysProvable == Spec => []SealedProvable
<1>1. ASSUME BInv PROVE SealedProvable
  <2>. SUFFICES ASSUME NEW j \in posted, NEW b \in Holding(j)
                PROVE  VerifyJournal(j, b.key) # "FAILED"
    BY DEF SealedProvable
  <2>1. Holding(j) # {} /\ (CHOOSE c \in Holding(j) : TRUE) = b
    BY <1>1, HoldingOne
  <2>2. b \in batches /\ j \in b.first .. b.last
    <3>1. b \in batches /\ b.first <= j /\ j <= b.last
      BY DEF Holding
    <3>2. posted \subseteq Nat /\ b.first \in posted /\ b.last \in posted
      BY <1>1, <3>1, BInvIs DEF TypeOK
    <3>. QED
      BY <3>1, <3>2
  <2>3. PICK n : n = b.last - b.first + 1
    OBVIOUS
  <2>4. PICK i : i = j - b.first
    OBVIOUS
  <2>5. PICK L : L = IdRun(b.first, b.last)
    OBVIOUS
  <2>6. /\ InclusionProof(j, b) = GenerateProof(L, i) /\ b.root = MerkleRoot(L) /\ Hashes(L, n)
        /\ n \in Nat \ {0} /\ i \in 0 .. n - 1 /\ L[i + 1] = j
    BY <1>1, <2>2, <2>3, <2>4, <2>5, InclusionIs
  <2>7. VerifyProof(j, InclusionProof(j, b), b.root)
    BY <2>6, ProofsLeadToRoot
  <2>8. VerifyJournal(j, b.key) \in {"PENDING", "VERIFIED"}
    BY <2>1, <2>7 DEF VerifyJournal, SignatureValid
  <2>. QED
    BY <2>8
<1>. QED
  BY <1>1, BatchesInv, PTL

\* The proof generated for one journal verifies for no other.
THEOREM ProofsNameOne == Spec => []ProofsExclusive
<1>1. ASSUME BInv PROVE ProofsExclusive
  <2>. SUFFICES ASSUME NEW b \in batches, NEW i \in posted \cap (b.first .. b.last), NEW j \in posted,
                       VerifyProof(j, InclusionProof(i, b), b.root)
                PROVE  i = j
    BY DEF ProofsExclusive
  <2>1. PICK n : n = b.last - b.first + 1
    OBVIOUS
  <2>2. PICK k : k = i - b.first
    OBVIOUS
  <2>3. PICK L : L = IdRun(b.first, b.last)
    OBVIOUS
  <2>4. /\ InclusionProof(i, b) = GenerateProof(L, k) /\ b.root = MerkleRoot(L) /\ Hashes(L, n)
        /\ n \in Nat \ {0} /\ k \in 0 .. n - 1 /\ L[k + 1] = i
    BY <1>1, <2>1, <2>2, <2>3, InclusionIs
  <2>5. Climb(i, GenerateProof(L, k)) = Climb(j, GenerateProof(L, k))
    BY <2>4, ProofsLeadToRoot DEF VerifyProof
  <2>6. Len(GenerateProof(L, k)) \in Nat
    BY <2>4, ProofIs, TopIs
  <2>. QED
    BY <2>5, <2>6, ClimbsApart
<1>. QED
  BY <1>1, BatchesInv, PTL

\* The batches below a sequence are as many as the numbers below it.
LEMMA BeforeIs ==
  ASSUME BInv, NEW b \in batches
  PROVE  Cardinality({c \in batches : c.sequence < b.sequence}) = b.sequence - 1
<1>. DEFINE before == {c \in batches : c.sequence < b.sequence}
<1>1. BatchesInLine /\ TypeOK
  BY BInvIs DEF BatchesSound
<1>2. PICK n \in 0 .. MaxId : Sequences = 1 .. n
  BY <1>1 DEF BatchesInLine, Sequences
<1>3. PICK k \in Nat : k = b.sequence - 1 /\ k < n
  <2>1. b.sequence \in 1 .. n
    BY <1>2 DEF Sequences
  <2>. QED
    BY <2>1
<1>. DEFINE g == [i \in 1 .. k |-> Batch(i)]
<1>4. \A i \in 1 .. k : Batch(i) \in before /\ Batch(i).sequence = i
  <2>. SUFFICES ASSUME NEW i \in 1 .. k PROVE Batch(i) \in before /\ Batch(i).sequence = i
    OBVIOUS
  <2>1. i \in Sequences /\ i < b.sequence
    <3>1. b.sequence \in 1 .. n
      BY <1>2 DEF Sequences
    <3>. QED
      BY <1>2, <1>3, <3>1
  <2>. QED
    BY <1>1, <2>1, BatchFound
<1>5. \A c \in before : c.sequence \in 1 .. k /\ Batch(c.sequence) = c
  <2>. SUFFICES ASSUME NEW c \in before PROVE c.sequence \in 1 .. k /\ Batch(c.sequence) = c
    OBVIOUS
  <2>1. c.sequence \in 1 .. n /\ b.sequence \in 1 .. n /\ c.sequence < b.sequence
    BY <1>2 DEF Sequences
  <2>. QED
    BY <1>1, <1>3, <2>1, BatchIs
<1>. HIDE DEF before
<1>6. g \in [1 .. k -> before] /\ \A i, j \in 1 .. k : g[i] = g[j] => i = j
  BY <1>4
<1>7. \A c \in before : \E i \in 1 .. k : g[i] = c
  BY <1>5
<1>8. ExistsBijection(1 .. k, before)
  <2>. HIDE DEF g
  <2>1. g \in Bijection(1 .. k, before)
    BY <1>6, <1>7 DEF Bijection, Injection, Surjection, IsInjective
  <2>. QED
    BY <2>1 DEF ExistsBijection
<1>9. IsFiniteSet(1 .. k) /\ Cardinality(1 .. k) = k
  BY FS_Interval
<1>10. Cardinality(before) = k
  BY <1>8, <1>9, FS_Bijection
<1>. QED
  BY <1>3, <1>10 DEF before

\* Whatever sealers overlap, verify_batch_chain finds no gap and no broken link,
\* and no journal is committed to by two batches.
THEOREM ChainStaysValid == Spec => []BatchChainValid
<1>1. ASSUME BInv PROVE BatchChainValid
  <2>1. BatchesInLine /\ TypeOK /\ \A b \in batches : BatchSound(b)
    BY <1>1, BInvIs DEF BatchesSound
  <2>2. ASSUME NEW b \in batches
        PROVE  LET before == {c \in batches : c.sequence < b.sequence}
               IN /\ b.sequence = Cardinality(before) + 1
                  /\ IF before = {} THEN b.previous = <<>>
                     ELSE \E c \in before : /\ c.sequence = b.sequence - 1
                                            /\ b.previous = ManifestHash(c)
    <3>. DEFINE before == {c \in batches : c.sequence < b.sequence}
    <3>1. b.sequence \in Nat \ {0}
      BY <2>1 DEF TypeOK
    <3>2. b.sequence = Cardinality(before) + 1
      BY <1>1, <3>1, BeforeIs
    <3>3. CASE before = {}
      <4>1. Cardinality(before) = 0
        <5>. HIDE DEF before
        <5>. QED
          BY <3>3, FS_EmptySet
      <4>2. b.previous = <<>>
        <5>. HIDE DEF before
        <5>. QED
          BY <2>1, <3>1, <3>2, <4>1 DEF BatchSound
      <4>. QED
        BY <3>2, <3>3, <4>2
    <3>4. CASE before # {}
      <4>1. PICK d \in batches : d.sequence < b.sequence
        BY <3>4
      <4>2. d.sequence \in 1 .. MaxId
        BY <2>1 DEF TypeOK
      <4>3. b.sequence > 1
        BY <3>1, <4>1, <4>2
      <4>4. PICK c \in batches : c.sequence = b.sequence - 1 /\ b.previous = ManifestHash(c)
        BY <2>1, <4>3 DEF BatchSound
      <4>5. c \in before
        BY <3>1, <4>4
      <4>. QED
        BY <3>2, <3>4, <4>4, <4>5
    <3>. QED
      BY <3>3, <3>4
  <2>3. ChainVerdict
    BY <2>2 DEF ChainVerdict
  <2>4. ASSUME NEW j \in posted PROVE Cardinality(Holding(j)) <= 1
    <3>1. CASE Holding(j) = {}
      BY <3>1, FS_EmptySet
    <3>2. CASE Holding(j) # {}
      <4>1. PICK b \in Holding(j) : TRUE
        BY <3>2
      <4>2. Holding(j) = {b}
        BY <1>1, <4>1, HoldingOne
      <4>3. Cardinality({b}) = 1
        BY FS_Singleton
      <4>. QED
        BY <4>2, <4>3
    <3>. QED
      BY <3>1, <3>2
  <2>. QED
    BY <2>3, <2>4 DEF BatchChainValid
<1>. QED
  BY <1>1, BatchesInv, PTL

-----------------------------------------------------------------------------
(* The batches are the abstract chain of BatchChain.                       *)

LEMMA ManifestIs ==
  ASSUME NEW b
  PROVE  LET m == ManifestHash(b)[1]
         IN /\ m.sequence = b.sequence /\ m.first = b.first /\ m.last = b.last
            /\ m.count = b.count /\ m.previous = b.previous
            /\ ManifestHash(b) = <<m>>
BY DEF ManifestHash

\* Most steps leave the chain alone.
LEMMA ChainStays ==
  ASSUME batches' = batches, posted' = posted
  PROVE  UNCHANGED <<posted, Manifests, AnchoredOnes>>
BY DEF Manifests, AnchoredOnes, ManifestHash

LEMMA CommitPosts ==
  ASSUME NEW i \in writing, CommitJournal(i)
  PROVE  Chain!Post
<1>1. posted' = posted \cup {i} /\ batches' = batches
  BY DEF CommitJournal
<1>2. UNCHANGED <<Manifests, AnchoredOnes>>
  BY <1>1 DEF Manifests, AnchoredOnes, ManifestHash
<1>. QED
  BY <1>1, <1>2 DEF Chain!Post

\* The batch a sealer inserts lands on the top of the chain as it is now.
LEMMA InsertSeals ==
  ASSUME BInv, NEW s \in Sealers, sealing[s].pc = "create", posted' = posted,
         ~\E b \in batches : b.sequence = NewBatch(s).sequence,
         batches' = batches \cup {NewBatch(s)}
  PROVE  Chain!Seal
<1>1. BatchesSound
  BY BInvIs
<1>2. PICK n \in 0 .. MaxId : Sequences = 1 .. n
  BY <1>1 DEF BatchesSound, BatchesInLine, Sequences
<1>3. NewBatch(s).sequence \notin Sequences
  BY DEF Sequences
<1>4. PICK b : b = NewBatch(s)
  OBVIOUS
<1>5. /\ b.sequence = n + 1 /\ b.first <= b.last /\ b.first .. b.last \subseteq posted
      /\ b.count = b.last - b.first + 1
      /\ n = 0 => b.previous = <<>>
      /\ n > 0 => \E y \in batches : /\ y.sequence = n /\ b.previous = ManifestHash(y)
                                     /\ y.last < b.first
  BY <1>2, <1>3, <1>4, NewBatchIs
<1>6. b.status = "SEALED" /\ batches' = batches \cup {b}
  BY <1>4 DEF NewBatch
<1>7. PICK m : m = ManifestHash(b)[1]
  OBVIOUS
<1>8. /\ m.sequence = b.sequence /\ m.first = b.first /\ m.last = b.last
      /\ m.count = b.count /\ m.previous = b.previous
  BY <1>7, ManifestIs
<1>9. Manifests' = Manifests \cup {m}
  BY <1>6, <1>7 DEF Manifests, ManifestHash
<1>10. AnchoredOnes' = AnchoredOnes
  BY <1>6 DEF AnchoredOnes
<1>11. Chain!OnTop(m)
  <2>1. CASE n = 0
    <3>1. Sequences = {}
      BY <1>2, <2>1
    <3>2. Manifests = {}
      BY <3>1 DEF Manifests, Sequences
    <3>. QED
      BY <1>5, <1>8, <2>1, <3>2 DEF Chain!OnTop
  <2>2. CASE n # 0
    <3>1. PICK y \in batches : y.sequence = n /\ b.previous = ManifestHash(y) /\ y.last < b.first
      BY <1>5, <2>2
    <3>2. PICK top : top = ManifestHash(y)[1]
      OBVIOUS
    <3>3. /\ top \in Manifests /\ top.sequence = n /\ top.last = y.last
          /\ ManifestHash(y) = <<top>>
      BY <3>1, <3>2, ManifestIs DEF Manifests
    <3>4. ASSUME NEW c \in Manifests PROVE c.sequence <= top.sequence
      <4>1. PICK d \in batches : c = ManifestHash(d)[1]
        BY DEF Manifests
      <4>2. c.sequence = d.sequence
        BY <4>1, ManifestIs
      <4>3. d.sequence \in 1 .. n
        BY <1>2 DEF Sequences
      <4>. QED
        BY <3>3, <4>2, <4>3
    <3>5. m.sequence = top.sequence + 1 /\ m.first > top.last /\ m.previous = <<top>>
      BY <1>5, <1>8, <3>1, <3>3
    <3>. QED
      BY <3>3, <3>4, <3>5 DEF Chain!OnTop
  <2>. QED
    BY <2>1, <2>2
<1>12. m.first <= m.last /\ m.count = m.last - m.first + 1 /\ m.first .. m.last \subseteq posted
  BY <1>5, <1>8
<1>. QED
  BY <1>9, <1>10, <1>11, <1>12 DEF Chain!Seal

\* Marking rewrites a row and leaves every manifest as it was.
LEMMA MarkAnchors ==
  ASSUME BInv, NEW w \in Anchorers, MarkAnchored(w)
  PROVE  Chain!Anchor
<1>1. PICK n : n = anchors[run[w].cur].batch
  OBVIOUS
<1>2. /\ run[w].pc = "mined" /\ posted' = posted
      /\ batches' = {Marked(b, n) : b \in batches}
  BY <1>1 DEF MarkAnchored, Marked, ledgerVars
<1>3. BatchesSound /\ AnchorsKnown /\ run[w].cur \in DOMAIN anchors
  BY Knows, BInvIs, <1>2 DEF CommandSound
<1>4. PICK b \in batches : b.sequence = n
  BY <1>1, <1>3 DEF AnchorsKnown, Sequences
<1>5. \A c \in batches : ManifestHash(Marked(c, n)) = ManifestHash(c)
  BY MarkedIs
<1>6. Manifests' = Manifests
  <2>1. Manifests' = {ManifestHash(c)[1] : c \in batches'}
    BY DEF Manifests, ManifestHash
  <2>2. Manifests' = {ManifestHash(Marked(c, n))[1] : c \in batches}
    BY <1>2, <2>1
  <2>. QED
    BY <1>5, <2>2 DEF Manifests
<1>7. AnchoredOnes' = AnchoredOnes \cup {n}
  <2>1. \A c \in batches : /\ Marked(c, n).sequence = c.sequence
                           /\ Marked(c, n).status = IF c.sequence = n THEN "ANCHORED" ELSE c.status
    BY MarkedIs
  <2>2. ASSUME NEW x \in AnchoredOnes' PROVE x \in AnchoredOnes \cup {n}
    <3>1. PICK d \in batches' : d.status = "ANCHORED" /\ d.sequence = x
      BY DEF AnchoredOnes
    <3>2. PICK c \in batches : d = Marked(c, n)
      BY <1>2
    <3>. QED
      BY <2>1, <3>1, <3>2 DEF AnchoredOnes
  <2>3. ASSUME NEW x \in AnchoredOnes \cup {n} PROVE x \in AnchoredOnes'
    <3>1. PICK c \in batches : c.sequence = x /\ (c.status = "ANCHORED" \/ c.sequence = n)
      BY <1>4 DEF AnchoredOnes
    <3>2. Marked(c, n) \in batches' /\ Marked(c, n).sequence = x /\ Marked(c, n).status = "ANCHORED"
      BY <1>2, <2>1, <3>1
    <3>. QED
      BY <3>2 DEF AnchoredOnes
  <2>. QED
    BY <2>2, <2>3
<1>8. PICK m : m = ManifestHash(b)[1]
  OBVIOUS
<1>9. m \in Manifests /\ m.sequence = n
  BY <1>4, <1>8, ManifestIs DEF Manifests
<1>. QED
  BY <1>2, <1>6, <1>7, <1>9 DEF Chain!Anchor

LEMMA SealOnChain ==
  ASSUME BInv, NEW s \in Sealers, Seal(s)
  PROVE  Chain!Next \/ UNCHANGED <<posted, Manifests, AnchoredOnes>>
<1>1. posted' = posted
  BY DEF Seal, ReadJournals, CreateBatch, AbortSeal, ledgerVars
<1>2. CASE batches' = batches
  BY <1>1, <1>2, ChainStays
<1>3. CASE batches' # batches
  <2>1. CreateBatch(s)
    BY <1>3 DEF Seal, ReadJournals, AbortSeal
  <2>2. /\ ~\E b \in batches : b.sequence = NewBatch(s).sequence
        /\ batches' = batches \cup {NewBatch(s)} /\ sealing[s].pc = "create"
    BY <1>3, <2>1 DEF CreateBatch
  <2>3. Chain!Seal
    BY <1>1, <2>2, InsertSeals
  <2>. QED
    BY <2>3 DEF Chain!Next
<1>. QED
  BY <1>2, <1>3

LEMMA AnchorOnChain ==
  ASSUME BInv, NEW w \in Anchorers, Anchor(w)
  PROVE  Chain!Next \/ UNCHANGED <<posted, Manifests, AnchoredOnes>>
<1>1. CASE MarkAnchored(w)
  BY <1>1, MarkAnchors DEF Chain!Next
<1>2. CASE ~MarkAnchored(w)
  <2>1. posted' = posted /\ batches' = batches
    BY <1>2 DEF Anchor, StartCommand, CheckAnchors, FindExisting, InsertAnchor, Submit,
         RecordSubmission, StartPolling, GetStatus, SaveConfirmed, EndCommand, Restart, ledgerVars
  <2>. QED
    BY <2>1, ChainStays
<1>. QED
  BY <1>1, <1>2

LEMMA ChainStep ==
  BInv /\ [Next]_vars => [Chain!Next]_<<posted, Manifests, AnchoredOnes>>
<1>. SUFFICES ASSUME BInv, [Next]_vars
              PROVE  Chain!Next \/ UNCHANGED <<posted, Manifests, AnchoredOnes>>
  OBVIOUS
<1>1. CASE InsertJournal
  BY <1>1, ChainStays DEF InsertJournal
<1>2. ASSUME NEW i \in writing, CommitJournal(i) PROVE Chain!Next
  BY <1>2, CommitPosts DEF Chain!Next
<1>3. ASSUME NEW i \in writing, RollBackJournal(i)
      PROVE  UNCHANGED <<posted, Manifests, AnchoredOnes>>
  BY <1>3, ChainStays DEF RollBackJournal
<1>4. ASSUME NEW s \in Sealers, Seal(s)
      PROVE  Chain!Next \/ UNCHANGED <<posted, Manifests, AnchoredOnes>>
  BY <1>4, SealOnChain
<1>5. ASSUME NEW w \in Anchorers, Anchor(w)
      PROVE  Chain!Next \/ UNCHANGED <<posted, Manifests, AnchoredOnes>>
  BY <1>5, AnchorOnChain
<1>6. CASE UNCHANGED vars
  BY <1>6, ChainStays DEF vars, ledgerVars
<1>. QED
  BY <1>1, <1>2, <1>3, <1>4, <1>5, <1>6 DEF Next

LEMMA ChainInit == Init => Chain!Init
BY DEF Init, Chain!Init, Manifests, AnchoredOnes

\* The sealed batches are a chain that only grows at its top: of sealers that
\* read the same last batch one commits and the others are refused, a crash
\* leaves nothing, and the commands that rewrite batch rows (MarkAnchored saves
\* the row) change no manifest and never take an anchoring back.
THEOREM ChainOnlyGrows == Spec => ChainSpec
<1>1. BInv /\ BInv' /\ [Next]_vars => [Chain!Next]_<<posted, Manifests, AnchoredOnes>>
  BY ChainStep
<1>. QED
  BY <1>1, ChainInit, BatchesInv, PTL DEF Spec, ChainSpec, Chain!Spec
=============================================================================
