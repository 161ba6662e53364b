------------------------------- MODULE Merkle -------------------------------
(***************************************************************************)
(* Merkle trees as apps/ledger/merkle.py builds them (merkle-v1).  SHA-256 *)
(* under a domain separator is modelled by what it commits to: a leaf hash *)
(* by its payload hash, a node hash by its two children.                   *)
(***************************************************************************)
EXTENDS Integers, Sequences, SequencesExt

LeafHash(p) == <<"leaf", p>>

\* Mutant of NodeHash: the left child is hashed twice.
NodeHash_LeftTwice(l, r) == <<"node", l, l>>

NodeHash(l, r) == <<"node", l, r>>

\* A level of odd length is completed with a copy of its last node.
Padded(level) ==
  IF Len(level) > 1 /\ Len(level) % 2 = 1 THEN Append(level, Last(level)) ELSE level

Above(level) ==
  [i \in 1 .. Len(level) \div 2 |-> NodeHash(level[2 * i - 1], level[2 * i])]

\* All levels, leaves first, the root's level last.
BuildLevels(leaves) ==
  LET level[k \in 0 .. Len(leaves)] ==
        IF k = 0 THEN Padded([i \in DOMAIN leaves |-> LeafHash(leaves[i])])
                 ELSE Padded(Above(level[k - 1]))
      height == CHOOSE k \in 0 .. Len(leaves) :
                  Len(level[k]) = 1 /\ \A h \in 0 .. k - 1 : Len(level[h]) > 1
  IN [k \in 1 .. height + 1 |-> level[k - 1]]

MerkleRoot(leaves) == Last(BuildLevels(leaves))[1]

\* The authentication path of the leaf at the 0-based `index`.
GenerateProof(leaves, index) ==
  LET levels == BuildLevels(leaves)
      idx[k \in 1 .. Len(levels)] == IF k = 1 THEN index ELSE idx[k - 1] \div 2
      pair(k) == IF idx[k] % 2 = 0 THEN idx[k] + 1 ELSE idx[k] - 1
      sibling(k) == IF pair(k) >= Len(levels[k]) THEN Len(levels[k]) - 1 ELSE pair(k)
  IN [k \in 1 .. Len(levels) - 1 |->
        [hash |-> levels[k][sibling(k) + 1],
         side |-> IF sibling(k) < idx[k] THEN "LEFT" ELSE "RIGHT"]]

Combine(current, step) == IF step.side = "LEFT" THEN NodeHash(step.hash, current)
                                                ELSE NodeHash(current, step.hash)

\* Hashing up from the leaf along the proof.
Climb(payload, proof) ==
  LET current[k \in 0 .. Len(proof)] ==
        IF k = 0 THEN LeafHash(payload) ELSE Combine(current[k - 1], proof[k])
  IN current[Len(proof)]

VerifyProof(payload, proof, root) == Climb(payload, proof) = root
=============================================================================
