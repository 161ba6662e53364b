----------------------------- MODULE BatchChain -----------------------------
(***************************************************************************)
(* What sealing promises to an auditor: the journals are posted in any     *)
(* order, and the sealed batches are one chain.  A batch is only ever      *)
(* added on top: it takes the next number, names the batch that is on top  *)
(* at that moment, and covers journals above it, all of them posted.       *)
(* Nothing that was sealed is changed, removed or renumbered               *)
(* (LedgerProofBatch: "Once SEALED the membership range, root and          *)
(* signature are immutable"), and a batch that is anchored stays so.       *)
(*                                                                         *)
(* Two sealers that read the same top cannot both add to it: between what  *)
(* seal_batch reads and what it writes the chain has not moved.            *)
(* ProofBatches implements this chain.                                     *)
(***************************************************************************)
EXTENDS Integers

VARIABLES
  posted,   \* ids of posted journals
  chain,    \* the manifests of the sealed batches
  anchored  \* sequences of the batches anchored outside

Init ==
  /\ posted = {}
  /\ chain = {}
  /\ anchored = {}

Post ==
  /\ \E j \in posted' : posted' = posted \cup {j}
  /\ UNCHANGED <<chain, anchored>>

\* Batch b on the batch that is on top of the chain.
OnTop(b) ==
  IF chain = {} THEN b.sequence = 1 /\ b.previous = <<>>
  ELSE \E top \in chain :
         /\ \A c \in chain : c.sequence <= top.sequence
         /\ b.sequence = top.sequence + 1
         /\ b.first > top.last
         /\ b.previous = <<top>>

Seal ==
  /\ \E b \in chain' :
       /\ chain' = chain \cup {b}
       /\ OnTop(b)
       /\ b.first <= b.last /\ b.count = b.last - b.first + 1
       /\ b.first .. b.last \subseteq posted
  /\ UNCHANGED <<posted, anchored>>

Anchor ==
  /\ \E b \in chain : anchored' = anchored \cup {b.sequence}
  /\ UNCHANGED <<posted, chain>>

Next == Post \/ Seal \/ Anchor

Spec == Init /\ [][Next]_<<posted, chain, anchored>>
=============================================================================
