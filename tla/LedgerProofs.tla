---------------------------- MODULE LedgerProofs ----------------------------
(***************************************************************************)
(* What the posting engine guarantees for every number of sessions, every  *)
(* set of references and keys and every line list.                         *)
(***************************************************************************)
EXTENDS Ledger, TableTheorems

USE LedgerAssumption

-----------------------------------------------------------------------------
(* Types.                                                                  *)

\* The mirror of a line list is a line list (the lines of reverse_journal).
LEMMA MirrorType ==
  ASSUME NEW l \in Seq(Line)
  PROVE  Mirror(l) \in Seq(Line)
<1>1. /\ DOMAIN l = 1..Len(l)
      /\ Len(l) \in Nat
      /\ \A n \in 1..Len(l) : l[n] \in Line
  OBVIOUS
<1>2. \A n \in 1..Len(l) :
        [l[n] EXCEPT !.side = IF @ = "DEBIT" THEN "CREDIT" ELSE "DEBIT"] \in Line
  BY <1>1 DEF Line, Sides
<1>3. Mirror(l) \in [1..Len(l) -> Line]
  BY <1>1, <1>2 DEF Mirror
<1>4. QED
  BY <1>1, <1>3

\* What a session that does nothing holds is well typed.
LEMMA IdleType == Idle \in Transaction
<1>1. (CHOOSE n \in Names : TRUE) \in Names
  OBVIOUS
<1>2. NewRef(CHOOSE n \in Names : TRUE) \in Reference
  BY <1>1 DEF NewRef, Reference
<1>3. <<>> \in Seq(Line) /\ "idle" \in Steps
  BY DEF Steps
<1>4. QED
  BY <1>2, <1>3 DEF Idle, Transaction

\* The hash a journal is chained to is a sequence of ids.
LEMMA TipType ==
  ASSUME NEW V \in SUBSET Journal,
         V # {} => \E j \in V : \A i \in V : i.id <= j.id
  PROVE  /\ TipHash(V) \in Seq(Nat)
         /\ V # {} => \E j \in V : TipHash(V) = Chain(j)
<1>1. CASE V = {}
  BY <1>1 DEF TipHash
<1>2. CASE V # {}
  <2> DEFINE t == CHOOSE j \in V : \A i \in V : i.id <= j.id
  <2>1. t \in V
    BY <1>2
  <2>2. t.prev \in Seq(Nat) /\ t.id \in Nat
    BY <2>1 DEF Journal
  <2>3. Chain(t) \in Seq(Nat)
    BY <2>2 DEF Chain
  <2>4. TipHash(V) = Chain(t)
    BY <1>2 DEF TipHash
  <2>5. QED
    BY <2>1, <2>3, <2>4
<1>3. QED
  BY <1>1, <1>2

\* Among journals with ids below a bound, one has the highest id.
LEMMA NewestExists ==
  ASSUME NEW V \in SUBSET Journal, NEW n \in Nat,
         \A j \in V : j.id < n, V # {}
  PROVE  \E j \in V : \A i \in V : i.id <= j.id
<1> DEFINE R == OpToRel(<, Nat)
           T == {n - j.id : j \in V}
<1>1. IsWellFoundedOn(R, Nat)
  BY NatLessThanWellFounded
<1>2. \A j \in V : j.id \in Nat /\ n - j.id \in Nat
  BY DEF Journal
<1>3. T \subseteq Nat /\ T # {}
  BY <1>2
<1>4. PICK x \in T : \A y \in T : ~(<<y, x>> \in R)
  BY <1>1, <1>3, WFMin, Zenon
<1>5. \A y \in T : ~(y < x)
  BY <1>3, <1>4 DEF OpToRel
<1>6. PICK j \in V : x = n - j.id
  OBVIOUS
<1>7. \A i \in V : ~(n - i.id < n - j.id)
  BY <1>5, <1>6
<1>8. \A i \in V : i.id <= j.id
  <2> TAKE i \in V
  <2>1. i.id \in Nat /\ j.id \in Nat
    BY <1>2
  <2>2. ~(n - i.id < n - j.id)
    BY <1>7
  <2>3. QED
    BY <2>1, <2>2
<1>9. QED
  BY <1>8

-----------------------------------------------------------------------------
(* Steps that end a transaction without a trace.                           *)

\* The four ways a transaction disappears: refused, losing a unique index,
\* abandoned by its caller, victim of a deadlock.
Vanish(s) == RollbackTo(s) /\ UNCHANGED <<journals, markers, nextId>>

\* A session that vanished holds nothing any more; the others are untouched.
LEMMA VanishFrame ==
  ASSUME NEW s \in Sessions, TypeOK, Vanish(s)
  PROVE  /\ tx'[s] = Idle
         /\ \A t \in Sessions \ {s} : tx'[t] = tx[t]
         /\ \A t \in Sessions : \A r : HoldsRef(t, r)' => HoldsRef(t, r)
         /\ \A t \in Sessions : \A k : HoldsKey(t, k)' => HoldsKey(t, k)
         /\ Visible(s)' = journals
         /\ \A t \in Sessions \ {s} : Visible(t)' = Visible(t)
<1>1. tx'[s] = Idle /\ \A t \in Sessions \ {s} : tx'[t] = tx[t]
  BY DEF TypeOK, Vanish, RollbackTo
<1>2. Idle.own = {} /\ Idle.pc = "idle"
  BY DEF Idle
<1>3. Visible(s)' = journals /\ \A t \in Sessions \ {s} : Visible(t)' = Visible(t)
  BY <1>1, <1>2 DEF Visible, Vanish
<1>4. \A t \in Sessions : \A r : HoldsRef(t, r)' => HoldsRef(t, r)
  BY <1>1, <1>2 DEF HoldsRef
<1>5. \A t \in Sessions : \A k : HoldsKey(t, k)' => HoldsKey(t, k)
  BY <1>1, <1>2 DEF HoldsKey
<1>6. QED
  BY <1>1, <1>3, <1>4, <1>5

\* Rolling back keeps the whole invariant.
LEMMA VanishKeepsInvariant ==
  ASSUME NEW s \in Sessions, LInv, Vanish(s)
  PROVE  LInv'
<1> USE DEF LInv
<1>0. /\ journals' = journals /\ markers' = markers /\ nextId' = nextId
      /\ tx' = [tx EXCEPT ![s] = Idle]
  BY DEF Vanish, RollbackTo
<1>1. /\ tx'[s] = Idle
      /\ \A t \in Sessions \ {s} : tx'[t] = tx[t]
      /\ \A t \in Sessions : \A r : HoldsRef(t, r)' => HoldsRef(t, r)
      /\ \A t \in Sessions : \A k : HoldsKey(t, k)' => HoldsKey(t, k)
      /\ Visible(s)' = journals
      /\ \A t \in Sessions \ {s} : Visible(t)' = Visible(t)
  BY VanishFrame
<1>2. /\ Idle.own = {} /\ Idle.pc = "idle" /\ Idle.rev = 0
      /\ Idle.id = 0 /\ Idle.key = NoKey
  BY DEF Idle
<1>3. TypeOK'
  BY <1>0, IdleType DEF TypeOK
<1>4. IdsBelow'
  <2>1. \A t \in Sessions : tx'[t].id < nextId
    BY <1>1, <1>2 DEF IdsBelow, TypeOK, Transaction
  <2>2. \A t \in Sessions : \A j \in tx'[t].own : j.id < nextId
    BY <1>1, <1>2 DEF IdsBelow
  <2>3. QED
    BY <1>0, <2>1, <2>2 DEF IdsBelow
<1>5. RefsApart'
  BY <1>0, <1>1, <1>2 DEF RefsApart
<1>6. ReversalsShaped'
  BY <1>0, <1>1, <1>2 DEF ReversalsShaped, Undoes
<1>7. ChainRooted'
  BY <1>0 DEF ChainRooted, Chain
<1>8. LinksVisible'
  BY <1>0, <1>1, <1>2 DEF LinksVisible, Chain
<1>9. KeysApart'
  BY <1>0 DEF KeysApart
<1>10. KeyedOwn'
  BY <1>0, <1>1, <1>2 DEF KeyedOwn
<1>11. QED
  BY <1>3, <1>4, <1>5, <1>6, <1>7, <1>8, <1>9, <1>10

-----------------------------------------------------------------------------
(* Beginning a journal, taking an id.                                      *)

\* Beginning a journal or taking an id writes nothing and claims no reference
\* or key: everything but the types and the new request is as it was.
LEMMA BeginKeepsInvariant ==
  ASSUME NEW s \in Sessions, LInv,
         NEW r \in Transaction,
         tx' = [tx EXCEPT ![s] = r],
         UNCHANGED <<journals, markers>>,
         nextId' \in Nat, nextId <= nextId', r.id < nextId',
         r.own = tx[s].own,
         r.pc \in {"alloc", "insert"},
         Undoes(r.ref, r.lines, r.rev),
         \A j \in r.own : j.key = r.key,
         r.key # NoKey => r.own = {}
  PROVE  LInv'
<1> USE DEF LInv
<1>1. tx'[s] = r /\ \A t \in Sessions \ {s} : tx'[t] = tx[t]
  BY DEF TypeOK
<1>2. \A t \in Sessions : Visible(t)' = Visible(t)
  BY <1>1 DEF Visible
<1>3. \A t \in Sessions : \A q : HoldsRef(t, q)' => HoldsRef(t, q)
  BY <1>1 DEF HoldsRef
<1>4. \A t \in Sessions : \A k : HoldsKey(t, k)' => HoldsKey(t, k)
  BY <1>1 DEF HoldsKey
<1>5. TypeOK'
  BY DEF TypeOK
<1>6. IdsBelow'
  <2>1. \A j \in journals : j.id \in Nat
    BY DEF TypeOK, Journal
  <2>2. \A t \in Sessions : tx[t].id \in Nat /\ \A j \in tx[t].own : j.id \in Nat
    BY DEF TypeOK, Transaction, Journal
  <2>3. nextId \in Nat
    BY DEF TypeOK
  <2>4. \A j \in journals : j.id < nextId'
    BY <2>1, <2>3 DEF IdsBelow
  <2>5. \A t \in Sessions : tx'[t].id < nextId'
    BY <1>1, <2>2, <2>3 DEF IdsBelow
  <2>6. \A t \in Sessions : \A j \in tx'[t].own : j.id < nextId'
    BY <1>1, <2>2, <2>3 DEF IdsBelow
  <2>7. QED
    BY <2>4, <2>5, <2>6 DEF IdsBelow
<1>7. RefsApart'
  BY <1>1, <1>2, <1>3 DEF RefsApart
<1>8. ReversalsShaped'
  BY <1>1 DEF ReversalsShaped, Undoes
<1>9. ChainRooted'
  BY DEF ChainRooted, Chain
<1>10. LinksVisible'
  BY <1>1, <1>2 DEF LinksVisible, Chain
<1>11. KeysApart'
  BY DEF KeysApart
<1>12. KeyedOwn'
  BY <1>1, <1>4 DEF KeyedOwn
<1>13. QED
  BY <1>5, <1>6, <1>7, <1>8, <1>9, <1>10, <1>11, <1>12

LEMMA BeginPostKeepsInvariant ==
  ASSUME NEW s \in Sessions, LInv,
         NEW n \in Names, NEW k \in Keys \cup {NoKey}, NEW lines \in Postings,
         BeginPost(s, n, k, lines)
  PROVE  LInv'
<1> DEFINE r == [tx[s] EXCEPT !.pc = "alloc", !.ref = NewRef(n),
                             !.lines = lines, !.rev = 0, !.key = k]
<1>1. /\ tx' = [tx EXCEPT ![s] = r]
      /\ UNCHANGED <<journals, markers, nextId>>
      /\ tx[s].pc = "idle"
  BY DEF BeginPost
<1>2. tx[s] \in Transaction /\ nextId \in Nat
  BY DEF LInv, TypeOK
<1>3. r \in Transaction
  BY <1>2 DEF Transaction, Steps, NewRef, Reference
<1>4. /\ r.pc = "alloc" /\ r.own = tx[s].own /\ r.id = tx[s].id /\ r.rev = 0
  BY <1>2 DEF Transaction
<1>5. tx[s].own = {}
  BY <1>1 DEF LInv, KeyedOwn
<1>6. tx[s].id < nextId
  BY DEF LInv, IdsBelow
<1>7. Undoes(r.ref, r.lines, r.rev)
  BY <1>4 DEF Undoes
<1>8. nextId' \in Nat /\ nextId <= nextId' /\ r.id < nextId'
  BY <1>1, <1>2, <1>4, <1>6
<1>9. QED
  BY <1>1, <1>3, <1>4, <1>5, <1>7, <1>8, BeginKeepsInvariant

LEMMA BeginReverseKeepsInvariant ==
  ASSUME NEW s \in Sessions, LInv, NEW o \in journals, BeginReverse(s, o)
  PROVE  LInv'
<1> DEFINE r == [tx[s] EXCEPT !.pc = "alloc", !.ref = RevRef(o.id),
                             !.lines = Mirror(o.lines), !.rev = o.id, !.key = NoKey]
<1>1. /\ tx' = [tx EXCEPT ![s] = r]
      /\ UNCHANGED <<journals, markers, nextId>>
      /\ tx[s].pc = "idle"
  BY DEF BeginReverse
<1>2. tx[s] \in Transaction /\ nextId \in Nat
  BY DEF LInv, TypeOK
<1>3. o.id \in Nat /\ Mirror(o.lines) \in Seq(Line)
  BY MirrorType DEF LInv, TypeOK, Journal
<1>4. r \in Transaction
  BY <1>2, <1>3 DEF Transaction, Steps, RevRef, Reference
<1>5. /\ r.pc = "alloc" /\ r.own = tx[s].own /\ r.id = tx[s].id /\ r.key = NoKey
      /\ r.rev = o.id /\ r.ref = RevRef(o.id) /\ r.lines = Mirror(o.lines)
  BY <1>2 DEF Transaction
<1>6. tx[s].own = {}
  BY <1>1 DEF LInv, KeyedOwn
<1>7. tx[s].id < nextId
  BY DEF LInv, IdsBelow
<1>8. Undoes(r.ref, r.lines, r.rev)
  BY <1>5 DEF Undoes
<1>9. nextId' \in Nat /\ nextId <= nextId' /\ r.id < nextId'
  BY <1>1, <1>2, <1>5, <1>7
<1>10. QED
  BY <1>1, <1>4, <1>5, <1>6, <1>8, <1>9, BeginKeepsInvariant

LEMMA NextPostKeepsInvariant ==
  ASSUME NEW s \in Sessions, LInv, NEW n \in Names, NEW lines \in Postings,
         NextPost(s, n, lines)
  PROVE  LInv'
<1> DEFINE r == [tx[s] EXCEPT !.pc = "alloc", !.ref = NewRef(n), !.lines = lines]
<1>1. /\ tx' = [tx EXCEPT ![s] = r]
      /\ UNCHANGED <<journals, markers, nextId>>
      /\ tx[s].key = NoKey /\ tx[s].rev = 0
  BY DEF NextPost
<1>2. tx[s] \in Transaction /\ nextId \in Nat
  BY DEF LInv, TypeOK
<1>3. r \in Transaction
  BY <1>2 DEF Transaction, Steps, NewRef, Reference
<1>4. /\ r.pc = "alloc" /\ r.own = tx[s].own /\ r.id = tx[s].id
      /\ r.rev = 0 /\ r.key = NoKey
  BY <1>1, <1>2 DEF Transaction
<1>5. tx[s].id < nextId
  BY DEF LInv, IdsBelow
<1>6. Undoes(r.ref, r.lines, r.rev)
  BY <1>4 DEF Undoes
<1>7. \A j \in r.own : j.key = r.key
  BY <1>1, <1>4 DEF LInv, KeyedOwn
<1>8. nextId' \in Nat /\ nextId <= nextId' /\ r.id < nextId'
  BY <1>1, <1>2, <1>4, <1>5
<1>9. QED
  BY <1>1, <1>3, <1>4, <1>6, <1>7, <1>8, BeginKeepsInvariant

LEMMA AllocateIdKeepsInvariant ==
  ASSUME NEW s \in Sessions, LInv, AllocateId(s)
  PROVE  LInv'
<1> DEFINE r == [tx[s] EXCEPT !.pc = "insert", !.id = nextId]
<1>1. /\ tx' = [tx EXCEPT ![s] = r]
      /\ UNCHANGED <<journals, markers>>
      /\ nextId' = nextId + 1
      /\ tx[s].pc = "alloc"
  BY DEF AllocateId
<1>2. tx[s] \in Transaction /\ nextId \in Nat
  BY DEF LInv, TypeOK
<1>3. r \in Transaction
  BY <1>2 DEF Transaction, Steps
<1>4. /\ r.pc = "insert" /\ r.own = tx[s].own /\ r.id = nextId /\ r.key = tx[s].key
      /\ r.ref = tx[s].ref /\ r.lines = tx[s].lines /\ r.rev = tx[s].rev
  BY <1>2 DEF Transaction
<1>5. Undoes(r.ref, r.lines, r.rev)
  BY <1>4 DEF LInv, ReversalsShaped
<1>6. \A j \in r.own : j.key = r.key
  BY <1>4 DEF LInv, KeyedOwn
<1>7. r.key # NoKey => r.own = {}
  BY <1>1, <1>4 DEF LInv, KeyedOwn
<1>8. nextId' \in Nat /\ nextId <= nextId' /\ r.id < nextId'
  BY <1>1, <1>2, <1>4
<1>9. QED
  BY <1>1, <1>3, <1>4, <1>5, <1>6, <1>7, <1>8, BeginKeepsInvariant

-----------------------------------------------------------------------------
(* Passing a unique index, sealing, committing.                            *)

LEMMA InsertDraftKeepsInvariant ==
  ASSUME NEW s \in Sessions, LInv, InsertDraft(s)
  PROVE  LInv'
<1> USE DEF LInv
<1>1. CASE \E j \in Visible(s) : j.ref = tx[s].ref
  <2>1. Vanish(s)
    BY <1>1 DEF InsertDraft, Vanish
  <2>2. QED
    BY <2>1, VanishKeepsInvariant
<1>2. CASE ~\E j \in Visible(s) : j.ref = tx[s].ref
  <2>1. /\ tx' = [tx EXCEPT ![s].pc = "seal"] /\ tx[s].pc = "insert"
        /\ UNCHANGED <<journals, markers, nextId>>
    BY <1>2 DEF InsertDraft
  <2>2. \A t \in Sessions \ {s} : ~HoldsRef(t, tx[s].ref)
    BY <2>1 DEF InsertDraft, Waiting, WaitsFor
  <2>3. /\ tx[s] \in Transaction /\ tx'[s] = [tx[s] EXCEPT !.pc = "seal"]
        /\ \A t \in Sessions \ {s} : tx'[t] = tx[t]
    BY <2>1 DEF TypeOK
  <2>4. /\ tx'[s].pc = "seal" /\ tx'[s].own = tx[s].own /\ tx'[s].ref = tx[s].ref
        /\ tx'[s].lines = tx[s].lines /\ tx'[s].rev = tx[s].rev
        /\ tx'[s].key = tx[s].key /\ tx'[s].id = tx[s].id
    BY <2>3 DEF Transaction
  <2>5. \A t \in Sessions : Visible(t)' = Visible(t)
    BY <2>1, <2>3, <2>4 DEF Visible
  <2>6. \A t \in Sessions \ {s} : \A r : HoldsRef(t, r)' = HoldsRef(t, r)
    BY <2>3 DEF HoldsRef
  <2>7. \A r : HoldsRef(s, r)' => HoldsRef(s, r) \/ r = tx[s].ref
    BY <2>1, <2>4 DEF HoldsRef
  <2>8. \A t \in Sessions : \A k : HoldsKey(t, k)' => HoldsKey(t, k)
    BY <2>3, <2>4 DEF HoldsKey
  <2>9. TypeOK'
    BY <2>1, <2>3 DEF TypeOK, Transaction, Steps
  <2>10. IdsBelow'
    BY <2>1, <2>3, <2>4 DEF IdsBelow
  <2>11. RefsApart'
    <3>1. \A t \in Sessions : \A j \in tx'[t].own :
            /\ \A i \in Visible(t)' : i.ref = j.ref => i = j
            /\ \A u \in Sessions \ {t} : ~HoldsRef(u, j.ref)'
      <4> SUFFICES ASSUME NEW t \in Sessions, NEW j \in tx'[t].own
                   PROVE  /\ \A i \in Visible(t)' : i.ref = j.ref => i = j
                          /\ \A u \in Sessions \ {t} : ~HoldsRef(u, j.ref)'
        OBVIOUS
      <4>1. j \in tx[t].own
        BY <2>3, <2>4
      <4>2. HoldsRef(t, j.ref)
        BY <4>1 DEF HoldsRef
      <4>3. t # s => j.ref # tx[s].ref
        BY <2>2, <4>2
      <4>4. QED
        BY <2>5, <2>6, <2>7, <4>1, <4>3 DEF RefsApart
    <3>2. \A t \in Sessions : tx'[t].pc = "seal" =>
            /\ \A i \in Visible(t)' : i.ref # tx'[t].ref
            /\ \A u \in Sessions \ {t} : ~HoldsRef(u, tx[t].ref)'
      <4> SUFFICES ASSUME NEW t \in Sessions, tx'[t].pc = "seal"
                   PROVE  /\ \A i \in Visible(t)' : i.ref # tx'[t].ref
                          /\ \A u \in Sessions \ {t} : ~HoldsRef(u, tx[t].ref)'
        OBVIOUS
      <4>1. CASE t = s
        BY <1>2, <2>2, <2>4, <2>5, <2>6, <4>1
      <4>2. CASE t # s
        <5>1. tx[t].pc = "seal" /\ tx'[t].ref = tx[t].ref
          BY <2>3, <4>2
        <5>2. HoldsRef(t, tx[t].ref)
          BY <5>1 DEF HoldsRef
        <5>3. tx[t].ref # tx[s].ref
          BY <2>2, <4>2, <5>2
        <5>4. QED
          BY <2>5, <2>6, <2>7, <5>1, <5>3 DEF RefsApart
      <4>3. QED
        BY <4>1, <4>2
    <3>3. QED
      BY <2>1, <3>1, <3>2 DEF RefsApart
  <2>12. ReversalsShaped'
    BY <2>1, <2>3, <2>4 DEF ReversalsShaped, Undoes
  <2>13. ChainRooted'
    BY <2>1 DEF ChainRooted, Chain
  <2>14. LinksVisible'
    <3>1. \A t \in Sessions : tx'[t].own = tx[t].own
      BY <2>3, <2>4
    <3>2. QED
      BY <2>5, <3>1 DEF LinksVisible, Chain
  <2>15. KeysApart'
    BY <2>1 DEF KeysApart
  <2>16. KeyedOwn'
    BY <2>1, <2>3, <2>4, <2>8 DEF KeyedOwn
  <2>17. QED
    BY <2>9, <2>10, <2>11, <2>12, <2>13, <2>14, <2>15, <2>16
<1>3. QED
  BY <1>1, <1>2

LEMMA SealKeepsInvariant ==
  ASSUME NEW s \in Sessions, LInv, Seal(s)
  PROVE  LInv'
<1> USE DEF LInv
<1>1. CASE ~Postable(tx[s].lines)
  <2>1. Vanish(s)
    BY <1>1 DEF Seal, Vanish
  <2>2. QED
    BY <2>1, VanishKeepsInvariant
<1>2. CASE Postable(tx[s].lines)
  <2> DEFINE new == [id |-> tx[s].id, ref |-> tx[s].ref, lines |-> tx[s].lines,
                     reverses |-> tx[s].rev, prev |-> TipHash(Visible(s)),
                     key |-> tx[s].key]
             r == [tx[s] EXCEPT !.pc = "posted", !.own = tx[s].own \cup {new}]
  <2>1. /\ tx' = [tx EXCEPT ![s] = r] /\ tx[s].pc = "seal"
        /\ UNCHANGED <<journals, markers, nextId>>
    BY <1>2 DEF Seal
  <2>2. tx[s] \in Transaction /\ nextId \in Nat
    BY DEF TypeOK
  <2>3. /\ r.pc = "posted" /\ r.own = tx[s].own \cup {new} /\ r.ref = tx[s].ref
        /\ r.lines = tx[s].lines /\ r.rev = tx[s].rev
        /\ r.key = tx[s].key /\ r.id = tx[s].id
    BY <2>2 DEF Transaction
  <2>4. tx'[s] = r /\ \A t \in Sessions \ {s} : tx'[t] = tx[t]
    BY <2>1 DEF TypeOK
  <2>5. Visible(s) \in SUBSET Journal
    BY <2>2 DEF TypeOK, Visible, Transaction
  <2>6. \A j \in Visible(s) : j.id < nextId
    BY DEF Visible, IdsBelow
  <2>7. Visible(s) # {} => \E j \in Visible(s) : \A i \in Visible(s) : i.id <= j.id
    BY <2>2, <2>5, <2>6, NewestExists
  <2>8. /\ TipHash(Visible(s)) \in Seq(Nat)
        /\ TipHash(Visible(s)) = <<>> \/ \E i \in Visible(s) : Chain(i) = TipHash(Visible(s))
    <3>1. /\ TipHash(Visible(s)) \in Seq(Nat)
          /\ Visible(s) # {} => \E j \in Visible(s) : TipHash(Visible(s)) = Chain(j)
      BY <2>5, <2>7, TipType
    <3>2. Visible(s) = {} => TipHash(Visible(s)) = <<>>
      BY DEF TipHash
    <3>3. QED
      BY <3>1, <3>2
  <2>9. new \in Journal
    BY <2>2, <2>8 DEF Journal, Transaction
  <2>10. /\ new.id = tx[s].id /\ new.ref = tx[s].ref /\ new.lines = tx[s].lines
         /\ new.reverses = tx[s].rev /\ new.key = tx[s].key
         /\ new.prev = TipHash(Visible(s))
    OBVIOUS
  <2> HIDE DEF new, r
  <2>11. /\ Visible(s)' = Visible(s) \cup {new}
         /\ \A t \in Sessions \ {s} : Visible(t)' = Visible(t)
    BY <2>1, <2>3, <2>4 DEF Visible
  <2>12. \A t \in Sessions : \A q : HoldsRef(t, q)' => HoldsRef(t, q)
    BY <2>1, <2>3, <2>4, <2>10 DEF HoldsRef
  <2>13. \A t \in Sessions : \A k : HoldsKey(t, k)' => HoldsKey(t, k)
    BY <2>3, <2>4 DEF HoldsKey
  <2>14. TypeOK'
    <3>1. r \in Transaction
      BY <2>2, <2>9 DEF r, Transaction, Steps
    <3>2. QED
      BY <2>1, <3>1 DEF TypeOK
  <2>15. IdsBelow'
    BY <2>1, <2>3, <2>4, <2>10 DEF IdsBelow
  <2>16. RefsApart'
    <3>1. \A i \in Visible(s) : i.ref # new.ref
      BY <2>1, <2>10 DEF RefsApart
    <3> PICK q : q = new.ref
      OBVIOUS
    <3>2. \A t \in Sessions \ {s} : ~HoldsRef(t, q)'
      BY <2>1, <2>10, <2>12 DEF RefsApart
    <3>3. \A t \in Sessions : \A j \in tx'[t].own :
            /\ \A i \in Visible(t)' : i.ref = j.ref => i = j
            /\ \A u \in Sessions \ {t} : ~HoldsRef(u, j.ref)'
      <4> SUFFICES ASSUME NEW t \in Sessions, NEW j \in tx'[t].own
                   PROVE  /\ \A i \in Visible(t)' : i.ref = j.ref => i = j
                          /\ \A u \in Sessions \ {t} : ~HoldsRef(u, j.ref)'
        OBVIOUS
      <4>1. CASE j \in tx[t].own
        <5>1. j \in Visible(t)
          BY <4>1 DEF Visible
        <5>2. \A i \in Visible(t)' : i.ref = j.ref => i = j
          BY <2>11, <3>1, <4>1, <5>1 DEF RefsApart
        <5>3. \A u \in Sessions \ {t} : ~HoldsRef(u, j.ref)'
          BY <2>12, <4>1 DEF RefsApart
        <5>4. QED
          BY <5>2, <5>3
      <4>2. CASE t = s /\ j = new
        BY <2>11, <3>1, <3>2, <4>2
      <4>3. QED
        BY <2>3, <2>4, <4>1, <4>2
    <3>4. \A t \in Sessions : tx'[t].pc = "seal" =>
            /\ \A i \in Visible(t)' : i.ref # tx'[t].ref
            /\ \A u \in Sessions \ {t} : ~HoldsRef(u, tx[t].ref)'
      BY <2>3, <2>4, <2>11, <2>12 DEF RefsApart
    <3>5. QED
      BY <2>1, <3>3, <3>4 DEF RefsApart
  <2>17. ReversalsShaped'
    <3>1. Undoes(new.ref, new.lines, new.reverses)
      BY <2>10 DEF ReversalsShaped
    <3>2. QED
      BY <2>1, <2>3, <2>4, <3>1 DEF ReversalsShaped, Undoes
  <2>18. ChainRooted'
    BY <2>1 DEF ChainRooted, Chain
  <2>19. LinksVisible'
    <3> DEFINE Linked(j, V) == j.prev = <<>> \/ \E i \in V : Append(i.prev, i.id) = j.prev
    <3>1. \A t \in Sessions : \A j \in tx[t].own : Linked(j, Visible(t))
      BY DEF LinksVisible, Chain
    <3>2. Linked(new, Visible(s))
      BY <2>8, <2>10 DEF Chain
    <3>3. \A j \in tx'[s].own : Linked(j, Visible(s)')
      BY <2>3, <2>4, <2>11, <3>1, <3>2
    <3>4. \A t \in Sessions \ {s} : \A j \in tx'[t].own : Linked(j, Visible(t)')
      BY <2>4, <2>11, <3>1
    <3>5. QED
      BY <3>3, <3>4 DEF LinksVisible, Chain
  <2>20. KeysApart'
    BY <2>1 DEF KeysApart
  <2>21. KeyedOwn'
    <3>1. tx[s].key # NoKey => tx[s].own = {}
      BY <2>1 DEF KeyedOwn
    <3>2. \A t \in Sessions \ {s} : tx'[t] = tx[t]
      BY <2>4
    <3>3. tx'[s].pc = "posted" /\ tx'[s].key = tx[s].key /\ tx'[s].id = tx[s].id
      BY <2>3, <2>4
    <3>4. \A j \in tx'[s].own : j.key = tx'[s].key
      BY <2>3, <2>4, <2>10 DEF KeyedOwn
    <3>5. tx'[s].key # NoKey =>
            \E j \in tx'[s].own : tx'[s].own = {j} /\ j.id = tx'[s].id
      BY <2>3, <2>4, <2>10, <3>1
    <3>6. QED
      BY <2>1, <2>13, <3>2, <3>3, <3>4, <3>5 DEF KeyedOwn
  <2>22. QED
    BY <2>14, <2>15, <2>16, <2>17, <2>18, <2>19, <2>20, <2>21
<1>3. QED
  BY <1>1, <1>2

LEMMA RecordMarkerKeepsInvariant ==
  ASSUME NEW s \in Sessions, LInv, RecordMarker(s)
  PROVE  LInv'
<1> USE DEF LInv
<1>1. CASE \E m \in markers : m.key = tx[s].key
  <2>1. Vanish(s)
    BY <1>1 DEF RecordMarker, Vanish
  <2>2. QED
    BY <2>1, VanishKeepsInvariant
<1>2. CASE ~\E m \in markers : m.key = tx[s].key
  <2>1. /\ tx' = [tx EXCEPT ![s].pc = "marked"]
        /\ tx[s].pc = "posted" /\ tx[s].key # NoKey
        /\ UNCHANGED <<journals, markers, nextId>>
    BY <1>2 DEF RecordMarker
  <2>2. \A t \in Sessions \ {s} : ~HoldsKey(t, tx[s].key)
    BY <2>1 DEF RecordMarker, Waiting, WaitsFor
  <2>3. /\ tx[s] \in Transaction /\ tx'[s] = [tx[s] EXCEPT !.pc = "marked"]
        /\ \A t \in Sessions \ {s} : tx'[t] = tx[t]
    BY <2>1 DEF TypeOK
  <2>4. /\ tx'[s].pc = "marked" /\ tx'[s].own = tx[s].own /\ tx'[s].ref = tx[s].ref
        /\ tx'[s].lines = tx[s].lines /\ tx'[s].rev = tx[s].rev
        /\ tx'[s].key = tx[s].key /\ tx'[s].id = tx[s].id
    BY <2>3 DEF Transaction
  <2>5. \A t \in Sessions : tx'[t].own = tx[t].own /\ Visible(t)' = Visible(t)
    BY <2>1, <2>3, <2>4 DEF Visible
  <2>6. \A t \in Sessions : \A r : HoldsRef(t, r)' => HoldsRef(t, r)
    BY <2>3, <2>4 DEF HoldsRef
  <2>7. TypeOK'
    BY <2>1, <2>3 DEF TypeOK, Transaction, Steps
  <2>8. IdsBelow'
    BY <2>1, <2>3, <2>4 DEF IdsBelow
  <2>9. RefsApart'
    BY <2>1, <2>3, <2>4, <2>5, <2>6 DEF RefsApart
  <2>10. ReversalsShaped'
    BY <2>1, <2>3, <2>4 DEF ReversalsShaped, Undoes
  <2>11. ChainRooted'
    BY <2>1 DEF ChainRooted, Chain
  <2>12. LinksVisible'
    BY <2>5 DEF LinksVisible, Chain
  <2>13. KeysApart'
    BY <2>1 DEF KeysApart
  <2>14. KeyedOwn'
    <3>1. \A t \in Sessions \ {s} : tx'[t].pc = "marked" => tx[t].key # tx[s].key
      BY <2>2, <2>3 DEF HoldsKey
    <3>2. \A t \in Sessions : \A k : HoldsKey(t, k)' => HoldsKey(t, k) \/ (t = s /\ k = tx[s].key)
      BY <2>3, <2>4 DEF HoldsKey
    <3>3. \A t \in Sessions : tx'[t].pc = "marked" =>
            /\ tx'[t].key # NoKey
            /\ \A m \in markers : m.key # tx'[t].key
            /\ \A u \in Sessions \ {t} : ~HoldsKey(u, tx[t].key)'
      <4> SUFFICES ASSUME NEW t \in Sessions, tx'[t].pc = "marked"
                   PROVE  /\ tx'[t].key # NoKey
                          /\ \A m \in markers : m.key # tx'[t].key
                          /\ \A u \in Sessions \ {t} : ~HoldsKey(u, tx[t].key)'
        OBVIOUS
      <4>1. CASE t = s
        BY <1>2, <2>1, <2>2, <2>4, <3>2, <4>1
      <4>2. CASE t # s
        BY <2>3, <3>1, <3>2, <4>2 DEF KeyedOwn
      <4>3. QED
        BY <4>1, <4>2
    <3>4. \A t \in Sessions :
            /\ \A j \in tx'[t].own : j.key = tx'[t].key
            /\ tx'[t].pc = "idle" => tx'[t].own = {}
            /\ tx'[t].key # NoKey =>
                 CASE tx'[t].pc \in {"posted", "marked"} ->
                        \E j \in tx'[t].own : tx'[t].own = {j} /\ j.id = tx'[t].id
                   [] OTHER -> tx'[t].own = {}
      BY <2>1, <2>3, <2>4 DEF KeyedOwn
    <3>5. QED
      BY <2>1, <3>3, <3>4 DEF KeyedOwn
  <2>15. QED
    BY <2>7, <2>8, <2>9, <2>10, <2>11, <2>12, <2>13, <2>14
<1>3. QED
  BY <1>1, <1>2

LEMMA CommitKeepsInvariant ==
  ASSUME NEW s \in Sessions, LInv, Commit(s)
  PROVE  LInv'
<1> USE DEF LInv
<1>1. /\ journals' = journals \cup tx[s].own
      /\ tx' = [tx EXCEPT ![s] = Idle]
      /\ nextId' = nextId
  BY DEF Commit
<1>2. /\ Idle.own = {} /\ Idle.pc = "idle" /\ Idle.rev = 0
      /\ Idle.id = 0 /\ Idle.key = NoKey
  BY DEF Idle
<1>3. tx'[s] = Idle /\ \A t \in Sessions \ {s} : tx'[t] = tx[t]
  BY <1>1 DEF TypeOK
<1>4. tx[s] \in Transaction /\ nextId \in Nat
  BY DEF TypeOK
<1>5. /\ Visible(s)' = journals'
      /\ \A t \in Sessions \ {s} : Visible(t)' = Visible(t) \cup tx[s].own
  BY <1>1, <1>2, <1>3 DEF Visible
<1>6. \A t \in Sessions : \A r : HoldsRef(t, r)' => HoldsRef(t, r) /\ t # s
  BY <1>2, <1>3 DEF HoldsRef
<1>7. \A t \in Sessions : \A k : HoldsKey(t, k)' => HoldsKey(t, k) /\ t # s
  BY <1>2, <1>3 DEF HoldsKey
<1>8. \A j \in tx[s].own : HoldsRef(s, j.ref)
  BY DEF HoldsRef
<1>9. TypeOK'
  <2>1. tx[s].own \subseteq Journal /\ tx[s].key \in Keys \cup {NoKey} /\ tx[s].id \in Nat
    BY <1>4 DEF Transaction
  <2>2. tx[s].pc = "marked" => tx[s].key # NoKey
    BY DEF KeyedOwn
  <2>3. markers' \subseteq [key : Keys, journal : Nat]
    BY <2>1, <2>2 DEF Commit, TypeOK
  <2>4. QED
    BY <1>1, <2>1, <2>3, IdleType DEF TypeOK
<1>10. IdsBelow'
  <2>1. \A t \in Sessions : tx'[t].id < nextId
    BY <1>2, <1>3, <1>4 DEF IdsBelow, Transaction
  <2>2. QED
    BY <1>1, <1>2, <1>3, <2>1 DEF IdsBelow
<1>11. RefsApart'
  <2>1. \A i, j \in journals' : i.ref = j.ref => i = j
    BY <1>1 DEF RefsApart, Visible
  <2>2. \A t \in Sessions : \A j \in tx'[t].own :
          /\ \A i \in Visible(t)' : i.ref = j.ref => i = j
          /\ \A u \in Sessions \ {t} : ~HoldsRef(u, j.ref)'
    BY <1>2, <1>3, <1>5, <1>6, <1>8 DEF RefsApart
  <2>3. \A t \in Sessions : tx'[t].pc = "seal" =>
          /\ \A i \in Visible(t)' : i.ref # tx'[t].ref
          /\ \A u \in Sessions \ {t} : ~HoldsRef(u, tx[t].ref)'
    BY <1>2, <1>3, <1>5, <1>6, <1>8 DEF RefsApart
  <2>4. QED
    BY <2>1, <2>2, <2>3, <1>2, <1>3 DEF RefsApart
<1>12. ReversalsShaped'
  BY <1>1, <1>2, <1>3 DEF ReversalsShaped, Undoes
<1>13. ChainRooted'
  BY <1>1 DEF ChainRooted, LinksVisible, Visible, Chain
<1>14. LinksVisible'
  BY <1>2, <1>3, <1>5 DEF LinksVisible, Chain
<1>15. KeysApart' /\ KeyedOwn'
  <2>1. CASE tx[s].pc = "marked"
    <3>1. PICK o \in tx[s].own : tx[s].own = {o} /\ o.id = tx[s].id
      BY <2>1 DEF KeyedOwn
    <3>2. tx[s].key # NoKey /\ o.key = tx[s].key /\ \A m \in markers : m.key # tx[s].key
      BY <2>1, <3>1 DEF KeyedOwn
    <3>3. markers' = markers \cup {[key |-> tx[s].key, journal |-> tx[s].id]}
      BY <2>1 DEF Commit
    <3>4. \A j \in journals : j.key # tx[s].key
      BY <3>2 DEF KeysApart
    <3>5. KeysApart'
      <4> DEFINE mark == [key |-> tx[s].key, journal |-> tx[s].id]
      <4>1. /\ mark.key = tx[s].key /\ mark.journal = tx[s].id
            /\ markers' = markers \cup {mark} /\ journals' = journals \cup {o}
        BY <1>1, <3>1, <3>3
      <4> HIDE DEF mark
      <4>2. \A m, n \in markers' : m.key = n.key => m = n
        BY <3>2, <4>1 DEF KeysApart
      <4>3. \A m \in markers' : \E j \in journals' : j.key = m.key /\ j.id = m.journal
        BY <3>1, <3>2, <4>1 DEF KeysApart
      <4>4. \A j \in journals' : j.key # NoKey =>
              \E m \in markers' : m.key = j.key /\ m.journal = j.id
        BY <3>1, <3>2, <4>1 DEF KeysApart
      <4>5. \A i, j \in journals' : i.key # NoKey /\ i.key = j.key => i = j
        BY <3>2, <3>4, <4>1 DEF KeysApart
      <4>6. QED
        BY <4>2, <4>3, <4>4, <4>5 DEF KeysApart
    <3>6. HoldsKey(s, tx[s].key)
      BY <2>1 DEF HoldsKey
    <3>7. \A t \in Sessions \ {s} : tx[t].pc = "marked" => tx[t].key # tx[s].key
      BY <3>6 DEF KeyedOwn
    <3>8. KeyedOwn'
      BY <1>2, <1>3, <1>7, <3>3, <3>7 DEF KeyedOwn
    <3>9. QED
      BY <3>5, <3>8
  <2>2. CASE tx[s].pc = "posted" /\ tx[s].key = NoKey
    <3>1. markers' = markers
      BY <2>2 DEF Commit
    <3>2. \A j \in tx[s].own : j.key = NoKey
      BY <2>2 DEF KeyedOwn
    <3>3. KeysApart'
      BY <1>1, <3>1, <3>2 DEF KeysApart
    <3>4. KeyedOwn'
      BY <1>2, <1>3, <1>7, <3>1 DEF KeyedOwn
    <3>5. QED
      BY <3>3, <3>4
  <2>3. QED
    BY <2>1, <2>2 DEF Commit
<1>16. QED
  BY <1>9, <1>10, <1>11, <1>12, <1>13, <1>14, <1>15

-----------------------------------------------------------------------------
(* The theorems.                                                           *)

\* LInv holds in every state the posting engine reaches: the invariant every
\* property below follows from.
THEOREM LedgerInvariant == Spec => []LInv
<1>1. Init => LInv
  <2> SUFFICES ASSUME Init PROVE LInv
    OBVIOUS
  <2>1. /\ journals = {} /\ markers = {} /\ nextId = 1
        /\ tx = [s \in Sessions |-> Idle]
    BY DEF Init
  <2>2. /\ Idle.own = {} /\ Idle.pc = "idle" /\ Idle.rev = 0
        /\ Idle.id = 0 /\ Idle.key = NoKey
    BY DEF Idle
  <2>3. \A s \in Sessions : tx[s] = Idle /\ Visible(s) = {}
    BY <2>1, <2>2 DEF Visible
  <2>4. TypeOK
    BY <2>1, IdleType DEF TypeOK
  <2>5. IdsBelow
    BY <2>1, <2>2, <2>3 DEF IdsBelow
  <2>6. RefsApart
    BY <2>1, <2>2, <2>3 DEF RefsApart
  <2>7. ReversalsShaped
    BY <2>1, <2>2, <2>3 DEF ReversalsShaped, Undoes
  <2>8. ChainRooted /\ LinksVisible
    BY <2>1, <2>2, <2>3 DEF ChainRooted, LinksVisible
  <2>9. KeysApart
    BY <2>1 DEF KeysApart
  <2>10. KeyedOwn
    BY <2>1, <2>2, <2>3 DEF KeyedOwn
  <2>11. QED
    BY <2>4, <2>5, <2>6, <2>7, <2>8, <2>9, <2>10 DEF LInv
<1>2. LInv /\ [Next]_vars => LInv'
  <2> SUFFICES ASSUME LInv, [Next]_vars PROVE LInv'
    OBVIOUS
  <2>1. ASSUME NEW s \in Sessions, NEW n \in Names, NEW k \in Keys \cup {NoKey},
               NEW lines \in Postings, BeginPost(s, n, k, lines)
        PROVE  LInv'
    BY <2>1, BeginPostKeepsInvariant
  <2>2. ASSUME NEW s \in Sessions, NEW o \in journals, BeginReverse(s, o)
        PROVE  LInv'
    BY <2>2, BeginReverseKeepsInvariant
  <2>3. ASSUME NEW s \in Sessions, NEW n \in Names, NEW lines \in Postings,
               NextPost(s, n, lines)
        PROVE  LInv'
    BY <2>3, NextPostKeepsInvariant
  <2>4. ASSUME NEW s \in Sessions, Proceed(s)
        PROVE  LInv'
    <3>1. BreakDeadlock(s) => Vanish(s)
      BY DEF BreakDeadlock, Vanish
    <3>2. QED
      BY <2>4, <3>1, AllocateIdKeepsInvariant, InsertDraftKeepsInvariant,
         SealKeepsInvariant, RecordMarkerKeepsInvariant, CommitKeepsInvariant,
         VanishKeepsInvariant DEF Proceed
  <2>5. ASSUME NEW s \in Sessions, Rollback(s)
        PROVE  LInv'
    <3>1. Vanish(s)
      BY <2>5 DEF Rollback, Vanish
    <3>2. QED
      BY <3>1, VanishKeepsInvariant
  <2>6. CASE UNCHANGED vars
    BY <2>6 DEF vars, LInv, TypeOK, IdsBelow, RefsApart, ReversalsShaped, Undoes,
       ChainRooted, LinksVisible, KeysApart, KeyedOwn, Visible, HoldsRef, HoldsKey, Chain
  <2>7. QED
    BY <2>1, <2>2, <2>3, <2>4, <2>5, <2>6 DEF Next
<1>3. QED
  BY <1>1, <1>2, PTL DEF Spec

\* Type correctness of the posting engine.
THEOREM LedgerTypes == Spec => []TypeOK
<1>1. LInv => TypeOK
  BY DEF LInv
<1>2. QED
  BY <1>1, LedgerInvariant, PTL

\* However many sessions reverse one journal at the same time, it is undone
\* at most once and by its own mirror image.
THEOREM JournalsReversedOnce == Spec => []ReversedOnce
<1>1. LInv => ReversedOnce
  BY DEF LInv, RefsApart, ReversalsShaped, Undoes, ReversedOnce
<1>2. QED
  BY <1>1, LedgerInvariant, PTL

\* One journal per idempotency key, named by the marker of the key.
THEOREM KeysPostOnce == Spec => []OncePerKey
<1>1. LInv => OncePerKey
  <2> SUFFICES ASSUME LInv, NEW k \in Keys
               PROVE  LET posted == {j \in journals : j.key = k}
                      IN /\ {m.journal : m \in {n \in markers : n.key = k}}
                              = {j.id : j \in posted}
                         /\ \A i, j \in posted : i = j
    BY DEF OncePerKey
  <2>1. k # NoKey
    OBVIOUS
  <2>2. \A i, j \in {j \in journals : j.key = k} : i = j
    BY <2>1 DEF LInv, KeysApart
  <2>3. \A m \in {n \in markers : n.key = k} :
          m.journal \in {j.id : j \in {i \in journals : i.key = k}}
    BY DEF LInv, KeysApart
  <2>4. \A j \in {i \in journals : i.key = k} :
          j.id \in {m.journal : m \in {n \in markers : n.key = k}}
    BY <2>1 DEF LInv, KeysApart
  <2>5. QED
    BY <2>2, <2>3, <2>4
<1>2. QED
  BY <1>1, LedgerInvariant, PTL

\* No committed journal is chained to one that was rolled back.
THEOREM ChainStaysRooted == Spec => []ChainRooted
<1>1. LInv => ChainRooted
  BY DEF LInv
<1>2. QED
  BY <1>1, LedgerInvariant, PTL

-----------------------------------------------------------------------------
(* The books (BooksInv, BooksBalance).                                     *)

\* A step of session s after which it holds w, and that commits what it
\* committed or nothing.
LEMMA BooksStep ==
  ASSUME LInv, BooksInv, NEW s \in Sessions, NEW w,
         tx' = [tx EXCEPT ![s] = w], OneCurrency(w.lines),
         IsFiniteSet(w.own), \A j \in w.own : Balanced(j.lines),
         journals' \in {journals, journals \cup tx[s].own}
  PROVE  BooksInv'
<1>1. tx'[s] = w /\ \A t \in Sessions \ {s} : tx'[t] = tx[t]
  BY DEF LInv, TypeOK
<1>2. IsFiniteSet(journals') /\ \A j \in journals' : Balanced(j.lines)
  BY FS_Union DEF BooksInv
<1>3. QED
  BY <1>1, <1>2 DEF BooksInv

LEMMA MirrorKeepsCurrency ==
  ASSUME NEW l \in Seq(Line), OneCurrency(l)
  PROVE  OneCurrency(Mirror(l))
<1>1. DOMAIN Mirror(l) = DOMAIN l
  BY DEF Mirror
<1>2. ASSUME NEW n \in DOMAIN l PROVE Mirror(l)[n].account = l[n].account
  <2>1. l[n] \in Line
    OBVIOUS
  <2>2. QED
    BY <2>1 DEF Mirror, Line
<1>3. QED
  BY <1>1, <1>2 DEF OneCurrency

LEMMA BooksKept == LInv /\ BooksInv /\ [Next]_vars => BooksInv'
<1> SUFFICES ASSUME LInv, BooksInv, [Next]_vars PROVE BooksInv'
  OBVIOUS
<1> USE DEF LInv
<1>1. OneCurrency(Idle.lines) /\ Idle.own = {} /\ IsFiniteSet({})
  BY FS_EmptySet DEF Idle, OneCurrency
<1>2. \A s \in Sessions : tx[s] \in Transaction
  BY DEF TypeOK
<1>3. ASSUME NEW s \in Sessions, RollbackTo(s), UNCHANGED journals
      PROVE  BooksInv'
  BY <1>1, <1>3, BooksStep DEF RollbackTo
<1>4. ASSUME NEW s \in Sessions, NEW pc, NEW id, UNCHANGED journals,
             \/ tx' = [tx EXCEPT ![s] = [tx[s] EXCEPT !.pc = pc]]
             \/ tx' = [tx EXCEPT ![s] = [tx[s] EXCEPT !.pc = pc, !.id = id]]
      PROVE  BooksInv'
  <2>1. PICK w : /\ tx' = [tx EXCEPT ![s] = w]
                 /\ \/ w = [tx[s] EXCEPT !.pc = pc]
                    \/ w = [tx[s] EXCEPT !.pc = pc, !.id = id]
    BY <1>4
  <2>2. w.lines = tx[s].lines /\ w.own = tx[s].own
    BY <1>2, <2>1 DEF Transaction
  <2>3. QED
    BY <1>4, <2>1, <2>2, BooksStep DEF BooksInv
<1>5. ASSUME NEW s \in Sessions, NEW n \in Names, NEW k \in Keys \cup {NoKey},
             NEW lines \in Postings, BeginPost(s, n, k, lines)
      PROVE  BooksInv'
  <2>1. PICK w : w = [tx[s] EXCEPT !.pc = "alloc", !.ref = NewRef(n),
                                   !.lines = lines, !.rev = 0, !.key = k]
    OBVIOUS
  <2>2. w.lines = lines /\ w.own = tx[s].own
    BY <1>2, <2>1 DEF Transaction
  <2>3. tx' = [tx EXCEPT ![s] = w] /\ UNCHANGED journals /\ OneCurrency(lines)
    BY <1>5, <2>1 DEF BeginPost
  <2>4. QED
    BY <2>2, <2>3, BooksStep DEF BooksInv
<1>6. ASSUME NEW s \in Sessions, NEW o \in journals, BeginReverse(s, o)
      PROVE  BooksInv'
  <2>1. PICK w : w = [tx[s] EXCEPT !.pc = "alloc", !.ref = RevRef(o.id),
                                   !.lines = Mirror(o.lines), !.rev = o.id, !.key = NoKey]
    OBVIOUS
  <2>2. w.lines = Mirror(o.lines) /\ w.own = tx[s].own
    BY <1>2, <2>1 DEF Transaction
  <2>3. tx' = [tx EXCEPT ![s] = w] /\ UNCHANGED journals
    BY <1>6, <2>1 DEF BeginReverse
  <2>4. OneCurrency(w.lines)
    BY <2>2, MirrorKeepsCurrency DEF BooksInv, Balanced, TypeOK, Journal
  <2>5. QED
    BY <2>2, <2>3, <2>4, BooksStep DEF BooksInv
<1>7. ASSUME NEW s \in Sessions, NEW n \in Names, NEW lines \in Postings, NextPost(s, n, lines)
      PROVE  BooksInv'
  <2>1. PICK w : w = [tx[s] EXCEPT !.pc = "alloc", !.ref = NewRef(n), !.lines = lines]
    OBVIOUS
  <2>2. w.lines = lines /\ w.own = tx[s].own
    BY <1>2, <2>1 DEF Transaction
  <2>3. tx' = [tx EXCEPT ![s] = w] /\ UNCHANGED journals /\ OneCurrency(lines)
    BY <1>7, <2>1 DEF NextPost
  <2>4. QED
    BY <2>2, <2>3, BooksStep DEF BooksInv
<1>8. ASSUME NEW s \in Sessions, AllocateId(s) \/ InsertDraft(s) \/ RecordMarker(s)
      PROVE  BooksInv'
  BY <1>3, <1>4, <1>8 DEF AllocateId, InsertDraft, RecordMarker
<1>9. ASSUME NEW s \in Sessions, Seal(s)
      PROVE  BooksInv'
  <2>1. CASE Postable(tx[s].lines)
    <3>1. PICK j : j = [id |-> tx[s].id, ref |-> tx[s].ref, lines |-> tx[s].lines,
                        reverses |-> tx[s].rev, prev |-> TipHash(Visible(s)), key |-> tx[s].key]
      OBVIOUS
    <3>2. PICK w : w = [tx[s] EXCEPT !.pc = "posted", !.own = tx[s].own \cup {j}]
      OBVIOUS
    <3>3. w.lines = tx[s].lines /\ w.own = tx[s].own \cup {j}
      BY <1>2, <3>2 DEF Transaction
    <3>4. tx' = [tx EXCEPT ![s] = w] /\ UNCHANGED journals
      BY <1>9, <2>1, <3>1, <3>2 DEF Seal
    <3>5. Balanced(j.lines)
      BY <2>1, <3>1 DEF Balanced, Postable, BooksInv
    <3>6. IsFiniteSet(w.own) /\ OneCurrency(w.lines)
      BY <3>3, FS_AddElement DEF BooksInv
    <3>7. QED
      BY <3>3, <3>4, <3>5, <3>6, BooksStep DEF BooksInv
  <2>2. CASE ~Postable(tx[s].lines)
    BY <1>3, <1>9, <2>2 DEF Seal
  <2>3. QED
    BY <2>1, <2>2
<1>10. ASSUME NEW s \in Sessions, Commit(s)
       PROVE  BooksInv'
  BY <1>1, <1>10, BooksStep DEF Commit
<1>11. ASSUME NEW s \in Sessions, Rollback(s) \/ BreakDeadlock(s)
       PROVE  BooksInv'
  BY <1>3, <1>11 DEF Rollback, BreakDeadlock
<1>12. CASE UNCHANGED vars
  BY <1>12 DEF vars, BooksInv
<1>13. QED
  BY <1>5, <1>6, <1>7, <1>8, <1>9, <1>10, <1>11, <1>12 DEF Next, Proceed

\* Every journal is balanced in one currency, and there are finitely many.
THEOREM JournalsBalance == Spec => []BooksInv
<1>1. Init => BooksInv
  <2> SUFFICES ASSUME Init PROVE BooksInv
    OBVIOUS
  <2>1. IsFiniteSet({})
    BY FS_EmptySet
  <2>2. \A s \in Sessions : tx[s].lines = <<>> /\ tx[s].own = {}
    BY DEF Init, Idle
  <2>3. OneCurrency(<<>>)
    BY DEF OneCurrency
  <2>4. QED
    BY <2>1, <2>2, <2>3 DEF Init, BooksInv
<1>2. LInv /\ BooksInv /\ [Next]_vars => BooksInv'
  BY BooksKept
<1>3. QED
  BY <1>1, <1>2, LedgerInvariant, PTL DEF Spec

\* What the lines post on one side to account a.
On(lines, a, side) == SumFunctionOnSet(Amounts(lines, side), {n \in DOMAIN lines : lines[n].account = a})

InCurrency(c) == {a \in Accounts : Currency[a] = c}

LEMMA AmountsInt ==
  ASSUME NEW lines \in Seq(Line), NEW side
  PROVE  /\ IsFiniteSet(DOMAIN lines)
         /\ Amounts(lines, side) = [n \in DOMAIN lines |-> Amounts(lines, side)[n]]
         /\ \A n \in DOMAIN lines : Amounts(lines, side)[n] \in Int /\ lines[n].account \in Accounts
         /\ \A a : On(lines, a, side) \in Int
<1>1. IsFiniteSet(DOMAIN lines)
  <2>1. DOMAIN lines = 1 .. Len(lines) /\ Len(lines) \in Nat
    OBVIOUS
  <2>2. QED
    BY <2>1, FS_Interval
<1>2. \A n \in DOMAIN lines : Amounts(lines, side)[n] \in Int /\ lines[n].account \in Accounts
  <2> TAKE n \in DOMAIN lines
  <2>1. lines[n] \in Line
    OBVIOUS
  <2>2. QED
    BY <2>1 DEF Amounts, Line
<1>3. ASSUME NEW a PROVE On(lines, a, side) \in Int
  <2>1. IsFiniteSet({n \in DOMAIN lines : lines[n].account = a})
    BY <1>1, FS_Subset, Zenon
  <2>2. QED
    BY <1>2, <2>1, SumInt DEF On
<1>4. QED
  BY <1>1, <1>2, <1>3 DEF Amounts

\* Over the accounts of currency c, the lines of one currency post their total
\* or nothing.
LEMMA LinesByAccount ==
  ASSUME NEW lines \in Seq(Line), OneCurrency(lines), NEW side, NEW c,
         NEW f, \A a \in InCurrency(c) : f[a] = On(lines, a, side)
  PROVE  SumFunctionOnSet(f, InCurrency(c))
           = IF \E n \in DOMAIN lines : Currency[lines[n].account] = c
             THEN Total(lines, side) ELSE 0
<1>1. PICK w : w = Amounts(lines, side)
  OBVIOUS
<1>2. PICK D : D = DOMAIN lines
  OBVIOUS
<1>3. IsFiniteSet(D) /\ \A n \in D : w[n] \in Int /\ lines[n].account \in Accounts
  BY <1>1, <1>2, AmountsInt
<1>4. IsFiniteSet(InCurrency(c))
  BY FS_Subset, Zenon DEF InCurrency
<1>5. PICK h : h = [a \in InCurrency(c) |-> [n \in D |-> IF lines[n].account = a THEN w[n] ELSE 0]]
  OBVIOUS
<1>6. PICK v : v = [n \in D |-> [a \in InCurrency(c) |-> IF lines[n].account = a THEN w[n] ELSE 0]]
  OBVIOUS
<1>7. PICK g : g = [n \in D |-> SumFunctionOnSet(v[n], InCurrency(c))]
  OBVIOUS
<1>8. ASSUME NEW a \in InCurrency(c)
      PROVE  f[a] = SumFunctionOnSet(h[a], D)
  <2>1. PICK T : T = {n \in D : lines[n].account = a}
    OBVIOUS
  <2>2. PICK R : R = D \ T
    OBVIOUS
  <2>3. IsFiniteSet(T) /\ IsFiniteSet(R) /\ T \cap R = {} /\ D = T \cup R
    <3>1. T \subseteq D /\ R \subseteq D
      BY <2>1, <2>2
    <3>2. IsFiniteSet(T) /\ IsFiniteSet(R)
      BY <1>3, <3>1, FS_Subset, Zenon
    <3>3. QED
      BY <2>2, <3>1, <3>2
  <2>4. \A n \in D : h[a][n] = IF n \in T THEN w[n] ELSE 0
    BY <1>5, <2>1
  <2>5. \A n \in T \cup R : h[a][n] \in Int
    BY <1>3, <2>3, <2>4
  <2>6. SumFunctionOnSet(h[a], D) = SumFunctionOnSet(h[a], T) + SumFunctionOnSet(h[a], R)
    BY <2>3, <2>5, SumUnion
  <2>7. SumFunctionOnSet(h[a], R) = 0
    BY <2>2, <2>3, <2>4, SumZero
  <2>8. SumFunctionOnSet(h[a], T) = SumFunctionOnSet(w, T)
    BY <2>3, <2>4, SumSame
  <2>9. f[a] = SumFunctionOnSet(w, T)
    BY <1>1, <1>2, <2>1 DEF On
  <2>10. SumFunctionOnSet(h[a], T) \in Int
    BY <2>3, <2>5, SumInt
  <2>11. QED
    BY <2>6, <2>7, <2>8, <2>9, <2>10
<1>9. \A a \in InCurrency(c), n \in D : h[a][n] \in Int /\ v[n][a] = h[a][n]
  BY <1>3, <1>5, <1>6
<1>10. SumFunctionOnSet(f, InCurrency(c)) = SumFunctionOnSet(g, D)
  <2>1. \A n \in D : g[n] = SumFunctionOnSet(v[n], InCurrency(c))
    BY <1>7
  <2>2. QED
    <3>1. PICK I : I = InCurrency(c)
      OBVIOUS
    <3>2. IsFiniteSet(I) /\ \A a \in I : f[a] = SumFunctionOnSet(h[a], D)
      BY <1>4, <1>8, <3>1
    <3>3. \A a \in I, n \in D : h[a][n] \in Int /\ v[n][a] = h[a][n]
      BY <1>9, <3>1
    <3>4. \A n \in D : g[n] = SumFunctionOnSet(v[n], I)
      BY <2>1, <3>1
    <3>5. SumFunctionOnSet(f, I) = SumFunctionOnSet(g, D)
      <4>1. SumFunctionOnSet(RowSums(h, I, D), I) = SumFunctionOnSet(RowSums(v, D, I), D)
        BY <1>3, <3>2, <3>3, SumSwap
      <4>2. SumFunctionOnSet(f, I) = SumFunctionOnSet(RowSums(h, I, D), I)
        BY <3>2, SumSame DEF RowSums
      <4>3. SumFunctionOnSet(g, D) = SumFunctionOnSet(RowSums(v, D, I), D)
        BY <1>3, <3>4, SumSame DEF RowSums
      <4>4. QED
        BY <4>1, <4>2, <4>3
    <3>6. QED
      BY <3>1, <3>5
<1>11. ASSUME NEW n \in D
       PROVE  g[n] = IF Currency[lines[n].account] = c THEN w[n] ELSE 0
  <2>1. PICK a \in Accounts : a = lines[n].account
    BY <1>3
  <2>2. \A b \in InCurrency(c) : v[n][b] \in Int /\ v[n][b] = IF b = a THEN w[n] ELSE 0
    BY <1>3, <1>6, <2>1
  <2>3. SumFunctionOnSet(v[n], InCurrency(c)) = IF a \in InCurrency(c) THEN v[n][a] ELSE 0
    BY <1>4, <2>2, SumOne
  <2>4. a \in InCurrency(c) <=> Currency[a] = c
    BY DEF InCurrency
  <2>5. QED
    BY <1>7, <2>1, <2>2, <2>3, <2>4
<1>12. CASE \E n \in DOMAIN lines : Currency[lines[n].account] = c
  <2>1. \A n \in D : Currency[lines[n].account] = c
    BY <1>2, <1>12 DEF OneCurrency
  <2>2. SumFunctionOnSet(g, D) = SumFunctionOnSet(w, D)
    BY <1>3, <1>11, <2>1, SumSame
  <2>3. Total(lines, side) = SumFunctionOnSet(w, D)
    BY <1>1, <1>2 DEF Total, SumFunction, Amounts
  <2>4. QED
    BY <1>10, <1>12, <2>2, <2>3
<1>13. CASE ~\E n \in DOMAIN lines : Currency[lines[n].account] = c
  <2>1. SumFunctionOnSet(g, D) = 0
    BY <1>2, <1>3, <1>11, <1>13, SumZero
  <2>2. QED
    BY <1>10, <1>13, <2>1
<1>14. QED
  BY <1>12, <1>13

\* What the journals post on one side to account a.
Of(a, side) == SumFunction([j \in journals |-> On(j.lines, a, side)])

LEMMA OfInt ==
  ASSUME LInv, BooksInv, NEW a, NEW side
  PROVE  Of(a, side) \in Int
<1>1. PICK f : f = [j \in journals |-> On(j.lines, a, side)]
  OBVIOUS
<1>2. \A j \in journals : f[j] \in Int
  BY <1>1, AmountsInt DEF LInv, TypeOK, Journal
<1>3. Of(a, side) = SumFunctionOnSet(f, journals)
  BY <1>1 DEF Of, SumFunction
<1>4. QED
  BY <1>2, <1>3, SumInt DEF BooksInv

\* Over the accounts of one currency, account by account or journal by journal.
LEMMA JournalsByAccount ==
  ASSUME LInv, BooksInv, NEW c, NEW f, NEW g,
         \A a \in InCurrency(c) : f[a] = Of(a, "DEBIT") /\ g[a] = Of(a, "CREDIT")
  PROVE  SumFunctionOnSet(f, InCurrency(c)) = SumFunctionOnSet(g, InCurrency(c))
<1>1. IsFiniteSet(InCurrency(c)) /\ IsFiniteSet(journals)
  BY FS_Subset, Zenon DEF InCurrency, BooksInv
<1>2. \A j \in journals : j.lines \in Seq(Line) /\ Balanced(j.lines)
  BY DEF LInv, TypeOK, Journal, BooksInv
<1>3. ASSUME NEW side, NEW q, \A a \in InCurrency(c) : q[a] = Of(a, side)
      PROVE  SumFunctionOnSet(q, InCurrency(c))
               = SumFunctionOnSet([j \in journals |->
                    IF \E n \in DOMAIN j.lines : Currency[j.lines[n].account] = c
                    THEN Total(j.lines, side) ELSE 0], journals)
  <2>1. PICK h : h = [a \in InCurrency(c) |-> [j \in journals |-> On(j.lines, a, side)]]
    OBVIOUS
  <2>2. PICK v : v = [j \in journals |-> [a \in InCurrency(c) |-> On(j.lines, a, side)]]
    OBVIOUS
  <2>3. PICK r : r = [j \in journals |->
                        IF \E n \in DOMAIN j.lines : Currency[j.lines[n].account] = c
                        THEN Total(j.lines, side) ELSE 0]
    OBVIOUS
  <2>4. \A a \in InCurrency(c), j \in journals : h[a][j] \in Int /\ v[j][a] = h[a][j]
    BY <1>2, <2>1, <2>2, AmountsInt
  <2>5. \A a \in InCurrency(c) : q[a] = SumFunctionOnSet(h[a], journals)
    BY <1>3, <2>1 DEF Of, SumFunction
  <2>6. ASSUME NEW j \in journals
        PROVE  r[j] = SumFunctionOnSet(v[j], InCurrency(c))
    <3>1. j.lines \in Seq(Line) /\ OneCurrency(j.lines)
      BY <1>2 DEF Balanced
    <3>2. \A a \in InCurrency(c) : v[j][a] = On(j.lines, a, side)
      BY <2>2
    <3>3. QED
      BY <2>3, <3>1, <3>2, LinesByAccount
  <2>7. SumFunctionOnSet(q, InCurrency(c)) = SumFunctionOnSet(r, journals)
    <3>1. PICK I : I = InCurrency(c)
      OBVIOUS
    <3>2. IsFiniteSet(I) /\ \A a \in I : q[a] = SumFunctionOnSet(h[a], journals)
      BY <1>1, <2>5, <3>1
    <3>3. \A a \in I, j \in journals : h[a][j] \in Int /\ v[j][a] = h[a][j]
      BY <2>4, <3>1
    <3>4. \A j \in journals : r[j] = SumFunctionOnSet(v[j], I)
      BY <2>6, <3>1
    <3>5. SumFunctionOnSet(q, I) = SumFunctionOnSet(r, journals)
      <4>1. SumFunctionOnSet(RowSums(h, I, journals), I)
              = SumFunctionOnSet(RowSums(v, journals, I), journals)
        BY <1>1, <3>2, <3>3, SumSwap
      <4>2. SumFunctionOnSet(q, I) = SumFunctionOnSet(RowSums(h, I, journals), I)
        BY <3>2, SumSame DEF RowSums
      <4>3. SumFunctionOnSet(r, journals) = SumFunctionOnSet(RowSums(v, journals, I), journals)
        BY <1>1, <3>4, SumSame DEF RowSums
      <4>4. QED
        BY <4>1, <4>2, <4>3
    <3>6. QED
      BY <3>1, <3>5
  <2>8. QED
    BY <2>3, <2>7
<1>4. PICK d : d = [j \in journals |->
                      IF \E n \in DOMAIN j.lines : Currency[j.lines[n].account] = c
                      THEN Total(j.lines, "DEBIT") ELSE 0]
  OBVIOUS
<1>5. PICK e : e = [j \in journals |->
                      IF \E n \in DOMAIN j.lines : Currency[j.lines[n].account] = c
                      THEN Total(j.lines, "CREDIT") ELSE 0]
  OBVIOUS
<1>6. \A j \in journals : d[j] = e[j]
  BY <1>2, <1>4, <1>5 DEF Balanced
<1>7. SumFunctionOnSet(d, journals) = SumFunctionOnSet(e, journals)
  BY <1>1, <1>6, SumSame
<1>8. SumFunctionOnSet(f, InCurrency(c)) = SumFunctionOnSet(d, journals)
  BY <1>3, <1>4
<1>9. SumFunctionOnSet(g, InCurrency(c)) = SumFunctionOnSet(e, journals)
  BY <1>3, <1>5
<1>10. QED
  BY <1>7, <1>8, <1>9

\* Reconciliation finds no difference, whatever was posted, reversed, rolled
\* back or is half way through.
THEOREM BooksStayBalanced == Spec => []BooksBalance
<1>1. ASSUME LInv, BooksInv PROVE BooksBalance
  <2> SUFFICES ASSUME NEW c
               PROVE  SumFunctionOnSet([a \in Accounts |-> AccountBalance(a)],
                                       {a \in DebitNormal : Currency[a] = c})
                        = SumFunctionOnSet([a \in Accounts |-> AccountBalance(a)],
                                       {a \in Accounts \ DebitNormal : Currency[a] = c})
    BY DEF BooksBalance
  <2>1. PICK b : b = [a \in Accounts |-> AccountBalance(a)]
    OBVIOUS
  <2>2. PICK f : f = [a \in Accounts |-> Of(a, "DEBIT")]
    OBVIOUS
  <2>3. PICK g : g = [a \in Accounts |-> Of(a, "CREDIT")]
    OBVIOUS
  <2>4. PICK S : S = {a \in DebitNormal : Currency[a] = c}
    OBVIOUS
  <2>5. PICK R : R = {a \in Accounts \ DebitNormal : Currency[a] = c}
    OBVIOUS
  <2>6. /\ InCurrency(c) = S \cup R /\ S \cap R = {}
        /\ S \subseteq Accounts /\ R \subseteq Accounts
    BY <2>4, <2>5 DEF InCurrency
  <2>7. IsFiniteSet(S) /\ IsFiniteSet(R)
    BY <2>6, FS_Subset, Zenon
  <2>8. \A a \in Accounts : f[a] \in Int /\ g[a] \in Int
    BY <1>1, <2>2, <2>3, OfInt
  <2>9. \A a \in Accounts : b[a] = IF a \in DebitNormal THEN f[a] - g[a] ELSE -(f[a] - g[a])
    BY <2>1, <2>2, <2>3 DEF AccountBalance, Of, On
  <2>10. \A a \in S : b[a] \in Int /\ f[a] = b[a] + g[a] /\ f[a] \in Int /\ g[a] \in Int
    <3> TAKE a \in S
    <3>1. a \in DebitNormal /\ a \in Accounts
      BY <2>4, <2>6
    <3>2. QED
      BY <2>8, <2>9, <3>1
  <2>11. \A a \in R : b[a] \in Int /\ g[a] = b[a] + f[a] /\ f[a] \in Int /\ g[a] \in Int
    <3> TAKE a \in R
    <3>1. a \notin DebitNormal /\ a \in Accounts
      BY <2>5, <2>6
    <3>2. QED
      BY <2>8, <2>9, <3>1
  <2>12. SumFunctionOnSet(f, S) = SumFunctionOnSet(b, S) + SumFunctionOnSet(g, S)
    BY <2>7, <2>10, SumsAdd
  <2>13. SumFunctionOnSet(g, R) = SumFunctionOnSet(b, R) + SumFunctionOnSet(f, R)
    BY <2>7, <2>11, SumsAdd
  <2>14. SumFunctionOnSet(f, InCurrency(c)) = SumFunctionOnSet(g, InCurrency(c))
    BY <1>1, <2>2, <2>3, JournalsByAccount DEF InCurrency
  <2>15. /\ SumFunctionOnSet(f, InCurrency(c)) = SumFunctionOnSet(f, S) + SumFunctionOnSet(f, R)
         /\ SumFunctionOnSet(g, InCurrency(c)) = SumFunctionOnSet(g, S) + SumFunctionOnSet(g, R)
    BY <2>6, <2>7, <2>8, SumUnion
  <2>16. /\ SumFunctionOnSet(b, S) \in Int /\ SumFunctionOnSet(g, S) \in Int
         /\ SumFunctionOnSet(b, R) \in Int /\ SumFunctionOnSet(f, R) \in Int
    BY <2>7, <2>10, <2>11, SumInt
  <2>17. SumFunctionOnSet(b, S) = SumFunctionOnSet(b, R)
    <3>1. PICK bs \in Int : bs = SumFunctionOnSet(b, S)
      BY <2>16
    <3>2. PICK br \in Int : br = SumFunctionOnSet(b, R)
      BY <2>16
    <3>3. PICK gs \in Int : gs = SumFunctionOnSet(g, S)
      BY <2>16
    <3>4. PICK fr \in Int : fr = SumFunctionOnSet(f, R)
      BY <2>16
    <3>5. (bs + gs) + fr = gs + (br + fr)
      BY <2>12, <2>13, <2>14, <2>15, <3>1, <3>2, <3>3, <3>4
    <3>6. QED
      BY <3>1, <3>2, <3>5
  <2>18. QED
    BY <2>1, <2>4, <2>5, <2>17
<1>2. QED
  BY <1>1, LedgerInvariant, JournalsBalance, PTL
=============================================================================
