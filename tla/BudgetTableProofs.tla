-------------------------- MODULE BudgetTableProofs --------------------------
(***************************************************************************)
(* Lemmas about the table of a budget ledger, for the proofs about every   *)
(* module that keeps one: the ledger itself, the accounting of requests    *)
(* and the background jobs.                                                *)
(***************************************************************************)
EXTENDS BudgetTable, FiniteSetTheorems, TLAPS

-----------------------------------------------------------------------------
(* What maintain() can do to one row.                                      *)
LEMMA MaintainedRowCases ==
    ASSUME NEW r \in Row \cup {NoRow}, NEW t \in 0..MaxTime
    PROVE  LET n == MaintainedRow(r, t) IN
           /\ n \in Row \cup {NoRow}
           /\ r = NoRow => n = NoRow
           /\ n # NoRow =>
                /\ r # NoRow
                /\ n.window = r.window /\ n.scope = r.scope
                /\ n.created = r.created /\ n.dispatched = r.dispatched
                /\ \/ n = r
                   \/ /\ r.settled = 0 /\ r.dispatched /\ n.settled = 2
                      /\ n.micros = r.micros
                   \/ /\ r.settled = 0 /\ ~r.dispatched /\ n.settled = 1
                      /\ n.micros = 0
           /\ r # NoRow /\ n = NoRow => r.created + Retention < t
<1> USE ClockType, MicrosType, NullsAreNull, RetentionLongest
<1> DEFINE e == ExpiredRow(r, t)
<1>1. CASE r = NoRow
  BY <1>1 DEF MaintainedRow, ExpiredRow, Forgotten
<1>2. CASE r # NoRow
  <2>1. r \in Row
    BY <1>2
  <2>2. /\ e \in Row
        /\ e.window = r.window /\ e.scope = r.scope
        /\ e.created = r.created /\ e.dispatched = r.dispatched
        /\ \/ e = r
           \/ r.settled = 0 /\ r.dispatched /\ e.settled = 2 /\ e.micros = r.micros
           \/ r.settled = 0 /\ ~r.dispatched /\ e.settled = 1 /\ e.micros = 0
    <3>1. CASE r.settled # 0 \/ r.created > t - Lease
      BY <2>1, <1>2, <3>1 DEF ExpiredRow
    <3>2. CASE r.settled = 0 /\ ~(r.created > t - Lease) /\ r.dispatched
      <4>1. e = [r EXCEPT !.settled = 2]
        BY <1>2, <3>2 DEF ExpiredRow
      <4>2. e \in Row
        BY <2>1, <4>1 DEF Row
      <4>3. /\ e.window = r.window /\ e.scope = r.scope /\ e.created = r.created
            /\ e.dispatched = r.dispatched /\ e.settled = 2 /\ e.micros = r.micros
        BY <2>1, <4>1 DEF Row
      <4> QED
        BY <3>2, <4>2, <4>3
    <3>3. CASE r.settled = 0 /\ ~(r.created > t - Lease) /\ ~r.dispatched
      <4>1. e = Priced(r, 0)
        BY <1>2, <3>3 DEF ExpiredRow
      <4> QED
        BY <2>1, <3>3, <4>1 DEF Row, Priced
    <3> QED
      BY <3>1, <3>2, <3>3
  <2>3. e # NoRow
    BY <2>2
  <2>4. Forgotten(e, t) => r.created + Retention < t
    BY <2>1, <2>2 DEF Forgotten, Row
  <2> QED
    BY <1>2, <2>1, <2>2, <2>3, <2>4 DEF MaintainedRow
<1> QED
  BY <1>1, <1>2

-----------------------------------------------------------------------------
(* Sums of micros.                                                         *)
LEMMA MicrosFinite ==
    ASSUME NEW S \in SUBSET (Ids \X (1..MaxMicros)), NEW T \in SUBSET S
    PROVE  /\ IsFiniteSet(S) /\ IsFiniteSet(T)
           /\ Cardinality(S) \in Nat /\ Cardinality(T) \in Nat
           /\ Cardinality(T) <= Cardinality(S)
<1>1. IsFiniteSet(1..MaxMicros)
  BY FS_Interval, MicrosType
<1>2. IsFiniteSet(Ids \X (1..MaxMicros))
  BY <1>1, FS_Product, IdsFinite
<1>3. IsFiniteSet(S)
  BY <1>2, FS_Subset
<1>4. IsFiniteSet(T) /\ Cardinality(T) <= Cardinality(S)
  BY <1>3, FS_Subset
<1> QED
  BY <1>3, <1>4, FS_CardinalityType

LEMMA OneRowMicros ==
    ASSUME NEW i \in Ids, NEW n \in 0..MaxMicros
    PROVE  /\ {i} \X (1..n) \in SUBSET (Ids \X (1..MaxMicros))
           /\ IsFiniteSet({i} \X (1..n))
           /\ Cardinality({i} \X (1..n)) = n
<1>1. IsFiniteSet({i}) /\ Cardinality({i}) = 1
  BY FS_Singleton
<1>2. n \in Nat /\ IsFiniteSet(1..n) /\ Cardinality(1..n) = n
  BY FS_Interval, MicrosType
<1>3. /\ IsFiniteSet({i} \X (1..n))
      /\ Cardinality({i} \X (1..n)) = Cardinality({i}) * Cardinality(1..n)
  BY <1>1, <1>2, FS_Product
<1>4. Cardinality({i} \X (1..n)) = n
  BY <1>1, <1>2, <1>3
<1>5. 1..n \subseteq 1..MaxMicros
  BY MicrosType
<1> QED
  BY <1>3, <1>4, <1>5
=============================================================================
