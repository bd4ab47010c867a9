-------------------------- MODULE UsageLedgerProofs --------------------------
(***************************************************************************)
(* Proofs about UsageLedger for every number of rows, ids, principals and  *)
(* batch sizes, and about ResponsesSession for every number of creates and *)
(* lanes and every limit; the two share their facts about least members.   *)
(*                                                                         *)
(* Rollups and owner conditions rest on a count: at every moment the       *)
(* rollup of a key is the number of rows that the trigger or the backfill  *)
(* has counted and whose columns, or whose JSON while they are pending,    *)
(* give that key.  The projection rests on what one round of the reporting *)
(* migration has established so far.  A session rests on where each of its *)
(* creates is: which queue, lane, chain or settlement still holds it.      *)
(***************************************************************************)
EXTENDS UsageLedger, ResponsesSession, FiniteSetTheorems, SequenceTheorems,
        WellFoundedInduction, TLAPS

-----------------------------------------------------------------------------
(* An id has one row; a row without its columns waits for the attribution  *)
(* backfill; a rollup is the number of rows counted under its key.         *)
UniqueIds(d) == \A n, m \in Rows(d) : d.events[n].id = d.events[m].id => n = m
Awaited(d) == \A n \in Rows(d) : ~d.events[n].projected => Pending(d, n)
Rolled(d) == \A k \in Keys : d.rollups[k] = Share(d, Rows(d), d.events, k)

CountsHeld(d) == d \in Database /\ UniqueIds(d) /\ Awaited(d) /\ Rolled(d)

(* The projection holds a retained row as it was ingested.                 *)
Reported(d, n, t) ==
    d.events[n].at >= t - Retention => d.reports[d.events[n].id] = d.events[n].at

(* A round that no unpaired write has disturbed answers for the rows it    *)
(* has passed and for those above its bound; a verified generation for     *)
(* all of them, and for nothing else.                                      *)
RoundHeld(d, t) ==
    d.round => \A n \in Rows(d) : n <= d.report.last \/ n > d.report.upper => Reported(d, n, t)
VerifiedHeld(d, t) ==
    d.verified => /\ \A n \in Rows(d) : Reported(d, n, t)
                  /\ \A i \in Ids : d.reports[i] # Null => RowOf(d, i) # {}

DbInv(d, t) == CountsHeld(d) /\ RoundHeld(d, t) /\ VerifiedHeld(d, t)

(* The inductive invariant.                                                *)
UsageInv == DbInv(db, now) /\ alarm \in {"none", "soon", "daily"} /\ now \in Times

-----------------------------------------------------------------------------
(* Finite sets of rowids: a first, a last, and what counting them gives.   *)
LEMMA RowidsFinite ==
    ASSUME NEW S \in SUBSET Rowids
    PROVE  IsFiniteSet(S) /\ Cardinality(S) \in 0..MaxRowid
<1>1. MaxRowid \in Nat
  BY UsageType
<1>2. IsFiniteSet(Rowids) /\ Cardinality(Rowids) = MaxRowid
  BY <1>1, FS_Interval DEF Rowids
<1>3. IsFiniteSet(S) /\ Cardinality(S) <= Cardinality(Rowids)
  BY <1>2, FS_Subset
<1> QED
  BY <1>1, <1>2, <1>3, FS_CardinalityType

LEMMA DisjointCount ==
    ASSUME NEW S \in SUBSET Rowids, NEW T \in SUBSET Rowids, S \cap T = {}
    PROVE  Cardinality(S \cup T) = Cardinality(S) + Cardinality(T)
<1>1. IsFiniteSet(S) /\ IsFiniteSet(T) /\ Cardinality(S) \in Nat /\ Cardinality(T) \in Nat
  BY RowidsFinite
<1>2. Cardinality(S \cup T) = Cardinality(S) + Cardinality(T) - Cardinality(S \cap T)
  BY <1>1, FS_Union
<1>3. Cardinality(S \cap T) = 0
  BY FS_EmptySet
<1> QED
  BY <1>1, <1>2, <1>3

LEMMA SetHasFirst ==
    ASSUME NEW S \in SUBSET Nat, S # {}
    PROVE  \E x \in S : \A y \in S : x <= y
<1> DEFINE R == OpToRel(<, Nat)
<1>1. IsWellFoundedOn(R, Nat)
  BY NatLessThanWellFounded
<1>2. \A x, y \in Nat : <<y, x>> \in R <=> y < x
  BY DEF OpToRel
<1> HIDE DEF R
<1>3. PICK x \in S : \A y \in S : ~(<<y, x>> \in R)
  BY <1>1, WFMin
<1>4. ASSUME NEW y \in S
      PROVE  x <= y
  <2>1. x \in Nat /\ y \in Nat
    OBVIOUS
  <2>2. ~(y < x)
    BY <1>2, <1>3, <2>1
  <2> QED
    BY <2>1, <2>2
<1> QED
  BY <1>4

LEMMA SetHasLast ==
    ASSUME NEW S \in SUBSET Rowids, S # {}
    PROVE  \E x \in S : \A y \in S : y <= x
<1>1. MaxRowid \in Nat /\ \A x \in S : x \in 1..MaxRowid
  BY UsageType DEF Rowids
<1> DEFINE T == {MaxRowid - x : x \in S}
<1>2. T \in SUBSET Nat /\ T # {}
  BY <1>1
<1>3. PICK z \in T : \A y \in T : z <= y
  BY <1>2, SetHasFirst
<1>4. PICK x \in S : z = MaxRowid - x
  BY <1>3
<1>5. ASSUME NEW y \in S PROVE y <= x
  <2>1. MaxRowid - x <= MaxRowid - y
    BY <1>3, <1>4
  <2> QED
    BY <2>1, <1>1
<1> QED
  BY <1>5

(* Top is above every row.                                                 *)
LEMMA TopIsLast ==
    ASSUME NEW d
    PROVE  /\ Top(d) \in 0..MaxRowid
           /\ \A n \in Rows(d) : n <= Top(d)
<1>1. MaxRowid \in Nat /\ Rows(d) \in SUBSET Rowids
  BY UsageType DEF Rows
<1>2. CASE Rows(d) = {}
  BY <1>1, <1>2 DEF Top
<1>3. CASE Rows(d) # {}
  <2>1. \E x \in Rows(d) : \A y \in Rows(d) : y <= x
    BY <1>1, <1>3, SetHasLast
  <2>2. Top(d) \in Rows(d) /\ \A y \in Rows(d) : y <= Top(d)
    BY <1>3, <2>1 DEF Top
  <2> QED
    BY <1>1, <2>2 DEF Rowids
<1> QED
  BY <1>2, <1>3

(* Counting up to each member numbers a set without gaps.                  *)
Rank(S, n) == Cardinality({m \in S : m <= n})

LEMMA RankGrows ==
    ASSUME NEW S \in SUBSET Rowids, NEW n \in S, NEW m \in S, n < m
    PROVE  Rank(S, n) < Rank(S, m)
<1> DEFINE A == {x \in S : x <= n}
           B == {x \in S : x <= m}
<1>1. \A x \in S : x \in Int
  BY UsageType DEF Rowids
<1>2. A \subseteq B /\ A # B /\ B \in SUBSET Rowids
  BY <1>1
<1>3. IsFiniteSet(A) /\ IsFiniteSet(B) /\ Cardinality(A) \in Nat /\ Cardinality(B) \in Nat
  BY <1>2, RowidsFinite
<1>4. Cardinality(A) <= Cardinality(B) /\ (Cardinality(B) = Cardinality(A) => B = A)
  BY <1>2, <1>3, FS_Subset
<1>5. Cardinality(A) < Cardinality(B)
  BY <1>2, <1>3, <1>4
<1> QED
  BY <1>5 DEF Rank

LEMMA RankBetween ==
    ASSUME NEW S \in SUBSET Rowids, NEW n \in S
    PROVE  Rank(S, n) \in 1..Cardinality(S)
<1> DEFINE A == {x \in S : x <= n}
<1>1. A \in SUBSET S /\ n \in A
  BY UsageType DEF Rowids
<1>2. IsFiniteSet(S) /\ IsFiniteSet(A) /\ Cardinality(A) \in Nat /\ Cardinality(S) \in Nat
  BY <1>1, RowidsFinite
<1>3. Cardinality(A) <= Cardinality(S)
  BY <1>1, <1>2, FS_Subset
<1>4. Cardinality(A) # 0
  BY <1>1, <1>2, FS_EmptySet
<1> QED
  BY <1>2, <1>3, <1>4 DEF Rank

LEMMA RankReachesAll ==
    ASSUME NEW S \in SUBSET Rowids, NEW c \in 1..Cardinality(S)
    PROVE  \E n \in S : Rank(S, n) = c
<1> DEFINE K == Cardinality(S)
           f == [n \in S |-> Rank(S, n)]
<1>1. IsFiniteSet(S) /\ K \in Nat
  BY RowidsFinite
<1>2. f \in [S -> 1..K]
  BY RankBetween
<1>3. ASSUME NEW n \in S, NEW m \in S, f[n] = f[m] PROVE n = m
  <2>1. Rank(S, n) = Rank(S, m) /\ Rank(S, n) \in 1..K
    BY <1>3, RankBetween
  <2>2. ~(n < m) /\ ~(m < n)
    BY <1>1, <2>1, RankGrows
  <2>3. n \in Int /\ m \in Int
    BY UsageType DEF Rowids
  <2> QED
    BY <2>2, <2>3
<1>4. f \in Injection(S, 1..K)
  BY <1>2, <1>3 DEF Injection, IsInjective
<1>5. IsFiniteSet(1..K) /\ Cardinality(1..K) = K
  BY <1>1, FS_Interval
<1>6. f \in Surjection(S, 1..K)
  BY <1>4, <1>5, FS_Injection
<1>7. PICK n \in S : f[n] = c
  BY <1>6 DEF Surjection
<1> QED
  BY <1>7

-----------------------------------------------------------------------------
(* A walk by rowid, LIMIT size: it takes the first rows of the range, and  *)
(* it has met all of them when it takes fewer than size or ends at upper.  *)
LEMMA BatchIsFirst ==
    ASSUME NEW d, NEW last \in 0..MaxRowid, NEW upper \in 0..MaxRowid, last <= upper,
           NEW size \in Nat \ {0}
    PROVE  LET B == Batch(d, last, upper, size)
               L == LastOf(B, upper)
           IN  /\ B \in SUBSET Rows(d)
               /\ L \in last..upper
               /\ \A n \in Rows(d) : n \in B <=> last < n /\ n <= L
               /\ Cardinality(B) < size \/ L = upper =>
                     \A n \in Rows(d) : last < n /\ n <= upper => n \in B
<1> DEFINE R == {n \in Rows(d) : last < n /\ n <= upper}
           below(n) == {m \in R : m < n}
           B == Batch(d, last, upper, size)
           L == LastOf(B, upper)
<1>1. MaxRowid \in Nat /\ R \in SUBSET Rowids /\ \A n \in R : n \in Nat /\ last < n /\ n <= upper
  BY UsageType DEF Rows, Rowids
<1>2. B = {n \in R : Cardinality(below(n)) < size}
  BY DEF Batch
<1> HIDE DEF B
<1>3. ASSUME NEW n \in R, NEW S \in SUBSET R, below(n) \subseteq S, Cardinality(S) < size
      PROVE  n \in B
  <2>1. IsFiniteSet(S) /\ Cardinality(S) \in Nat
    BY <1>1, RowidsFinite
  <2>2. below(n) \in SUBSET S /\ below(n) \in SUBSET Rowids
    BY <1>1, <1>3
  <2>3. Cardinality(below(n)) <= Cardinality(S) /\ Cardinality(below(n)) \in Nat
    BY <2>1, <2>2, FS_Subset, RowidsFinite
  <2> QED
    BY <1>2, <1>3, <2>1, <2>3
<1>4. ASSUME NEW n \in R, NEW m \in B, n <= m PROVE n \in B
  <2>1. m \in R /\ Cardinality(below(m)) < size
    BY <1>2
  <2>2. below(n) \subseteq below(m)
    BY <1>1, <1>4, <2>1
  <2> QED
    BY <1>3, <2>1, <2>2
<1>5. ASSUME Cardinality(B) < size PROVE R \subseteq B
  <2>1. SUFFICES ASSUME R \ B # {} PROVE FALSE
    OBVIOUS
  <2>2. R \ B \in SUBSET Nat
    BY <1>1
  <2>3. PICK n \in R \ B : \A m \in R \ B : n <= m
    BY <2>1, <2>2, SetHasFirst
  <2>4. below(n) \subseteq B /\ B \in SUBSET R
    BY <1>1, <1>2, <2>3
  <2> QED
    BY <1>3, <1>5, <2>3, <2>4
<1>6. CASE B = {}
  <2>1. R = {}
    BY <1>5, <1>6, FS_EmptySet
  <2>2. L = upper
    BY <1>6 DEF LastOf
  <2> QED
    BY <1>1, <1>6, <2>1, <2>2 DEF B
<1>7. CASE B # {}
  <2>1. B \in SUBSET Rowids /\ B \subseteq R
    BY <1>1, <1>2
  <2>2. \E x \in B : \A y \in B : y <= x
    BY <1>7, <2>1, SetHasLast
  <2>3. L \in B /\ \A y \in B : y <= L
    BY <1>7, <2>2 DEF LastOf
  <2>4. L \in R
    BY <2>1, <2>3
  <2>5. L \in last..upper
    BY <1>1, <2>4
  <2> HIDE DEF L
  <2>6. \A n \in Rows(d) : last < n /\ n <= L => n \in R
    BY <1>1, <2>5, UsageType DEF Rows, Rowids
  <2>7. \A n \in Rows(d) : n \in B <=> last < n /\ n <= L
    BY <1>1, <1>4, <2>1, <2>3, <2>6
  <2>8. Cardinality(B) < size \/ L = upper =>
           \A n \in Rows(d) : last < n /\ n <= upper => n \in B
    BY <1>5, <2>7
  <2>9. B \in SUBSET Rows(d)
    BY <2>1
  <2> QED
    BY <2>5, <2>7, <2>8, <2>9 DEF B, L
<1> QED
  BY <1>6, <1>7

-----------------------------------------------------------------------------
(* The key of a row, once Awaited says that a row without columns is    *)
(* pending, and the rows a rollup counts.                                  *)
PlainKey(e) ==
    IF e.projected /\ Normal[RawOf[e.id]] # Null THEN Normal[RawOf[e.id]] ELSE RawOf[e.id]
Group(d, k) == {n \in Rows(d) : Counted(d, n) /\ PlainKey(d.events[n]) = k}
GroupsHeld(d) == \A k \in Keys : d.rollups[k] = Cardinality(Group(d, k))

LEMMA RowIsEvent ==
    ASSUME NEW d \in Database, NEW n \in Rows(d)
    PROVE  d.events[n] \in Event /\ n \in Rowids /\ n \in 1..MaxRowid
  BY DEF Rows, Database, Rowids

LEMMA PlainKeyType ==
    ASSUME NEW e \in Event
    PROVE  PlainKey(e) \in Raws /\ Normal[PlainKey(e)] = Normal[RawOf[e.id]]
<1>1. e.id \in Ids /\ RawOf[e.id] \in Raws /\ Normal[RawOf[e.id]] \in Raws \cup {Null}
  BY UsageType DEF Event
<1> QED
  BY <1>1, NormalIdempotent DEF PlainKey

LEMMA KeyIsPlain ==
    ASSUME NEW d \in Database, NEW n, NEW e \in Event, ~e.projected => Pending(d, n)
    PROVE  KeyOf(d, n, e) = PlainKey(e)
<1>1. e.projected \in BOOLEAN
  BY DEF Event
<1> QED
  BY <1>1 DEF KeyOf, PlainKey

LEMMA ShareIsGroup ==
    ASSUME NEW d \in Database, Awaited(d), NEW rows \in SUBSET Rows(d), NEW k
    PROVE  Share(d, rows, d.events, k) = Cardinality(Group(d, k) \cap rows)
<1>1. ASSUME NEW n \in rows PROVE KeyOf(d, n, d.events[n]) = PlainKey(d.events[n])
  <2>1. n \in Rows(d) /\ d.events[n] \in Event
    BY RowIsEvent
  <2>2. ~d.events[n].projected => Pending(d, n)
    BY <2>1 DEF Awaited
  <2> QED
    BY <2>1, <2>2, KeyIsPlain
<1>2. {n \in rows : Counted(d, n) /\ KeyOf(d, n, d.events[n]) = k} = Group(d, k) \cap rows
  BY <1>1 DEF Group
<1> QED
  BY <1>2 DEF Share

LEMMA GroupFinite ==
    ASSUME NEW d, NEW k
    PROVE  /\ Group(d, k) \in SUBSET Rowids /\ IsFiniteSet(Group(d, k))
           /\ Cardinality(Group(d, k)) \in 0..MaxRowid
<1>1. Group(d, k) \in SUBSET Rowids
  BY DEF Group, Rows
<1> QED
  BY <1>1, RowidsFinite

LEMMA RolledIsGroups ==
    ASSUME NEW d \in Database, Awaited(d)
    PROVE  Rolled(d) <=> GroupsHeld(d)
<1>1. ASSUME NEW k PROVE Share(d, Rows(d), d.events, k) = Cardinality(Group(d, k))
  <2>1. Group(d, k) \cap Rows(d) = Group(d, k)
    BY DEF Group
  <2> QED
    BY <2>1, ShareIsGroup
<1> QED
  BY <1>1 DEF Rolled, GroupsHeld

(* What only the projection and its markers change leaves the counts.      *)
SameCounts(g, d) ==
    /\ g.events = d.events /\ g.rollups = d.rollups
    /\ g.attribution = d.attribution /\ g.rollup = d.rollup

LEMMA CountsFrame ==
    ASSUME NEW d, NEW g \in Database, CountsHeld(d), SameCounts(g, d)
    PROVE  CountsHeld(g)
<1>1. Rows(g) = Rows(d)
  BY DEF Rows, SameCounts
<1>2. \A n : Pending(g, n) = Pending(d, n) /\ Counted(g, n) = Counted(d, n)
  BY DEF Pending, Counted, SameCounts
<1>3. \A n, e : KeyOf(g, n, e) = KeyOf(d, n, e)
  BY <1>2 DEF KeyOf
<1>4. \A k : Share(g, Rows(g), g.events, k) = Share(d, Rows(d), d.events, k)
  BY <1>1, <1>2, <1>3 DEF Share, SameCounts
<1> QED
  BY <1>1, <1>2, <1>4 DEF CountsHeld, UniqueIds, Awaited, Rolled, SameCounts

-----------------------------------------------------------------------------
(* DELETE: the rows leave, their groups shrink by them, their projection   *)
(* is dropped.                                                             *)
DeletedFrom(g, d, rows) ==
    /\ g \in Database
    /\ g.events = [n \in Rowids |-> IF n \in rows THEN NoEvent ELSE d.events[n]]
    /\ g.reports = [i \in Ids |-> IF i \in IdsOf(d, rows) THEN Null ELSE d.reports[i]]
    /\ g.rollups = [k \in Keys |-> Cardinality(Group(d, k) \ rows)]
    /\ g.attribution = d.attribution /\ g.rollup = d.rollup /\ g.report = d.report
    /\ g.verified = (d.verified /\ rows = {})
    /\ g.round = (d.round /\ rows = {})

LEMMA DeletedIs ==
    ASSUME NEW d, CountsHeld(d), NEW rows \in SUBSET Rows(d)
    PROVE  DeletedFrom(EventsDeleted(d, rows), d, rows)
<1> DEFINE events == [n \in Rowids |-> IF n \in rows THEN NoEvent ELSE d.events[n]]
           reports == [i \in Ids |-> IF i \in IdsOf(d, rows) THEN Null ELSE d.reports[i]]
           rollups == [k \in Keys |-> Cardinality(Group(d, k) \ rows)]
           g == EventsDeleted(d, rows)
<1>1. d \in Database /\ Awaited(d) /\ GroupsHeld(d)
  BY RolledIsGroups DEF CountsHeld
<1>2. Removed(d, rows) = rollups
  <2>1. ASSUME NEW k \in Keys
        PROVE  /\ Cardinality(Group(d, k) \ rows) \in Nat
               /\ d.rollups[k] - Share(d, rows, d.events, k) = Cardinality(Group(d, k) \ rows)
    <3>1. IsFiniteSet(Group(d, k) \ rows)
          /\ Cardinality(Group(d, k) \ rows) =
                Cardinality(Group(d, k)) - Cardinality(Group(d, k) \cap rows)
      BY GroupFinite, FS_Difference
    <3>2. Share(d, rows, d.events, k) = Cardinality(Group(d, k) \cap rows)
      BY <1>1, ShareIsGroup
    <3>3. d.rollups[k] = Cardinality(Group(d, k))
      BY <1>1 DEF GroupsHeld
    <3> QED
      BY <3>1, <3>2, <3>3, FS_CardinalityType
  <2> QED
    BY <2>1 DEF Removed
<1>3. events \in [Rowids -> Event \cup {NoEvent}]
  BY <1>1 DEF Database
<1>4. reports \in [Ids -> Times \cup {Null}]
  BY <1>1 DEF Database
<1>5. rollups \in [Keys -> 0..MaxRowid]
  <2>1. ASSUME NEW k \in Keys PROVE Cardinality(Group(d, k) \ rows) \in 0..MaxRowid
    <3>1. Group(d, k) \ rows \in SUBSET Rowids
      BY GroupFinite
    <3> QED
      BY <3>1, RowidsFinite
  <2> QED
    BY <2>1
<1> HIDE DEF events, reports, rollups
<1>6. g = [d EXCEPT !.reports = reports, !.verified = d.verified /\ rows = {},
                    !.round = d.round /\ rows = {}, !.events = events, !.rollups = rollups]
  BY <1>1, <1>2 DEF EventsDeleted, Uncovered, Database, events, reports
<1> HIDE DEF g
<1>7. /\ g \in Database
      /\ g.events = events /\ g.reports = reports /\ g.rollups = rollups
      /\ g.attribution = d.attribution /\ g.rollup = d.rollup /\ g.report = d.report
      /\ g.verified = (d.verified /\ rows = {}) /\ g.round = (d.round /\ rows = {})
  BY <1>1, <1>3, <1>4, <1>5, <1>6 DEF Database
<1> QED
  BY <1>7 DEF DeletedFrom, g, events, reports, rollups

LEMMA DeletedRows ==
    ASSUME NEW d, CountsHeld(d), NEW rows \in SUBSET Rows(d)
    PROVE  LET g == EventsDeleted(d, rows)
           IN  /\ Rows(g) = Rows(d) \ rows
               /\ \A n \in Rows(g) : g.events[n] = d.events[n]
<1> DEFINE g == EventsDeleted(d, rows)
<1>0. DeletedFrom(g, d, rows)
  BY DeletedIs
<1> HIDE DEF g
<1>1. g.events = [n \in Rowids |-> IF n \in rows THEN NoEvent ELSE d.events[n]]
  BY <1>0 DEF DeletedFrom
<1>2. Rows(g) = Rows(d) \ rows /\ \A n \in Rows(g) : g.events[n] = d.events[n]
  BY <1>1 DEF Rows
<1> QED
  BY <1>2 DEF g

LEMMA DeletedCounts ==
    ASSUME NEW d, CountsHeld(d), NEW rows \in SUBSET Rows(d)
    PROVE  CountsHeld(EventsDeleted(d, rows))
<1> DEFINE g == EventsDeleted(d, rows)
<1>0. /\ DeletedFrom(g, d, rows)
      /\ Rows(g) = Rows(d) \ rows /\ \A n \in Rows(g) : g.events[n] = d.events[n]
  BY DeletedIs, DeletedRows
<1> HIDE DEF g
<1>1. /\ g \in Database
      /\ g.rollups = [k \in Keys |-> Cardinality(Group(d, k) \ rows)]
      /\ g.attribution = d.attribution /\ g.rollup = d.rollup
  BY <1>0 DEF DeletedFrom
<1>2. Rows(g) = Rows(d) \ rows /\ \A n \in Rows(g) : g.events[n] = d.events[n]
  BY <1>0
<1>3. UniqueIds(g)
  BY <1>2 DEF UniqueIds, CountsHeld
<1>4. \A n : Pending(g, n) = Pending(d, n) /\ Counted(g, n) = Counted(d, n)
  BY <1>1 DEF Pending, Counted
<1>5. Awaited(g)
  BY <1>2, <1>4 DEF Awaited, CountsHeld
<1>6. ASSUME NEW k \in Keys PROVE Group(g, k) = Group(d, k) \ rows
  BY <1>2, <1>4 DEF Group
<1>7. Rolled(g)
  BY <1>1, <1>5, <1>6, RolledIsGroups DEF GroupsHeld
<1> QED
  BY <1>1, <1>3, <1>5, <1>7 DEF CountsHeld, g

(* An unpaired delete ends the round and the verified generation.          *)
LEMMA DeletedHeld ==
    ASSUME NEW d, NEW t \in Times, DbInv(d, t), NEW rows \in SUBSET Rows(d)
    PROVE  DbInv(EventsDeleted(d, rows), t)
<1> DEFINE g == EventsDeleted(d, rows)
<1>1. CountsHeld(d) /\ RoundHeld(d, t) /\ VerifiedHeld(d, t) /\ d \in Database
  BY DEF DbInv, CountsHeld
<1>2. /\ DeletedFrom(g, d, rows) /\ CountsHeld(g)
      /\ Rows(g) = Rows(d) \ rows /\ \A n \in Rows(g) : g.events[n] = d.events[n]
  BY <1>1, DeletedIs, DeletedRows, DeletedCounts
<1> HIDE DEF g
<1>3. CASE rows # {}
  <2>1. ~g.verified /\ ~g.round
    BY <1>2, <1>3 DEF DeletedFrom
  <2> QED
    BY <1>2, <2>1 DEF DbInv, RoundHeld, VerifiedHeld, g
<1>4. CASE rows = {}
  <2>1. /\ Rows(g) = Rows(d) /\ g.report = d.report
        /\ g.verified = d.verified /\ g.round = d.round
        /\ d.verified \in BOOLEAN /\ d.round \in BOOLEAN
    BY <1>1, <1>2, <1>4 DEF DeletedFrom, Database
  <2>2. \A i \in Ids : g.reports[i] = d.reports[i]
    BY <1>2, <1>4 DEF DeletedFrom, IdsOf
  <2>3. \A n \in Rows(d) : g.events[n] = d.events[n] /\ d.events[n].id \in Ids
    BY <1>1, <1>2, <2>1, RowIsEvent DEF Event
  <2>4. \A i \in Ids : RowOf(g, i) = RowOf(d, i)
    BY <2>1, <2>3 DEF RowOf
  <2>5. \A n \in Rows(d) : Reported(g, n, t) = Reported(d, n, t)
    BY <2>2, <2>3 DEF Reported
  <2>6. RoundHeld(g, t) /\ VerifiedHeld(g, t)
    BY <1>1, <2>1, <2>2, <2>4, <2>5 DEF RoundHeld, VerifiedHeld
  <2> QED
    BY <1>2, <2>6 DEF DbInv, g
<1> QED
  BY <1>3, <1>4

(* cleanup(): with the rows beyond retention their projection goes, and    *)
(* nothing that a report would answer with.                                *)
LEMMA CleanedUpIs ==
    ASSUME NEW d, CountsHeld(d), NEW t \in Times
    PROVE  LET rows == Expired(d, t)
               gone == EventsDeleted(d, rows)
               g == CleanedUp(d, t)
           IN  /\ rows \in SUBSET Rows(d)
               /\ g \in Database /\ SameCounts(g, gone) /\ g.report = d.report
               /\ g.verified = d.verified /\ g.round = d.round
               /\ g.reports = [i \in Ids |->
                     IF gone.reports[i] # Null /\ gone.reports[i] < t - Retention
                     THEN Null ELSE gone.reports[i]]
<1> DEFINE rows == Expired(d, t)
           gone == EventsDeleted(d, rows)
           g == CleanedUp(d, t)
           reports == [i \in Ids |->
                         IF gone.reports[i] # Null /\ gone.reports[i] < t - Retention
                         THEN Null ELSE gone.reports[i]]
<1>1. rows \in SUBSET Rows(d)
  BY DEF Expired
<1>2. DeletedFrom(gone, d, rows)
  BY <1>1, DeletedIs
<1>3. g = Paired(d, [gone EXCEPT !.reports = reports])
  BY DEF CleanedUp
<1> HIDE DEF rows, gone, g
<1>4. gone \in Database /\ gone.report = d.report
  BY <1>2 DEF DeletedFrom
<1>5. d.verified \in BOOLEAN /\ d.round \in BOOLEAN
  BY DEF CountsHeld, Database
<1>6. reports \in [Ids -> Times \cup {Null}]
  BY <1>4 DEF Database
<1> HIDE DEF reports
<1>7. g = [gone EXCEPT !.reports = reports, !.verified = d.verified, !.round = d.round]
  BY <1>3, <1>4 DEF Paired, Database
<1>8. /\ g \in Database /\ g.report = d.report /\ SameCounts(g, gone)
      /\ g.verified = d.verified /\ g.round = d.round /\ g.reports = reports
  BY <1>4, <1>5, <1>6, <1>7 DEF Database, SameCounts
<1> QED
  BY <1>1, <1>8 DEF rows, gone, g, reports

LEMMA CleanedUpHeld ==
    ASSUME NEW d, NEW t \in Times, DbInv(d, t)
    PROVE  DbInv(CleanedUp(d, t), t)
<1> DEFINE rows == Expired(d, t)
           gone == EventsDeleted(d, rows)
           g == CleanedUp(d, t)
<1>1. CountsHeld(d) /\ RoundHeld(d, t) /\ VerifiedHeld(d, t) /\ d \in Database /\ UniqueIds(d)
  BY DEF DbInv, CountsHeld
<1>2. /\ rows \in SUBSET Rows(d)
      /\ g \in Database /\ SameCounts(g, gone) /\ g.report = d.report
      /\ g.verified = d.verified /\ g.round = d.round
      /\ g.reports = [i \in Ids |->
            IF gone.reports[i] # Null /\ gone.reports[i] < t - Retention
            THEN Null ELSE gone.reports[i]]
  BY <1>1, CleanedUpIs
<1>3. /\ DeletedFrom(gone, d, rows) /\ CountsHeld(gone)
      /\ Rows(gone) = Rows(d) \ rows /\ \A n \in Rows(gone) : gone.events[n] = d.events[n]
  BY <1>1, <1>2, DeletedIs, DeletedRows, DeletedCounts
<1> HIDE DEF rows, gone, g
<1>4. CountsHeld(g)
  BY <1>2, <1>3, CountsFrame
<1>5. Rows(g) = Rows(d) \ rows /\ \A n \in Rows(g) : g.events[n] = d.events[n]
  BY <1>2, <1>3 DEF SameCounts, Rows
<1>6. gone.reports = [i \in Ids |-> IF i \in IdsOf(d, rows) THEN Null ELSE d.reports[i]]
  BY <1>3 DEF DeletedFrom
<1>7. ASSUME NEW n \in Rows(g), Reported(d, n, t) PROVE Reported(g, n, t)
  <2>1. n \in Rows(d) /\ n \notin rows /\ d.events[n] \in Event
    BY <1>1, <1>5, RowIsEvent
  <2>2. d.events[n].id \in Ids /\ d.events[n].at \in Times
    BY <2>1 DEF Event
  <2>3. d.events[n].id \notin IdsOf(d, rows)
    BY <1>1, <1>2, <2>1 DEF IdsOf, UniqueIds
  <2>4. gone.reports[d.events[n].id] = d.reports[d.events[n].id]
    BY <1>6, <2>2, <2>3
  <2>5. d.events[n].at >= t - Retention => g.reports[d.events[n].id] = d.events[n].at
    <3>1. t \in Int /\ Retention \in Int /\ d.events[n].at \in Int
      BY <2>2, UsageType DEF Times
    <3> QED
      BY <1>2, <1>7, <2>2, <2>4, <3>1 DEF Reported
  <2> QED
    BY <1>5, <2>5 DEF Reported
<1>8. ASSUME NEW i \in Ids, g.reports[i] # Null, RowOf(d, i) # {} PROVE RowOf(g, i) # {}
  <2>1. i \notin IdsOf(d, rows)
    BY <1>2, <1>6, <1>8
  <2>2. PICK n \in Rows(d) : d.events[n].id = i
    BY <1>8 DEF RowOf
  <2>3. n \notin rows
    BY <2>1, <2>2 DEF IdsOf
  <2> QED
    BY <1>5, <2>2, <2>3 DEF RowOf
<1>9. \A i \in Ids : g.reports[i] # Null => d.reports[i] # Null
  BY <1>2, <1>6
<1>10. RoundHeld(g, t)
  BY <1>1, <1>2, <1>5, <1>7 DEF RoundHeld
<1>11. VerifiedHeld(g, t)
  BY <1>1, <1>2, <1>5, <1>7, <1>8, <1>9 DEF VerifiedHeld
<1> QED
  BY <1>4, <1>10, <1>11 DEF DbInv, g

-----------------------------------------------------------------------------
(* INSERT: one row above all the others, counted by the trigger unless the *)
(* rollup backfill has yet to come to its rowid.                           *)
InsertedInto(g, d, i, at) ==
    LET n == Top(d) + 1
        e == [id |-> i, at |-> at, projected |-> TRUE]
    IN  /\ g \in Database
        /\ Rows(g) = Rows(d) \cup {n} /\ n \in Rowids /\ n \notin Rows(d)
        /\ g.events[n] = e /\ \A m \in Rows(d) : g.events[m] = d.events[m]
        /\ g.reports = d.reports /\ ~g.verified /\ ~g.round
        /\ g.attribution = d.attribution /\ g.rollup = d.rollup /\ g.report = d.report
        /\ \A k \in Keys : g.rollups[k] = Cardinality(Group(g, k))

LEMMA InsertedIs ==
    ASSUME NEW d, CountsHeld(d), NEW i \in Ids, NEW at \in Times, Top(d) < MaxRowid
    PROVE  InsertedInto(EventInserted(d, i, at), d, i, at)
<1> DEFINE n == Top(d) + 1
           e == [id |-> i, at |-> at, projected |-> TRUE]
           events == [d.events EXCEPT ![n] = e]
           rollups == [k \in Keys |-> d.rollups[k] + Share(d, {n}, events, k)]
           reports == [j \in Ids |-> IF j \in {} THEN Null ELSE d.reports[j]]
           g == EventInserted(d, i, at)
<1>1. d \in Database /\ Awaited(d) /\ GroupsHeld(d)
  BY RolledIsGroups DEF CountsHeld
<1>2. n \in Rowids /\ n \notin Rows(d)
  <2>1. Top(d) \in 0..MaxRowid /\ (\A m \in Rows(d) : m <= Top(d)) /\ MaxRowid \in Nat
    BY TopIsLast, UsageType
  <2> QED
    BY <2>1 DEF Rowids
<1>3. e \in Event
  BY DEF Event
<1>4. events \in [Rowids -> Event \cup {NoEvent}] /\ events[n] = e
      /\ \A m \in Rowids : m # n => events[m] = d.events[m]
  BY <1>1, <1>2, <1>3 DEF Database
<1>5. reports = d.reports
  BY <1>1 DEF Database
<1>6. g = [d EXCEPT !.reports = reports, !.verified = FALSE, !.round = FALSE,
                    !.events = events, !.rollups = rollups]
  BY <1>1 DEF EventInserted, Uncovered, Added, Database
<1> HIDE DEF n, e, events, rollups, reports, g
<1>7. /\ g.events = events /\ g.reports = d.reports /\ g.rollups = rollups
      /\ ~g.verified /\ ~g.round
      /\ g.attribution = d.attribution /\ g.rollup = d.rollup /\ g.report = d.report
  BY <1>1, <1>5, <1>6 DEF Database
<1>8. Rows(g) = Rows(d) \cup {n}
  BY <1>2, <1>3, <1>4, <1>7, NoEventIsNone DEF Rows
<1>9. \A m \in Rows(d) : g.events[m] = d.events[m]
  BY <1>2, <1>4, <1>7 DEF Rows
<1>10. ASSUME NEW k \in Keys PROVE g.rollups[k] = Cardinality(Group(g, k))
  <2> DEFINE new == {m \in {n} : Counted(d, m) /\ KeyOf(d, m, events[m]) = k}
  <2>1. Counted(g, n) = Counted(d, n) /\ \A m \in Rows(d) : Counted(g, m) = Counted(d, m)
    BY <1>7 DEF Counted
  <2>2. KeyOf(d, n, events[n]) = PlainKey(g.events[n])
    BY <1>1, <1>3, <1>4, <1>7, KeyIsPlain DEF e
  <2>3. Group(g, k) = Group(d, k) \cup new
    BY <1>8, <1>9, <2>1, <2>2 DEF Group
  <2>4. Group(d, k) \cap new = {}
    BY <1>2 DEF Group
  <2>5. new \in SUBSET Rowids
    BY <1>2
  <2>6. Group(d, k) \in SUBSET Rowids
    BY GroupFinite
  <2> HIDE DEF new
  <2>7. Cardinality(Group(g, k)) = Cardinality(Group(d, k)) + Cardinality(new)
    BY <2>3, <2>4, <2>5, <2>6, DisjointCount
  <2>8. g.rollups[k] = d.rollups[k] + Cardinality(new)
    BY <1>7 DEF rollups, Share, new
  <2> QED
    BY <1>1, <2>7, <2>8 DEF GroupsHeld
<1>11. rollups \in [Keys -> 0..MaxRowid]
  <2>1. ASSUME NEW k \in Keys PROVE g.rollups[k] \in 0..MaxRowid
    BY <1>10, GroupFinite
  <2>2. rollups = [k \in Keys |-> rollups[k]]
    BY DEF rollups
  <2> QED
    BY <1>7, <2>1, <2>2
<1>12. g \in Database
  BY <1>1, <1>4, <1>5, <1>6, <1>11 DEF Database
<1> QED
  BY <1>2, <1>4, <1>7, <1>8, <1>9, <1>10, <1>12 DEF InsertedInto, n, e, g

LEMMA InsertedCounts ==
    ASSUME NEW d, CountsHeld(d), NEW i \in Ids, NEW at \in Times, Top(d) < MaxRowid,
           RowOf(d, i) = {}
    PROVE  CountsHeld(EventInserted(d, i, at))
<1> DEFINE g == EventInserted(d, i, at)
           n == Top(d) + 1
<1>1. InsertedInto(g, d, i, at)
  BY InsertedIs
<1> HIDE DEF g
<1>2. /\ g \in Database /\ Rows(g) = Rows(d) \cup {n} /\ n \notin Rows(d)
      /\ g.events[n].id = i /\ g.events[n].projected
      /\ \A m \in Rows(d) : g.events[m] = d.events[m]
      /\ g.attribution = d.attribution /\ g.rollup = d.rollup /\ GroupsHeld(g)
  BY <1>1 DEF InsertedInto, GroupsHeld
<1> HIDE DEF n
<1>3. UniqueIds(g)
  <2>1. \A m \in Rows(d) : d.events[m].id # i
    BY DEF RowOf
  <2> QED
    BY <1>2, <2>1 DEF UniqueIds, CountsHeld
<1>4. Awaited(g)
  <2>1. \A m : Pending(g, m) = Pending(d, m)
    BY <1>2 DEF Pending
  <2> QED
    BY <1>2, <2>1 DEF Awaited, CountsHeld
<1> QED
  BY <1>2, <1>3, <1>4, RolledIsGroups DEF CountsHeld, g

(* An unpaired insert, as an earlier release does it.                      *)
LEMMA InsertedHeld ==
    ASSUME NEW d, NEW t, DbInv(d, t), NEW i \in Ids, NEW at \in Times, Top(d) < MaxRowid,
           RowOf(d, i) = {}
    PROVE  DbInv(EventInserted(d, i, at), t)
<1> DEFINE g == EventInserted(d, i, at)
<1>1. CountsHeld(d)
  BY DEF DbInv
<1>2. CountsHeld(g) /\ InsertedInto(g, d, i, at)
  BY <1>1, InsertedCounts, InsertedIs
<1> HIDE DEF g
<1>3. ~g.verified /\ ~g.round
  BY <1>2 DEF InsertedInto
<1> QED
  BY <1>2, <1>3 DEF DbInv, RoundHeld, VerifiedHeld, g

(* ingest(): the row and its projection come in one transaction.           *)
LEMMA IngestedHeld ==
    ASSUME NEW d, NEW t \in Times, DbInv(d, t), NEW i \in Ids, NEW at \in Times,
           Top(d) < MaxRowid
    PROVE  DbInv(Ingested(d, t, i, at), t)
<1> DEFINE x == EventInserted(d, i, at)
           n == Top(d) + 1
           g == Ingested(d, t, i, at)
           reports == [d.reports EXCEPT ![i] = at]
<1>1. CountsHeld(d) /\ RoundHeld(d, t) /\ VerifiedHeld(d, t) /\ d \in Database
  BY DEF DbInv, CountsHeld
<1>2. CASE ~Stored(d, t, i, at)
  BY <1>2 DEF Ingested
<1>3. CASE Stored(d, t, i, at)
  <2>1. RowOf(d, i) = {}
    BY <1>3 DEF Stored
  <2>2. InsertedInto(x, d, i, at) /\ CountsHeld(x)
    BY <1>1, <2>1, InsertedIs, InsertedCounts
  <2>3. g = Paired(d, [x EXCEPT !.reports[i] = at])
    BY <1>3 DEF Ingested
  <2> HIDE DEF x, g, n
  <2>4. /\ x \in Database /\ x.reports = d.reports /\ x.report = d.report
        /\ Rows(x) = Rows(d) \cup {n}
        /\ x.events[n] = [id |-> i, at |-> at, projected |-> TRUE]
        /\ \A m \in Rows(d) : x.events[m] = d.events[m]
    BY <2>2 DEF InsertedInto, n
  <2>5. reports \in [Ids -> Times \cup {Null}] /\ d.reports \in [Ids -> Times \cup {Null}]
    BY <1>1 DEF Database
  <2>6. reports[i] = at /\ \A j \in Ids : j # i => reports[j] = d.reports[j]
    BY <2>5
  <2>7. d.verified \in BOOLEAN /\ d.round \in BOOLEAN
    BY <1>1 DEF Database
  <2>8. g = [x EXCEPT !.reports = reports, !.verified = d.verified, !.round = d.round]
    BY <2>3, <2>4 DEF Paired, Database
  <2> HIDE DEF reports
  <2>9. /\ g \in Database /\ SameCounts(g, x) /\ g.report = d.report
        /\ g.verified = d.verified /\ g.round = d.round /\ g.reports = reports
    BY <2>4, <2>5, <2>7, <2>8 DEF Database, SameCounts
  <2>10. CountsHeld(g)
    BY <2>2, <2>9, CountsFrame
  <2>11. /\ Rows(g) = Rows(d) \cup {n} /\ g.events[n].id = i /\ g.events[n].at = at
         /\ \A m \in Rows(d) : g.events[m] = d.events[m]
    BY <2>4, <2>9 DEF SameCounts, Rows
  <2>12. Reported(g, n, t)
    BY <2>6, <2>9, <2>11 DEF Reported
  <2>13. ASSUME NEW m \in Rows(d), Reported(d, m, t) PROVE Reported(g, m, t)
    <3>1. d.events[m].id \in Ids /\ d.events[m].id # i
      BY <1>1, <2>1, RowIsEvent DEF Event, RowOf
    <3> QED
      BY <2>6, <2>9, <2>11, <2>13, <3>1 DEF Reported
  <2>14. RoundHeld(g, t)
    BY <1>1, <2>9, <2>11, <2>12, <2>13 DEF RoundHeld
  <2>15. ASSUME NEW j \in Ids, g.reports[j] # Null, d.reports[j] # Null => RowOf(d, j) # {}
         PROVE  RowOf(g, j) # {}
    <3>1. CASE j = i
      BY <2>11, <3>1 DEF RowOf
    <3>2. CASE j # i
      <4>1. PICK m \in Rows(d) : d.events[m].id = j
        BY <2>6, <2>9, <2>15, <3>2 DEF RowOf
      <4> QED
        BY <2>11, <4>1 DEF RowOf
    <3> QED
      BY <3>1, <3>2
  <2>16. VerifiedHeld(g, t)
    BY <1>1, <2>9, <2>11, <2>12, <2>13, <2>15 DEF VerifiedHeld
  <2> QED
    BY <2>10, <2>14, <2>16 DEF DbInv, g
<1> QED
  BY <1>2, <1>3

-----------------------------------------------------------------------------
(* backfillAttribution(): the columns of a batch come, its rows move from  *)
(* the key of their JSON to that of their columns, and what is left is     *)
(* still pending.                                                          *)
Watermarked(m) == m \in Watermark /\ m.last \in 0..MaxRowid /\ m.upper \in 0..MaxRowid
                  /\ m.last <= m.upper /\ m.complete \in BOOLEAN

LEMMA WatermarksTyped ==
    ASSUME NEW d \in Database
    PROVE  Watermarked(d.attribution) /\ Watermarked(d.rollup) /\ Watermarked(d.report)
  BY DEF Database, Watermark, Watermarked

LEMMA AttributionHeld ==
    ASSUME NEW d, NEW t, DbInv(d, t), ~d.attribution.complete
    PROVE  DbInv(BackfilledAttribution(d), t)
<1> DEFINE w == d.attribution
           B == Batch(d, w.last, w.upper, AttributionBatch)
           L == LastOf(B, w.upper)
           events == [n \in Rowids |-> IF n \in B THEN [d.events[n] EXCEPT !.projected = TRUE]
                                       ELSE d.events[n]]
           reports == [i \in Ids |-> IF i \in IdsOf(d, B) THEN Null ELSE d.reports[i]]
           rollups == Added(d, Removed(d, B), B, events)
           mark == [last |-> L, upper |-> w.upper,
                    complete |-> Cardinality(B) < AttributionBatch \/ L = w.upper]
           g == BackfilledAttribution(d)
<1>1. /\ d \in Database /\ UniqueIds(d) /\ Awaited(d) /\ GroupsHeld(d) /\ CountsHeld(d)
      /\ RoundHeld(d, t) /\ VerifiedHeld(d, t)
  BY RolledIsGroups DEF DbInv, CountsHeld
<1>2. /\ w.last \in 0..MaxRowid /\ w.upper \in 0..MaxRowid /\ w.last <= w.upper
      /\ AttributionBatch \in Nat \ {0} /\ MaxRowid \in Nat
  BY <1>1, WatermarksTyped, UsageType DEF Watermarked
<1>3. /\ B \in SUBSET Rows(d) /\ L \in w.last..w.upper
      /\ \A n \in Rows(d) : n \in B <=> w.last < n /\ n <= L
      /\ mark.complete => \A n \in Rows(d) : w.last < n /\ n <= w.upper => n \in B
  BY <1>2, BatchIsFirst
<1>4. g = [d EXCEPT !.reports = reports, !.verified = d.verified /\ B = {},
                    !.round = d.round /\ B = {}, !.events = events, !.rollups = rollups,
                    !.attribution = mark]
  BY <1>1 DEF BackfilledAttribution, Uncovered, Database
<1> HIDE DEF B, L, g, rollups
<1>5. events \in [Rowids -> Event \cup {NoEvent}]
  <2>1. ASSUME NEW n \in Rowids PROVE events[n] \in Event \cup {NoEvent}
    <3>1. CASE n \in B
      <4>1. d.events[n] \in Event
        BY <1>1, <1>3, <3>1, RowIsEvent
      <4>2. [d.events[n] EXCEPT !.projected = TRUE] \in Event
        BY <4>1 DEF Event
      <4> QED
        BY <3>1, <4>2
    <3>2. CASE n \notin B
      BY <1>1, <3>2 DEF Database
    <3> QED
      BY <3>1, <3>2
  <2> QED
    BY <2>1
<1>6. \A n \in B : /\ events[n] \in Event /\ events[n] # NoEvent /\ events[n].projected
                   /\ events[n].id = d.events[n].id /\ events[n].at = d.events[n].at
  <2>1. ASSUME NEW n \in B
        PROVE  /\ events[n] \in Event /\ events[n].projected
               /\ events[n].id = d.events[n].id /\ events[n].at = d.events[n].at
    <3>1. d.events[n] \in Event /\ n \in Rowids
      BY <1>1, <1>3, RowIsEvent
    <3>2. events[n] = [d.events[n] EXCEPT !.projected = TRUE]
      BY <3>1
    <3> QED
      BY <3>1, <3>2 DEF Event
  <2> QED
    BY <2>1, NoEventIsNone
<1>7. \A n \in Rowids : n \notin B => events[n] = d.events[n]
  OBVIOUS
<1>8. reports \in [Ids -> Times \cup {Null}]
  BY <1>1 DEF Database
<1>9. mark \in Watermark
  BY <1>2, <1>3 DEF Watermark
<1>10. /\ g.events = events /\ g.reports = reports /\ g.rollups = rollups
       /\ g.attribution = mark /\ g.rollup = d.rollup /\ g.report = d.report
       /\ g.verified = (d.verified /\ B = {}) /\ g.round = (d.round /\ B = {})
  BY <1>1, <1>4 DEF Database
<1> HIDE DEF events, reports
<1>11. /\ Rows(g) = Rows(d)
       /\ \A n \in Rows(d) : /\ g.events[n].id = d.events[n].id /\ g.events[n].at = d.events[n].at
                             /\ n \notin B => g.events[n] = d.events[n]
                             /\ n \in B => g.events[n].projected
  <2>1. ASSUME NEW n \in Rowids PROVE g.events[n] # NoEvent <=> d.events[n] # NoEvent
    BY <1>3, <1>6, <1>7, <1>10 DEF Rows
  <2>2. Rows(g) = Rows(d)
    BY <2>1 DEF Rows
  <2> QED
    BY <2>2, <1>6, <1>7, <1>10 DEF Rows
<1>12. UniqueIds(g)
  BY <1>1, <1>11 DEF UniqueIds
<1>13. Awaited(g)
  <2>1. ASSUME NEW n \in Rows(d), ~g.events[n].projected PROVE Pending(g, n)
    <3>1. n \notin B /\ ~d.events[n].projected
      BY <1>11, <2>1
    <3>2. w.last < n /\ n <= w.upper
      BY <1>1, <3>1 DEF Awaited, Pending
    <3>3. ~(n <= L) /\ ~mark.complete
      BY <1>3, <3>1, <3>2
    <3>4. n \in Int /\ L \in Int
      BY <1>2, <1>3 DEF Rows, Rowids
    <3>5. L < n
      BY <3>3, <3>4
    <3> QED
      BY <1>10, <3>2, <3>3, <3>5 DEF Pending
  <2> QED
    BY <1>11, <2>1 DEF Awaited
<1> HIDE DEF mark
<1>14. ASSUME NEW k \in Keys PROVE rollups[k] = Cardinality(Group(g, k))
  <2> DEFINE new == {n \in B : Counted(d, n) /\ KeyOf(d, n, events[n]) = k}
             old == Group(d, k) \ B
  <2>1. ASSUME NEW n \in B PROVE KeyOf(d, n, events[n]) = PlainKey(g.events[n])
    BY <1>1, <1>6, <1>10, KeyIsPlain
  <2>2. \A n \in Rows(d) : Counted(g, n) = Counted(d, n)
    BY <1>10 DEF Counted
  <2>3. Group(g, k) = old \cup new
    BY <1>3, <1>11, <2>1, <2>2 DEF Group
  <2>4. old \in SUBSET Rowids /\ new \in SUBSET Rowids /\ old \cap new = {}
    BY <1>3, GroupFinite DEF Rows
  <2>5. Removed(d, B)[k] = Cardinality(old)
    <3>1. DeletedFrom(EventsDeleted(d, B), d, B)
      BY <1>1, <1>3, DeletedIs
    <3>2. EventsDeleted(d, B).rollups = Removed(d, B)
      BY <1>1 DEF EventsDeleted, Uncovered, Database
    <3> QED
      BY <3>1, <3>2 DEF DeletedFrom
  <2>6. rollups[k] = Removed(d, B)[k] + Cardinality(new)
    BY DEF rollups, Added, Share
  <2> HIDE DEF old, new
  <2> QED
    BY <2>3, <2>4, <2>5, <2>6, DisjointCount
<1>15. rollups \in [Keys -> 0..MaxRowid]
  <2>1. rollups = [k \in Keys |-> rollups[k]]
    BY DEF rollups, Added
  <2>2. \A k \in Keys : rollups[k] \in 0..MaxRowid
    BY <1>14, GroupFinite
  <2> QED
    BY <2>1, <2>2
<1>16. g \in Database
  BY <1>1, <1>4, <1>5, <1>8, <1>9, <1>15 DEF Database
<1>17. CountsHeld(g)
  <2>1. GroupsHeld(g)
    BY <1>10, <1>14 DEF GroupsHeld
  <2> QED
    BY <1>12, <1>13, <1>16, <2>1, RolledIsGroups DEF CountsHeld
<1>18. RoundHeld(g, t) /\ VerifiedHeld(g, t)
  <2>1. CASE B # {}
    BY <1>10, <2>1 DEF RoundHeld, VerifiedHeld
  <2>2. CASE B = {}
    <3>1. \A i \in Ids : g.reports[i] = d.reports[i]
      BY <1>10, <2>2 DEF reports, IdsOf
    <3>2. \A n \in Rows(d) : g.events[n] = d.events[n] /\ d.events[n].id \in Ids
      BY <1>1, <1>11, <2>2, RowIsEvent DEF Event
    <3>3. \A i \in Ids : RowOf(g, i) = RowOf(d, i)
      BY <1>11, <3>2 DEF RowOf
    <3>4. \A n \in Rows(d) : Reported(g, n, t) = Reported(d, n, t)
      BY <3>1, <3>2 DEF Reported
    <3>5. (g.verified => d.verified) /\ (g.round => d.round)
      BY <1>10
    <3> QED
      BY <1>1, <1>10, <1>11, <3>1, <3>3, <3>4, <3>5 DEF RoundHeld, VerifiedHeld
  <2> QED
    BY <2>1, <2>2
<1> QED
  BY <1>17, <1>18 DEF DbInv, g

LEMMA BackfilledAttributionHeld ==
    ASSUME NEW d, NEW t, DbInv(d, t)
    PROVE  DbInv(BackfilledAttribution(d), t)
<1>1. CASE d.attribution.complete
  BY <1>1 DEF BackfilledAttribution
<1> QED
  BY <1>1, AttributionHeld

-----------------------------------------------------------------------------
(* backfillUsageRollups(): the batch is what the triggers left out between *)
(* the old watermark and the new one.                                      *)
LEMMA RollupsHeld ==
    ASSUME NEW d, NEW t, DbInv(d, t), ~d.rollup.complete
    PROVE  DbInv(BackfilledRollups(d), t)
<1> DEFINE w == d.rollup
           B == Batch(d, w.last, w.upper, RollupBatch)
           L == LastOf(B, w.upper)
           covered == Cardinality(B) < RollupBatch \/ L = w.upper
           rollups == [k \in Keys |-> d.rollups[k] +
                          Cardinality({n \in B : KeyOf(d, n, d.events[n]) = k})]
           mark == [last |-> L, upper |-> w.upper, complete |-> covered /\ d.attribution.complete]
           g == BackfilledRollups(d)
<1>1. /\ d \in Database /\ UniqueIds(d) /\ Awaited(d) /\ GroupsHeld(d) /\ CountsHeld(d)
      /\ RoundHeld(d, t) /\ VerifiedHeld(d, t)
  BY RolledIsGroups DEF DbInv, CountsHeld
<1>2. /\ w.last \in 0..MaxRowid /\ w.upper \in 0..MaxRowid /\ w.last <= w.upper
      /\ RollupBatch \in Nat \ {0} /\ MaxRowid \in Nat /\ d.attribution.complete \in BOOLEAN
  BY <1>1, WatermarksTyped, UsageType DEF Watermarked
<1>3. /\ B \in SUBSET Rows(d) /\ L \in w.last..w.upper
      /\ \A n \in Rows(d) : n \in B <=> w.last < n /\ n <= L
      /\ covered => \A n \in Rows(d) : w.last < n /\ n <= w.upper => n \in B
  BY <1>2, BatchIsFirst
<1>4. g = [d EXCEPT !.rollups = rollups, !.rollup = mark]
  BY DEF BackfilledRollups
<1> HIDE DEF B, L, g, rollups
<1>5. mark \in Watermark
  BY <1>2, <1>3 DEF Watermark
<1>6. /\ g.events = d.events /\ g.reports = d.reports /\ g.rollups = rollups
      /\ g.attribution = d.attribution /\ g.rollup = mark /\ g.report = d.report
      /\ g.verified = d.verified /\ g.round = d.round
  BY <1>1, <1>4 DEF Database
<1>7. Rows(g) = Rows(d)
  BY <1>6 DEF Rows
<1>8. ASSUME NEW n \in Rows(d)
      PROVE  Counted(g, n) <=> Counted(d, n) \/ n \in B
  <2>1. n \in Int /\ L \in Int /\ w.last \in Int /\ w.upper \in Int /\ w.last <= L /\ L <= w.upper
    BY <1>2, <1>3 DEF Rows, Rowids
  <2>2. Counted(d, n) <=> n <= w.last \/ n > w.upper
    BY DEF Counted
  <2>3. mark.complete = (covered /\ d.attribution.complete) /\ mark.last = L /\ mark.upper = w.upper
    OBVIOUS
  <2>4. (n \in B <=> w.last < n /\ n <= L) /\ (covered => (w.last < n /\ n <= w.upper => n \in B))
    BY <1>3
  <2> HIDE DEF covered, mark
  <2>5. Counted(g, n) <=> (covered /\ d.attribution.complete) \/ n <= L \/ n > w.upper
    BY <1>6, <2>3 DEF Counted
  <2> QED
    BY <2>1, <2>2, <2>4, <2>5
<1>9. ASSUME NEW n \in B PROVE ~Counted(d, n)
  <2>1. n \in Int /\ L \in Int /\ w.last \in Int /\ w.upper \in Int /\ L <= w.upper
        /\ w.last < n /\ n <= L
    BY <1>2, <1>3 DEF Rows, Rowids
  <2> QED
    BY <2>1 DEF Counted
<1> HIDE DEF mark
<1>10. ASSUME NEW k \in Keys PROVE rollups[k] = Cardinality(Group(g, k))
  <2> DEFINE new == {n \in B : KeyOf(d, n, d.events[n]) = k}
  <2>1. ASSUME NEW n \in B PROVE KeyOf(d, n, d.events[n]) = PlainKey(d.events[n])
    <3>1. n \in Rows(d) /\ d.events[n] \in Event
      BY <1>1, <1>3, RowIsEvent
    <3>2. ~d.events[n].projected => Pending(d, n)
      BY <1>1, <3>1 DEF Awaited
    <3> QED
      BY <1>1, <3>1, <3>2, KeyIsPlain
  <2>2. Group(g, k) = Group(d, k) \cup new
    BY <1>3, <1>6, <1>7, <1>8, <2>1 DEF Group
  <2>3. new \in SUBSET Rowids /\ Group(d, k) \in SUBSET Rowids /\ Group(d, k) \cap new = {}
    BY <1>3, <1>9, GroupFinite DEF Rows, Group
  <2>4. rollups[k] = Cardinality(Group(d, k)) + Cardinality(new)
    BY <1>1 DEF rollups, GroupsHeld
  <2> HIDE DEF new
  <2> QED
    BY <2>2, <2>3, <2>4, DisjointCount
<1>11. rollups \in [Keys -> 0..MaxRowid]
  <2>1. rollups = [k \in Keys |-> rollups[k]]
    BY DEF rollups
  <2>2. \A k \in Keys : rollups[k] \in 0..MaxRowid
    BY <1>10, GroupFinite
  <2> QED
    BY <2>1, <2>2
<1>12. g \in Database
  BY <1>1, <1>4, <1>5, <1>11 DEF Database
<1>13. CountsHeld(g)
  <2>1. \A n : Pending(g, n) = Pending(d, n)
    BY <1>6 DEF Pending
  <2>2. UniqueIds(g) /\ Awaited(g) /\ GroupsHeld(g)
    BY <1>1, <1>6, <1>7, <1>10, <2>1 DEF UniqueIds, Awaited, GroupsHeld
  <2> QED
    BY <1>12, <2>2, RolledIsGroups DEF CountsHeld
<1>14. RoundHeld(g, t) /\ VerifiedHeld(g, t)
  BY <1>1, <1>6, <1>7 DEF RoundHeld, VerifiedHeld, Reported, RowOf
<1> QED
  BY <1>13, <1>14 DEF DbInv, g

LEMMA BackfilledRollupsHeld ==
    ASSUME NEW d, NEW t, DbInv(d, t)
    PROVE  DbInv(BackfilledRollups(d), t)
<1>1. CASE d.rollup.complete
  BY <1>1 DEF BackfilledRollups
<1> QED
  BY <1>1, RollupsHeld

-----------------------------------------------------------------------------
(* What one call of the reporting migration does to the projection: the    *)
(* retained rows of its batch as they are, nothing for the others of the   *)
(* batch, and the obsolete rows it chose to drop.                          *)
Projected(d, t, B, obsolete) ==
    LET keep == {n \in B : d.events[n].at >= t - Retention}
    IN  [i \in Ids |->
            IF \E n \in keep : d.events[n].id = i
            THEN d.events[CHOOSE n \in keep : d.events[n].id = i].at
            ELSE IF i \in obsolete \cup IdsOf(d, B) THEN Null ELSE d.reports[i]]
Orphans(d, t) == {i \in Ids : d.reports[i] # Null /\
                     (RowOf(d, i) = {} \/ d.reports[i] < t - Retention)}

ProjectedWell(d, t, B, obsolete) ==
    LET r == Projected(d, t, B, obsolete)
    IN  /\ r \in [Ids -> Times \cup {Null}]
        /\ \A n \in Rows(d) : (n \in B \/ Reported(d, n, t)) /\ d.events[n].at >= t - Retention =>
              r[d.events[n].id] = d.events[n].at
        /\ \A i \in Ids : r[i] # Null => RowOf(d, i) # {} \/ (d.reports[i] # Null /\ i \notin obsolete)

LEMMA ProjectedIs ==
    ASSUME NEW d \in Database, UniqueIds(d), NEW t \in Times, NEW B \in SUBSET Rows(d),
           NEW obsolete \in SUBSET Orphans(d, t)
    PROVE  ProjectedWell(d, t, B, obsolete)
<1> DEFINE r == Projected(d, t, B, obsolete)
           keep == {n \in B : d.events[n].at >= t - Retention}
           row(i) == CHOOSE n \in keep : d.events[n].id = i
<1>1. r = [i \in Ids |->
             IF \E n \in keep : d.events[n].id = i THEN d.events[row(i)].at
             ELSE IF i \in obsolete \cup IdsOf(d, B) THEN Null ELSE d.reports[i]]
  BY DEF Projected
<1>2. \A n \in Rows(d) : d.events[n].id \in Ids /\ d.events[n].at \in Times
  BY RowIsEvent DEF Event
<1>3. ASSUME NEW i \in Ids, NEW n \in keep, d.events[n].id = i
      PROVE  row(i) = n /\ r[i] = d.events[n].at
  <2>1. row(i) \in keep /\ d.events[row(i)].id = i
    BY <1>3
  <2>2. n \in Rows(d) /\ row(i) \in Rows(d)
    BY <2>1
  <2>3. row(i) = n
    BY <1>3, <2>1, <2>2 DEF UniqueIds
  <2> HIDE DEF row, r
  <2>4. r[i] = d.events[row(i)].at
    BY <1>1, <1>3
  <2> QED
    BY <2>3, <2>4
<1> HIDE DEF row, r
<1>4. ASSUME NEW i \in Ids, ~\E n \in keep : d.events[n].id = i
      PROVE  r[i] = IF i \in obsolete \cup IdsOf(d, B) THEN Null ELSE d.reports[i]
  BY <1>1, <1>4
<1>5. r \in [Ids -> Times \cup {Null}]
  <2>1. ASSUME NEW i \in Ids PROVE r[i] \in Times \cup {Null}
    <3>1. CASE \E n \in keep : d.events[n].id = i
      BY <1>2, <1>3, <3>1
    <3>2. CASE ~\E n \in keep : d.events[n].id = i
      <4>1. d.reports[i] \in Times \cup {Null}
        BY DEF Database
      <4> QED
        BY <1>4, <3>2, <4>1
    <3> QED
      BY <3>1, <3>2
  <2>2. r = [i \in Ids |-> r[i]]
    BY <1>1
  <2> QED
    BY <2>1, <2>2
<1>6. ASSUME NEW n \in Rows(d), n \in B \/ Reported(d, n, t), d.events[n].at >= t - Retention
      PROVE  r[d.events[n].id] = d.events[n].at
  <2>1. CASE n \in B
    BY <1>2, <1>3, <1>6, <2>1
  <2>2. CASE n \notin B
    <3> DEFINE i == d.events[n].id
    <3>1. i \in Ids /\ d.reports[i] = d.events[n].at
      BY <1>2, <1>6, <2>2 DEF Reported
    <3>2. ASSUME NEW m \in B PROVE d.events[m].id # i
      BY <2>2 DEF UniqueIds
    <3>3. i \notin IdsOf(d, B)
      BY <3>2 DEF IdsOf
    <3>4. i \notin obsolete
      <4>1. RowOf(d, i) # {}
        BY DEF RowOf
      <4>2. d.events[n].at \in Int /\ t \in Int /\ Retention \in Int
        BY <1>2, UsageType DEF Times
      <4>3. ~(d.reports[i] < t - Retention)
        BY <1>6, <3>1, <4>2
      <4> QED
        BY <4>1, <4>3 DEF Orphans
    <3> QED
      BY <1>4, <3>1, <3>2, <3>3, <3>4
  <2> QED
    BY <2>1, <2>2
<1>7. ASSUME NEW i \in Ids, r[i] # Null
      PROVE  RowOf(d, i) # {} \/ (d.reports[i] # Null /\ i \notin obsolete)
  <2>1. CASE \E n \in keep : d.events[n].id = i
    BY <2>1 DEF RowOf
  <2>2. CASE ~\E n \in keep : d.events[n].id = i
    BY <1>4, <1>7, <2>2
  <2> QED
    BY <2>1, <2>2
<1> QED
  BY <1>5, <1>6, <1>7 DEF ProjectedWell, r

(* One call: where it starts, what it has passed when it ends.             *)
Restarts(d) == ~ProjectionComplete(d) /\ ~d.round
RoundUpper(d) == IF Restarts(d) THEN Top(d) ELSE d.report.upper
RoundBatch(d) ==
    IF ProjectionComplete(d) THEN {}
    ELSE Batch(d, IF Restarts(d) THEN 0 ELSE d.report.last, RoundUpper(d), ReportBatch)
RoundScanned(d) ==
    \/ Cardinality(RoundBatch(d)) < ReportBatch
    \/ LastOf(RoundBatch(d), RoundUpper(d)) = RoundUpper(d)

RoundMoves(d, t) ==
    LET B == RoundBatch(d)
        U == RoundUpper(d)
        L == LastOf(B, U)
    IN  /\ B \in SUBSET Rows(d) /\ U \in 0..MaxRowid /\ L \in 0..U
        /\ \A n \in Rows(d) : n <= L \/ n > U => n \in B \/ Reported(d, n, t)
        /\ RoundScanned(d) => \A n \in Rows(d) : n \in B \/ Reported(d, n, t)

LEMMA RoundMoved ==
    ASSUME NEW d, NEW t \in Times, DbInv(d, t)
    PROVE  RoundMoves(d, t)
<1> DEFINE B == RoundBatch(d)
           U == RoundUpper(d)
           L == LastOf(B, U)
           first == IF Restarts(d) THEN 0 ELSE d.report.last
<1>1. d \in Database /\ RoundHeld(d, t) /\ VerifiedHeld(d, t)
  BY DEF DbInv, CountsHeld
<1>2. /\ d.report.last \in 0..MaxRowid /\ d.report.upper \in 0..MaxRowid
      /\ d.report.last <= d.report.upper /\ MaxRowid \in Nat /\ ReportBatch \in Nat \ {0}
  BY <1>1, WatermarksTyped, UsageType DEF Watermarked
<1>3. Top(d) \in 0..MaxRowid /\ \A n \in Rows(d) : n <= Top(d)
  BY TopIsLast
<1>4. /\ first \in 0..MaxRowid /\ U \in 0..MaxRowid /\ first <= U
  BY <1>2, <1>3 DEF RoundUpper
<1>5. \A n \in Rows(d) : n \in Int /\ n > 0
  BY <1>2 DEF Rows, Rowids
<1>6. CASE ProjectionComplete(d)
  <2>1. B = {} /\ L = U
    BY <1>6 DEF RoundBatch, LastOf
  <2>2. \A n \in Rows(d) : Reported(d, n, t)
    BY <1>1, <1>6 DEF ProjectionComplete, VerifiedHeld
  <2>3. B \in SUBSET Rows(d) /\ L \in 0..U
    BY <1>4, <2>1
  <2> HIDE DEF B, L, U
  <2> QED
    BY <1>4, <2>2, <2>3 DEF RoundMoves, B, L, U
<1>7. CASE ~ProjectionComplete(d)
  <2>1. B = Batch(d, first, U, ReportBatch)
    BY <1>7 DEF RoundBatch
  <2> HIDE DEF B, U, first
  <2>2. /\ B \in SUBSET Rows(d) /\ L \in first..U
        /\ \A n \in Rows(d) : n \in B <=> first < n /\ n <= L
        /\ Cardinality(B) < ReportBatch \/ L = U =>
              \A n \in Rows(d) : first < n /\ n <= U => n \in B
    BY <1>2, <1>4, <2>1, BatchIsFirst
  <2> HIDE DEF L
  <2>3. ASSUME NEW n \in Rows(d), n <= first \/ n > U PROVE Reported(d, n, t)
    <3>1. CASE Restarts(d)
      <4>1. first = 0 /\ U = Top(d)
        BY <3>1 DEF first, U, RoundUpper
      <4> QED
        BY <1>3, <1>5, <2>3, <4>1
    <3>2. CASE ~Restarts(d)
      <4>1. first = d.report.last /\ U = d.report.upper /\ d.round
        BY <1>7, <3>2 DEF first, U, RoundUpper, Restarts
      <4> QED
        BY <1>1, <2>3, <4>1 DEF RoundHeld
    <3> QED
      BY <3>1, <3>2
  <2>4. \A n \in Rows(d) : n <= L \/ n > U => n \in B \/ Reported(d, n, t)
    BY <1>4, <1>5, <2>2, <2>3
  <2>5. Cardinality(B) < ReportBatch \/ L = U => \A n \in Rows(d) : n \in B \/ Reported(d, n, t)
    BY <1>4, <1>5, <2>2, <2>3
  <2>6. L \in 0..U
    BY <1>4, <2>2
  <2> QED
    BY <1>4, <2>2, <2>4, <2>5, <2>6 DEF RoundMoves, RoundScanned, B, L, U
<1> QED
  BY <1>6, <1>7

LEMMA MigratedHeld ==
    ASSUME NEW d, NEW t \in Times, DbInv(d, t), NEW g \in Migrated(d, t)
    PROVE  DbInv(g, t)
<1> DEFINE B == RoundBatch(d)
           U == RoundUpper(d)
           L == LastOf(B, U)
           scanned == RoundScanned(d)
           orphans == Orphans(d, t)
           choices == IF ProjectionComplete(d) \/ ~scanned THEN {{}}
                      ELSE IF Cardinality(orphans) < ReportBatch THEN {orphans}
                      ELSE {q \in SUBSET orphans : Cardinality(q) = ReportBatch}
<1>1. CountsHeld(d) /\ d \in Database /\ UniqueIds(d) /\ VerifiedHeld(d, t)
  BY DEF DbInv, CountsHeld
<1>2. PICK obsolete \in choices :
        g = [d EXCEPT !.reports = Projected(d, t, B, obsolete),
                      !.report = [last |-> L, upper |-> U,
                                  complete |-> scanned /\ Cardinality(obsolete) < ReportBatch],
                      !.round = TRUE,
                      !.verified = d.verified \/ (scanned /\ Cardinality(obsolete) < ReportBatch)]
  BY DEF Migrated, Projected, Orphans, RoundBatch, RoundUpper, Restarts, RoundScanned
<1> DEFINE r == Projected(d, t, B, obsolete)
           done == scanned /\ Cardinality(obsolete) < ReportBatch
           mark == [last |-> L, upper |-> U, complete |-> done]
<1>3. obsolete \in SUBSET orphans
  BY <1>2
<1>4. done /\ ~ProjectionComplete(d) => obsolete = orphans
  BY <1>2, UsageType
<1>5. RoundMoves(d, t)
  BY RoundMoved
<1>6. /\ B \in SUBSET Rows(d) /\ U \in 0..MaxRowid /\ L \in 0..U
      /\ \A n \in Rows(d) : n <= L \/ n > U => n \in B \/ Reported(d, n, t)
      /\ scanned => \A n \in Rows(d) : n \in B \/ Reported(d, n, t)
  BY <1>5 DEF RoundMoves
<1> HIDE DEF B, U, L, scanned, orphans, choices
<1>7. ProjectedWell(d, t, B, obsolete)
  BY <1>1, <1>3, <1>6, ProjectedIs DEF orphans
<1>8. /\ r \in [Ids -> Times \cup {Null}]
      /\ \A n \in Rows(d) : (n \in B \/ Reported(d, n, t)) /\ d.events[n].at >= t - Retention =>
            r[d.events[n].id] = d.events[n].at
      /\ \A i \in Ids : r[i] # Null => RowOf(d, i) # {} \/ (d.reports[i] # Null /\ i \notin obsolete)
  BY <1>7 DEF ProjectedWell
<1>9. done \in BOOLEAN /\ mark \in Watermark /\ mark.last = L /\ mark.upper = U
  <2>1. MaxRowid \in Nat
    BY UsageType
  <2> QED
    BY <1>6, <2>1 DEF Watermark, scanned, RoundScanned
<1> HIDE DEF r, done, mark
<1>10. /\ g \in Database /\ SameCounts(g, d) /\ g.reports = r /\ g.report = mark
       /\ g.round /\ g.verified = (d.verified \/ done)
  BY <1>1, <1>2, <1>8, <1>9 DEF Database, SameCounts, r, done, mark
<1>11. CountsHeld(g)
  BY <1>1, <1>10, CountsFrame
<1>12. g.events = d.events /\ Rows(g) = Rows(d) /\ \A i \in Ids : RowOf(g, i) = RowOf(d, i)
  BY <1>10 DEF SameCounts, Rows, RowOf
<1>13. \A n \in Rows(d) : n \in B \/ Reported(d, n, t) => Reported(g, n, t)
  BY <1>8, <1>10, <1>12 DEF Reported
<1>14. RoundHeld(g, t)
  BY <1>6, <1>9, <1>10, <1>12, <1>13 DEF RoundHeld
<1>15. VerifiedHeld(g, t)
  <2>1. CASE d.verified
    <3>1. \A n \in Rows(d) : Reported(d, n, t)
      BY <1>1, <2>1 DEF VerifiedHeld
    <3>2. \A i \in Ids : d.reports[i] # Null => RowOf(d, i) # {}
      BY <1>1, <2>1 DEF VerifiedHeld
    <3>3. \A i \in Ids : g.reports[i] # Null => RowOf(g, i) # {}
      BY <1>8, <1>10, <1>12, <3>2
    <3> QED
      BY <1>12, <1>13, <3>1, <3>3 DEF VerifiedHeld
  <2>2. CASE ~d.verified /\ done
    <3>1. scanned /\ ~ProjectionComplete(d)
      BY <2>2 DEF done, ProjectionComplete
    <3>2. \A n \in Rows(g) : Reported(g, n, t)
      BY <1>6, <1>12, <1>13, <3>1
    <3>3. obsolete = orphans
      BY <1>4, <2>2, <3>1
    <3>4. ASSUME NEW i \in Ids, g.reports[i] # Null PROVE RowOf(g, i) # {}
      <4>1. RowOf(d, i) # {} \/ (d.reports[i] # Null /\ i \notin orphans)
        BY <1>8, <1>10, <3>3, <3>4
      <4>2. d.reports[i] # Null /\ i \notin orphans => RowOf(d, i) # {}
        BY DEF orphans, Orphans
      <4> QED
        BY <1>12, <4>1, <4>2
    <3> QED
      BY <3>2, <3>4 DEF VerifiedHeld
  <2>3. CASE ~d.verified /\ ~done
    BY <1>10, <2>3 DEF VerifiedHeld
  <2> QED
    BY <2>1, <2>2, <2>3
<1> QED
  BY <1>11, <1>14, <1>15 DEF DbInv

-----------------------------------------------------------------------------
(* The first construction: no row is counted yet, and the projection is    *)
(* verified only when there is nothing to report.                          *)
LEMMA InitHeld == Init => UsageInv
<1> SUFFICES ASSUME Init PROVE UsageInv
  OBVIOUS
<1> USE UsageType
<1>1. PICK old \in [1..HistoryRows -> [id : Ids, at : 0..Start] \cup {NoEvent}],
           m \in {w \in Watermark : w.upper <= HistoryRows},
           reports \in [Ids -> 0..Start \cup {Null}], marked \in BOOLEAN :
        LET events == [n \in Rowids |->
                IF n > HistoryRows THEN NoEvent ELSE IF old[n] = NoEvent THEN NoEvent
                ELSE [id |-> old[n].id, at |-> old[n].at,
                      projected |-> n <= m.last \/ n > m.upper]]
            top == Top([events |-> events])
            d == [events |-> events, reports |-> reports, rollups |-> [k \in Keys |-> 0],
                  attribution |-> m,
                  rollup |-> [last |-> 0, upper |-> top, complete |-> top = 0],
                  report |-> [last |-> 0, upper |-> top, complete |-> top = 0 \/ marked],
                  verified |-> Empty([events |-> events, reports |-> reports]),
                  round |-> FALSE]
        IN  History(d) /\ db = d
  BY DEF Init
<1> DEFINE events == [n \in Rowids |->
                IF n > HistoryRows THEN NoEvent ELSE IF old[n] = NoEvent THEN NoEvent
                ELSE [id |-> old[n].id, at |-> old[n].at,
                      projected |-> n <= m.last \/ n > m.upper]]
           top == Top([events |-> events])
           none == Empty([events |-> events, reports |-> reports])
           zero == [k \in Keys |-> 0]
<1>2. /\ History(db)
      /\ db = [events |-> events, reports |-> reports, rollups |-> zero, attribution |-> m,
               rollup |-> [last |-> 0, upper |-> top, complete |-> top = 0],
               report |-> [last |-> 0, upper |-> top, complete |-> top = 0 \/ marked],
               verified |-> none, round |-> FALSE]
  BY <1>1
<1>3. events \in [Rowids -> Event \cup {NoEvent}]
  <2>1. ASSUME NEW n \in Rowids PROVE events[n] \in Event \cup {NoEvent}
    <3>1. CASE n > HistoryRows
      BY <3>1
    <3>2. CASE ~(n > HistoryRows)
      <4>1. n \in 1..HistoryRows
        BY <3>2 DEF Rowids
      <4>2. old[n] \in [id : Ids, at : 0..Start] \cup {NoEvent}
        BY <4>1
      <4>3. CASE old[n] = NoEvent
        BY <4>3
      <4>4. CASE old[n] # NoEvent
        <5>1. old[n].id \in Ids /\ old[n].at \in Times
          BY <4>2, <4>4 DEF Times
        <5>2. events[n] = [id |-> old[n].id, at |-> old[n].at,
                           projected |-> n <= m.last \/ n > m.upper]
          BY <3>2, <4>4
        <5> QED
          BY <5>1, <5>2 DEF Event
      <4> QED
        BY <4>3, <4>4
    <3> QED
      BY <3>1, <3>2
  <2> QED
    BY <2>1
<1>4. top \in 0..MaxRowid /\ \A n \in Rows([events |-> events]) : n <= top
  BY TopIsLast
<1> HIDE DEF events, top, none
<1>5. none \in BOOLEAN
  BY DEF none, Empty
<1>6. /\ db.events = events /\ db.reports = reports /\ db.rollups = zero /\ db.attribution = m
      /\ db.rollup = [last |-> 0, upper |-> top, complete |-> top = 0]
      /\ db.verified = none /\ db.round = FALSE
  BY <1>2
<1>7. reports \in [Ids -> Times \cup {Null}]
  BY DEF Times
<1>8. zero \in [Keys -> 0..MaxRowid]
  OBVIOUS
<1>9. /\ [last |-> 0, upper |-> top, complete |-> top = 0] \in Watermark
      /\ [last |-> 0, upper |-> top, complete |-> top = 0 \/ marked] \in Watermark
      /\ m \in Watermark
  BY <1>4 DEF Watermark
<1>10. db \in Database
  BY <1>2, <1>3, <1>5, <1>7, <1>8, <1>9 DEF Database
<1>11. UniqueIds(db)
  BY <1>2 DEF History, UniqueIds
<1>12. Awaited(db)
  <2>1. ASSUME NEW n \in Rows(db), ~db.events[n].projected PROVE Pending(db, n)
    <3>1. ~(n <= db.attribution.last \/ n > db.attribution.upper)
      BY <1>2, <2>1 DEF History
    <3>2. ~db.attribution.complete
      BY <1>2, <3>1 DEF History
    <3>3. n \in Int /\ db.attribution.last \in Int /\ db.attribution.upper \in Int
      BY <1>10, WatermarksTyped DEF Watermarked, Rows, Rowids
    <3> QED
      BY <3>1, <3>2, <3>3 DEF Pending
  <2> QED
    BY <2>1 DEF Awaited
<1>13. GroupsHeld(db)
  <2>1. ASSUME NEW n \in Rows(db) PROVE ~Counted(db, n)
    <3>1. n \in Rows([events |-> events]) /\ n \in 1..MaxRowid
      BY <1>6 DEF Rows, Rowids
    <3>2. n <= top /\ n > 0
      BY <1>4, <3>1
    <3>3. top # 0
      BY <1>4, <3>1, <3>2
    <3>4. (top = 0) = FALSE
      BY <3>3
    <3>5. db.rollup = [last |-> 0, upper |-> top, complete |-> FALSE]
      BY <1>6, <3>4, Zenon
    <3>6. db.rollup.last = 0 /\ db.rollup.upper = top /\ ~db.rollup.complete
      BY <3>5
    <3> QED
      BY <1>4, <3>1, <3>2, <3>6 DEF Counted
  <2>2. \A k \in Keys : Group(db, k) = {}
    BY <2>1 DEF Group
  <2> QED
    BY <1>6, <2>2, FS_EmptySet DEF GroupsHeld
<1>14. CountsHeld(db)
  BY <1>10, <1>11, <1>12, <1>13, RolledIsGroups DEF CountsHeld
<1>15. RoundHeld(db, now)
  BY <1>6 DEF RoundHeld
<1>16. VerifiedHeld(db, now)
  <2>1. none => Rows(db) = {} /\ \A i \in Ids : db.reports[i] = Null
    BY <1>6 DEF none, Empty, Rows
  <2> QED
    BY <1>6, <2>1 DEF VerifiedHeld
<1>17. alarm \in {"none", "soon", "daily"} /\ now \in Times
  BY DEF Init, Times
<1> QED
  BY <1>14, <1>15, <1>16, <1>17 DEF UsageInv, DbInv

(* Time only takes rows out of retention.                                  *)
LEMMA TimeHeld ==
    ASSUME NEW d, NEW t \in Times, DbInv(d, t), t + 1 \in Times
    PROVE  DbInv(d, t + 1)
<1>1. d \in Database
  BY DEF DbInv, CountsHeld
<1>2. ASSUME NEW n \in Rows(d), Reported(d, n, t) PROVE Reported(d, n, t + 1)
  <2>1. d.events[n].at \in Int /\ t \in Int /\ Retention \in Int
    BY <1>1, RowIsEvent, UsageType DEF Event, Times
  <2> QED
    BY <1>2, <2>1 DEF Reported
<1> QED
  BY <1>2 DEF DbInv, RoundHeld, VerifiedHeld

LEMMA ScheduledType ==
    ASSUME NEW d, alarm \in {"none", "soon", "daily"}
    PROVE  Scheduled(d) \in {"none", "soon", "daily"}
  BY DEF Scheduled

LEMMA IngestHeld ==
    ASSUME UsageInv, NEW i \in Ids, NEW at \in Times, Ingest(i, at)
    PROVE  UsageInv'
<1> DEFINE clean == CleanedUp(db, now)
<1>1. DbInv(db, now) /\ now \in Times /\ alarm \in {"none", "soon", "daily"}
  BY DEF UsageInv
<1>2. /\ Top(clean) < MaxRowid /\ db' = Ingested(clean, now, i, at)
      /\ alarm' = Scheduled(db') /\ now' = now
  BY DEF Ingest
<1>3. DbInv(clean, now)
  BY <1>1, CleanedUpHeld
<1> HIDE DEF clean
<1>4. DbInv(Ingested(clean, now, i, at), now)
  BY <1>1, <1>2, <1>3, IngestedHeld
<1>5. DbInv(db', now')
  BY <1>2, <1>4
<1>6. Scheduled(db') \in {"none", "soon", "daily"}
  BY <1>1, ScheduledType
<1> QED
  BY <1>1, <1>2, <1>5, <1>6 DEF UsageInv

LEMMA SnapshotHeld ==
    ASSUME UsageInv, Snapshot
    PROVE  UsageInv'
<1> DEFINE attributed == BackfilledAttribution(db)
<1>1. DbInv(db, now) /\ now \in Times /\ alarm \in {"none", "soon", "daily"}
  BY DEF UsageInv
<1>2. db' = CleanedUp(attributed, now) /\ alarm' = Scheduled(db') /\ now' = now
  BY DEF Snapshot
<1>3. DbInv(attributed, now)
  BY <1>1, BackfilledAttributionHeld
<1> HIDE DEF attributed
<1>4. DbInv(CleanedUp(attributed, now), now)
  BY <1>1, <1>3, CleanedUpHeld
<1>5. DbInv(db', now')
  BY <1>2, <1>4
<1>6. Scheduled(db') \in {"none", "soon", "daily"}
  BY <1>1, ScheduledType
<1> QED
  BY <1>1, <1>2, <1>5, <1>6 DEF UsageInv

LEMMA AlarmHeld ==
    ASSUME UsageInv, Alarm
    PROVE  UsageInv'
<1> DEFINE clean == CleanedUp(db, now)
           attributed == BackfilledAttribution(clean)
<1>1. DbInv(db, now) /\ now \in Times
  BY DEF UsageInv
<1>2. db' = BackfilledRollups(attributed) /\ alarm' \in {"none", "soon", "daily"} /\ now' = now
  BY DEF Alarm
<1>3. DbInv(clean, now)
  BY <1>1, CleanedUpHeld
<1> HIDE DEF clean
<1>4. DbInv(attributed, now)
  BY <1>3, BackfilledAttributionHeld
<1> HIDE DEF attributed
<1>5. DbInv(BackfilledRollups(attributed), now)
  BY <1>4, BackfilledRollupsHeld
<1>6. DbInv(db', now')
  BY <1>2, <1>5
<1> QED
  BY <1>1, <1>2, <1>6 DEF UsageInv

LEMMA OldIngestHeld ==
    ASSUME UsageInv, NEW i \in Ids, NEW at \in Times, OldIngest(i, at)
    PROVE  UsageInv'
<1> DEFINE rows == Expired(db, now)
           clean == EventsDeleted(db, rows)
<1>1. DbInv(db, now) /\ now \in Times /\ alarm \in {"none", "soon", "daily"}
  BY DEF UsageInv
<1>2. /\ Top(clean) < MaxRowid /\ alarm' = alarm /\ now' = now
      /\ \/ RowOf(clean, i) = {} /\ db' = EventInserted(clean, i, at)
         \/ db' = clean
  BY DEF OldIngest
<1>3. rows \in SUBSET Rows(db)
  BY DEF Expired
<1> HIDE DEF rows
<1>4. DbInv(clean, now)
  BY <1>1, <1>3, DeletedHeld
<1> HIDE DEF clean
<1>5. RowOf(clean, i) = {} => DbInv(EventInserted(clean, i, at), now)
  BY <1>2, <1>4, InsertedHeld
<1>6. DbInv(db', now')
  BY <1>2, <1>4, <1>5
<1> QED
  BY <1>1, <1>2, <1>6 DEF UsageInv

LEMMA UsageStep == UsageInv /\ [Next]_vars => UsageInv'
<1> SUFFICES ASSUME UsageInv, [Next]_vars PROVE UsageInv'
  OBVIOUS
<1>0. DbInv(db, now) /\ now \in Times /\ alarm \in {"none", "soon", "daily"}
  BY DEF UsageInv
<1>1. ASSUME NEW i \in Ids, NEW at \in Times, Ingest(i, at) PROVE UsageInv'
  BY <1>1, IngestHeld
<1>2. ASSUME NEW i \in Ids, NEW at \in Times, OldIngest(i, at) PROVE UsageInv'
  BY <1>2, OldIngestHeld
<1>3. CASE Snapshot
  BY <1>3, SnapshotHeld
<1>4. CASE GrantUsage
  <2>1. db' = CleanedUp(db, now) /\ alarm' = alarm /\ now' = now
    BY <1>4 DEF GrantUsage
  <2>2. DbInv(CleanedUp(db, now), now)
    BY <1>0, CleanedUpHeld
  <2>3. DbInv(db', now')
    BY <2>1, <2>2
  <2> QED
    BY <1>0, <2>1, <2>3 DEF UsageInv
<1>5. CASE MigrateUsageReport
  <2>1. db' \in Migrated(db, now) /\ alarm' = alarm /\ now' = now
    BY <1>5 DEF MigrateUsageReport
  <2>2. \A g \in Migrated(db, now) : DbInv(g, now)
    BY <1>0, MigratedHeld
  <2>3. DbInv(db', now')
    BY <2>1, <2>2
  <2> QED
    BY <1>0, <2>1, <2>3 DEF UsageInv
<1>6. CASE Alarm
  BY <1>6, AlarmHeld
<1>7. CASE Tick
  <2>1. db' = db /\ alarm' = alarm /\ now' = now + 1 /\ now + 1 \in Times
    BY <1>0, <1>7, UsageType DEF Tick, Times
  <2>2. DbInv(db, now + 1)
    BY <1>0, <2>1, TimeHeld
  <2>3. DbInv(db', now')
    BY <2>1, <2>2
  <2> QED
    BY <1>0, <2>1, <2>3 DEF UsageInv
<1>8. CASE UNCHANGED vars
  <2>1. db' = db /\ alarm' = alarm /\ now' = now
    BY <1>8 DEF vars
  <2>2. DbInv(db', now')
    BY <1>0, <2>1
  <2> QED
    BY <1>0, <2>1, <2>2 DEF UsageInv
<1> QED
  BY <1>1, <1>2, <1>3, <1>4, <1>5, <1>6, <1>7, <1>8 DEF Next

-----------------------------------------------------------------------------
(* rollupOwnerCondition: numbering the rows of every key pairs a           *)
(* principal's events with what its groups count.                          *)
LEMMA TotalIsOwned ==
    ASSUME CountsHeld(db), db.rollup.complete, NEW p \in Principals
    PROVE  Total(p) = Cardinality(Owned(p))
<1> DEFINE key(n) == PlainKey(db.events[n])
           f == [n \in Owned(p) |-> <<key(n), Rank(Group(db, key(n)), n)>>]
           T == {g \in Raws \X (1..MaxRowid) : Normal[g[1]] = p /\ g[2] <= db.rollups[g[1]]}
<1>1. db \in Database /\ GroupsHeld(db)
  BY RolledIsGroups DEF CountsHeld
<1>2. \A n \in Rows(db) : key(n) \in Raws /\ Normal[key(n)] = Normal[RawOf[db.events[n].id]]
  BY <1>1, RowIsEvent, PlainKeyType
<1>3. \A k \in Raws : Group(db, k) = {n \in Rows(db) : key(n) = k}
  BY DEF Group, Counted
<1>4. \A k \in Raws : /\ Group(db, k) \in SUBSET Rowids
                      /\ db.rollups[k] = Cardinality(Group(db, k))
                      /\ Cardinality(Group(db, k)) \in 0..MaxRowid
  BY <1>1, GroupFinite DEF GroupsHeld, Keys
<1>5. Owned(p) \in SUBSET Rows(db) /\ Owned(p) \in SUBSET Rowids
      /\ \A n \in Owned(p) : key(n) \in Raws /\ Normal[key(n)] = p /\ n \in Group(db, key(n))
  BY <1>2, <1>3 DEF Owned, Rows
<1> HIDE DEF key
<1>6. f \in [Owned(p) -> T]
  <2>1. ASSUME NEW n \in Owned(p) PROVE f[n] \in T
    <3> DEFINE k == key(n)
               c == Rank(Group(db, k), n)
    <3>1. k \in Raws /\ Normal[k] = p /\ n \in Group(db, k)
      BY <1>5
    <3>2. Group(db, k) \in SUBSET Rowids /\ db.rollups[k] = Cardinality(Group(db, k))
          /\ Cardinality(Group(db, k)) \in 0..MaxRowid
      BY <1>4, <3>1
    <3>3. c \in 1..Cardinality(Group(db, k))
      BY <3>1, <3>2, RankBetween
    <3> HIDE DEF c, k
    <3>4. c \in 1..MaxRowid /\ c <= db.rollups[k]
      BY <3>2, <3>3, UsageType
    <3>5. <<k, c>> \in T
      BY <3>1, <3>4
    <3> QED
      BY <3>5 DEF c, k
  <2> QED
    BY <2>1
<1>7. ASSUME NEW n \in Owned(p), NEW m \in Owned(p), f[n] = f[m] PROVE n = m
  <2>1. key(n) = key(m) /\ Rank(Group(db, key(n)), n) = Rank(Group(db, key(n)), m)
    BY <1>7
  <2> DEFINE S == Group(db, key(n))
  <2>2. S \in SUBSET Rowids /\ n \in S /\ m \in S
    BY <1>4, <1>5, <2>1
  <2> HIDE DEF S
  <2>3. Rank(S, n) = Rank(S, m)
    BY <2>1 DEF S
  <2>4. Rank(S, n) \in Int
    BY <2>2, RankBetween
  <2>5. ~(n < m) /\ ~(m < n)
    BY <2>2, <2>3, <2>4, RankGrows
  <2>6. n \in Int /\ m \in Int
    BY <2>2, UsageType DEF Rowids
  <2> QED
    BY <2>5, <2>6
<1>8. ASSUME NEW g \in T PROVE \E n \in Owned(p) : f[n] = g
  <2>1. PICK k \in Raws, c \in 1..MaxRowid : g = <<k, c>>
    OBVIOUS
  <2>2. Normal[k] = p /\ c <= db.rollups[k]
    BY <2>1
  <2>3. Group(db, k) \in SUBSET Rowids /\ c \in 1..Cardinality(Group(db, k))
    BY <1>4, <2>2, UsageType
  <2>4. PICK n \in Group(db, k) : Rank(Group(db, k), n) = c
    BY <2>3, RankReachesAll
  <2>5. n \in Rows(db) /\ key(n) = k
    BY <1>3, <2>4
  <2>6. n \in Owned(p)
    BY <1>2, <2>2, <2>5 DEF Owned, key
  <2>7. f[n] = <<k, c>>
    BY <2>4, <2>5, <2>6
  <2> QED
    BY <2>1, <2>6, <2>7
<1>9. f \in Bijection(Owned(p), T)
  BY <1>6, <1>7, <1>8 DEF Bijection, Injection, Surjection, IsInjective
<1>10. ExistsBijection(Owned(p), T)
  BY <1>9 DEF ExistsBijection
<1>11. IsFiniteSet(Owned(p))
  BY <1>5, RowidsFinite
<1>12. Cardinality(T) = Cardinality(Owned(p))
  BY <1>10, <1>11, FS_Bijection
<1> QED
  BY <1>12 DEF Total

LEMMA UsageInvExact == UsageInv => UsageExact /\ ProjectionTrusted
<1> SUFFICES ASSUME UsageInv PROVE UsageExact /\ ProjectionTrusted
  OBVIOUS
<1>1. /\ CountsHeld(db) /\ VerifiedHeld(db, now) /\ db \in Database /\ Awaited(db)
      /\ alarm \in {"none", "soon", "daily"} /\ now \in Times
  BY DEF UsageInv, DbInv, CountsHeld
<1>2. RollupsExact
  BY <1>1, TotalIsOwned DEF RollupsExact
<1>3. OwnEventsOnly
  <2>1. ASSUME NEW p \in Principals, NEW n \in Rows(db)
        PROVE  n \in OwnerCondition(db, p) <=> n \in Owned(p)
    BY <1>1 DEF OwnerCondition, Owned, Awaited
  <2> QED
    BY <2>1 DEF OwnEventsOnly, OwnerCondition, Owned
<1>4. ProjectionTrusted
  BY <1>1 DEF ProjectionTrusted, ProjectionComplete, VerifiedHeld, Reported
<1> QED
  BY <1>1, <1>2, <1>3, <1>4 DEF UsageExact, TypeOK

-----------------------------------------------------------------------------
(* snapshot(), rollupOwnerCondition and ownerCondition: for every number   *)
(* of events, principals, spellings and batch sizes, the rollups of a      *)
(* principal add up to its retained events once they answer, and at every  *)
(* moment of the attribution backfill its condition selects its own events *)
(* and no others, whatever the triggers, the two backfills, retention,     *)
(* reused rowids and an earlier release did in which order.                *)
THEOREM UsageIsExact == Spec => []UsageExact
<1>1. Init => UsageInv
  BY InitHeld
<1>2. UsageInv /\ [Next]_vars => UsageInv'
  BY UsageStep
<1>3. UsageInv => UsageExact
  BY UsageInvExact
<1> QED
  BY <1>1, <1>2, <1>3, PTL DEF Spec

(* usageReportProjectionComplete: whenever the code answers a report from  *)
(* the projection, the projection holds every retained event as it was     *)
(* ingested and no event without a row, although a migration walks the     *)
(* table in batches of any size, retention moves, rowids are reused and an *)
(* earlier release writes without it between two calls.                    *)
THEOREM ReportsAreTrusted == Spec => []ProjectionTrusted
<1>1. Init => UsageInv
  BY InitHeld
<1>2. UsageInv /\ [Next]_vars => UsageInv'
  BY UsageStep
<1>3. UsageInv => ProjectionTrusted
  BY UsageInvExact
<1> QED
  BY <1>1, <1>2, <1>3, PTL DEF Spec

-----------------------------------------------------------------------------
(* Responses sessions, for every number of creates and lanes and every     *)
(* limit.  A session and its operations as a pair, as the methods pass it. *)
Session ==
    [lanes : [Lanes -> Seq(Creates)], order : Seq(Lanes),
     active : [Lanes -> Creates \cup {NoCreate}], settling : Seq(Creates),
     dispatched : [Lanes -> Creates \cup {NoCreate}],
     terminals : [Lanes -> Creates \cup {NoCreate}], chain : Seq(Creates),
     upstream : {"none", "connecting", "open", "failed"}, ended : BOOLEAN,
     wire : Seq(Frames), buffered : Int,
     interrupts : SUBSET Creates, interruptCount : 0..InterruptLimit]
Pair == [s : Session, op : [Creates -> Ops]]

(* An operation that holds its lane: it was scheduled, and it has neither  *)
(* been discarded nor begun to write its settlement.                       *)
Live(o) ==
    /\ o.settle \notin {"writing", "done"}
    /\ o.at \in {"waiting", "admitting", "connecting", "sending", "await"} \/ o.admitted

(* What one operation and its bill keep, whether the session has ended or  *)
(* not: where it is tells what has been done with it, and only upstream    *)
(* ends it as answered or, once sent, as refused.                          *)
PlaceHeld(l, o) ==
    /\ o.at # "new" => l \in Lanes
    /\ o.at = "new" => ~o.frame
    /\ o.at = "queued" => o.frame
    /\ o.frame => o.lease
    /\ o.at \in {"new", "queued", "waiting", "admitting"} => ~o.admitted
    /\ o.at \in {"connecting", "sending", "await"} => o.admitted
    /\ o.settle # "none" => o.admitted
    /\ o.admitted => (o.ending # "none" <=> o.settle # "none")
    /\ o.sent => o.at = "left" /\ o.admitted
AnswerHeld(c, o, u, ran) ==
    /\ o.sent <=> u # "idle"
    /\ o.ending = "terminal" => u = "finished"
    /\ o.sent /\ o.ending = "error" => u = "finished"
    /\ o.response \in {NoCreate, c}
    /\ c \in ran => o.sent
    /\ c \in ran /\ ~o.started => o.ending \notin {"none", "error"}
BillHeld(c, o, ran, b) ==
    /\ \/ b = <<>>
       \/ /\ b \in {<<"free">>, <<"billed">>}
          /\ o.settle \in {"writing", "done"} \/ (o.at = "left" /\ ~o.admitted)
    /\ b = <<"free">> => c \notin ran /\ (o.sent => o.ending = "error")
OpHeld(c, l, o, u, ran, b) == PlaceHeld(l, o) /\ AnswerHeld(c, o, u, ran) /\ BillHeld(c, o, ran, b)

(* What the queues and the sets of the session say of the operations.      *)
QueuesHeld(lane, x) ==
    \A l \in Lanes :
        /\ \A i \in DOMAIN x.s.lanes[l] :
              x.op[x.s.lanes[l][i]].at = "queued" /\ lane[x.s.lanes[l][i]] = l
        /\ \A i, j \in DOMAIN x.s.lanes[l] : x.s.lanes[l][i] = x.s.lanes[l][j] => i = j
LanesHeld(lane, x) ==
    /\ \A l \in Lanes : x.s.active[l] # NoCreate =>
          lane[x.s.active[l]] = l /\ Live(x.op[x.s.active[l]])
    /\ \A c \in Creates : Live(x.op[c]) => x.s.active[lane[c]] = c
    /\ \A c \in Creates : x.op[c].sent /\ x.op[c].settle # "done" => x.s.dispatched[lane[c]] = c
SettlingHeld(x) ==
    /\ \A i \in DOMAIN x.s.settling : x.op[x.s.settling[i]].settle = "writing"
    /\ \A c \in Creates : x.op[c].settle = "writing" => \E i \in DOMAIN x.s.settling : x.s.settling[i] = c
    /\ \A i, j \in DOMAIN x.s.settling : x.s.settling[i] = x.s.settling[j] => i = j
BytesCounted(x) ==
    /\ x.s.buffered = Cardinality({c \in Creates : x.op[c].frame})
    /\ Busy(x) <= ActiveLimit
WireHeld(x) == \A i \in DOMAIN x.s.wire : x.s.wire[i].kind = "terminal" => x.s.wire[i].op \in Creates

Core(lane, x, u, ran, b) ==
    /\ x \in Pair
    /\ \A c \in Creates : OpHeld(c, lane[c], x.op[c], u[c], ran, b[c])
    /\ QueuesHeld(lane, x) /\ LanesHeld(lane, x) /\ SettlingHeld(x)
    /\ BytesCounted(x) /\ WireHeld(x)

(* While the session runs, an operation of D ends by an answer or before   *)
(* it is sent, and one that is scheduled behind a settlement waits for     *)
(* that one.  When it has ended, everything that was sent has an ending.   *)
Behind(lane, x, c, d) ==
    /\ c # d /\ lane[c] = lane[d]
    /\ x.op[c].settle = "writing"
    /\ Live(x.op[d]) \/ x.op[d].settle = "writing"
    => /\ x.op[d].at \in {"waiting", "admitting", "connecting", "sending"}
       /\ x.op[d].settle = "none" /\ x.op[d].prev = c
Flow(lane, x, u, D) ==
    /\ \A d \in D : /\ x.op[d].ending # "none" => x.op[d].at \in {"await", "left"}
                    /\ x.op[d].sent /\ x.op[d].ending # "none" => u[d] = "finished"
    /\ \A c, d \in D : Behind(lane, x, c, d)
Kept(x, st) ==
    \A i \in DOMAIN x.s.wire :
        x.s.wire[i].kind = "terminal" /\ x.s.wire[i].bound => x.s.wire[i].op \in st
AllEnded(x) == \A c \in Creates : x.op[c].sent => x.op[c].ending # "none"

Held(lane, x, u, ran, b, st) ==
    /\ Core(lane, x, u, ran, b)
    /\ ~x.s.ended => Flow(lane, x, u, Creates) /\ Kept(x, st)
    /\ x.s.ended => AllEnded(x)

(* What the world outside has seen, and the inductive invariant.           *)
OutsideHeld ==
    /\ late \in 0..MaxLate
    /\ up \in [Creates -> {"idle", "asked", "running", "finished"}]
    /\ executed \subseteq Creates /\ stored \subseteq Creates /\ told \subseteq stored
    /\ bill \in [Creates -> Seq({"free", "billed"})]
SessionInv ==
    /\ Held(script.lane, Now, up, executed, bill, stored)
    /\ script \in Scripts /\ OutsideHeld

-----------------------------------------------------------------------------
(* The pairs that the methods build, field by field.                       *)
LEMMA PairIs ==
    ASSUME NEW x \in Pair
    PROVE  /\ x.s \in Session /\ x.op \in [Creates -> Ops]
           /\ x = [s |-> x.s, op |-> x.op]
           /\ \A c \in Creates : x.op[c] \in Ops
BY DEF Pair

LEMMA WithOp ==
    ASSUME NEW x \in Pair, NEW c \in Creates, NEW p
    PROVE  [x EXCEPT !.op[c] = p] = [s |-> x.s, op |-> [x.op EXCEPT ![c] = p]]
BY DEF Pair

LEMMA FinishIs ==
    ASSUME NEW x \in Pair, NEW c \in Creates, NEW outcome \in {"error", "timeout", "closed", "terminal"}
    PROVE  /\ Finish(x, c, outcome) = [s |-> x.s, op |-> [x.op EXCEPT ![c] = FinishOp(x.op[c], outcome)]]
           /\ FinishOp(x.op[c], outcome) \in Ops
           /\ Finish(x, c, outcome) \in Pair
<1>1. x.op[c] \in Ops /\ x.s \in Session /\ x.op \in [Creates -> Ops]
  BY PairIs
<1>2. Finish(x, c, outcome) = [s |-> x.s, op |-> [x.op EXCEPT ![c] = FinishOp(x.op[c], outcome)]]
  BY DEF Finish, Pair
<1>3. FinishOp(x.op[c], outcome) \in Ops
  <2> DEFINE o == x.op[c]
             a == IF o.ending = "none" THEN outcome ELSE o.ending
             w == IF o.admitted THEN "publishing" ELSE "none"
  <2>1. o \in Ops
    BY <1>1
  <2>2. a \in {"none", "terminal", "error", "timeout", "closed"}
    BY <2>1 DEF Ops
  <2>3. w \in {"none", "publishing", "writing", "done"}
    OBVIOUS
  <2>4. FinishOp(o, outcome) = IF o.settle # "none" THEN o ELSE [o EXCEPT !.ending = a, !.settle = w]
    BY <2>1 DEF FinishOp, Ops
  <2> HIDE DEF o, a, w
  <2>5. FinishOp(o, outcome) \in Ops
    BY <2>1, <2>2, <2>3, <2>4 DEF Ops
  <2> QED
    BY <2>5 DEF o
<1> QED
  BY <1>1, <1>2, <1>3 DEF Pair

LEMMA LeaveIs ==
    ASSUME NEW x \in Pair, NEW c \in Creates
    PROVE  /\ Leave(x, c) \in Pair
           /\ Leave(x, c).op = [x.op EXCEPT ![c] = [x.op[c] EXCEPT !.at = "left"]]
           /\ \E q \in Seq(Creates) : Leave(x, c).s = [x.s EXCEPT !.chain = q]
<1>1. x.op[c] \in Ops /\ x.s \in Session /\ x.op \in [Creates -> Ops]
  BY PairIs
<1> DEFINE q == IF x.s.chain # <<>> /\ Head(x.s.chain) = c THEN Tail(x.s.chain) ELSE x.s.chain
<1>2. q \in Seq(Creates)
  BY <1>1 DEF Session
<1>3. Unchain(x, c) = [s |-> [x.s EXCEPT !.chain = q], op |-> x.op]
  <2>1. Unchain(x, c) = [x EXCEPT !.s = [x.s EXCEPT !.chain = q]]
    BY DEF Unchain
  <2> HIDE DEF q
  <2> QED
    BY <2>1 DEF Pair
<1> HIDE DEF q
<1>6. Leave(x, c) = [s |-> [x.s EXCEPT !.chain = q], op |-> [x.op EXCEPT ![c] = [x.op[c] EXCEPT !.at = "left"]]]
  BY <1>1, <1>3 DEF Leave
<1>4. [x.s EXCEPT !.chain = q] \in Session
  BY <1>1, <1>2 DEF Session
<1>5. [x.op[c] EXCEPT !.at = "left"] \in Ops
  BY <1>1 DEF Ops
<1> QED
  BY <1>1, <1>2, <1>6, <1>4, <1>5 DEF Pair

(* A step of one operation that leaves it where it stands in the session   *)
(* keeps what does not depend on the session's end.                        *)
SameLanes(x, y) ==
    /\ y.s.lanes = x.s.lanes /\ y.s.active = x.s.active /\ y.s.settling = x.s.settling
    /\ y.s.dispatched = x.s.dispatched /\ y.s.buffered = x.s.buffered
SameStanding(o, p) ==
    /\ Live(p) <=> Live(o)
    /\ p.settle = "writing" <=> o.settle = "writing"
    /\ p.frame = o.frame
    /\ p.at = "queued" <=> o.at = "queued"
    /\ p.sent /\ p.settle # "done" => o.sent /\ o.settle # "done"
SameBut(c, u, ran, b, v, went, paid) ==
    \A d \in Creates \ {c} : v[d] = u[d] /\ (d \in went <=> d \in ran) /\ paid[d] = b[d]

LEMMA OneOpCore ==
    ASSUME NEW lane, NEW x, NEW y \in Pair, NEW c \in Creates, NEW p,
           NEW u, NEW ran, NEW b, NEW v, NEW went, NEW paid,
           Core(lane, x, u, ran, b), SameLanes(x, y), WireHeld(y),
           y.op = [x.op EXCEPT ![c] = p], SameStanding(x.op[c], p),
           SameBut(c, u, ran, b, v, went, paid),
           OpHeld(c, lane[c], p, v[c], went, paid[c])
    PROVE  Core(lane, y, v, went, paid)
<1>1. x \in Pair /\ x.op \in [Creates -> Ops] /\ x.s \in Session
  BY PairIs DEF Core
<1>2. y.op[c] = p /\ \A d \in Creates \ {c} : y.op[d] = x.op[d]
  BY <1>1
<1>3. \A d \in Creates : SameStanding(x.op[d], y.op[d])
  BY <1>2 DEF SameStanding
<1>4. \A d \in Creates : OpHeld(d, lane[d], y.op[d], v[d], went, paid[d])
  <2> TAKE d \in Creates
  <2>1. CASE d = c
    BY <2>1, <1>2
  <2>2. CASE d # c
    <3>1. OpHeld(d, lane[d], x.op[d], u[d], ran, b[d])
      BY DEF Core
    <3>2. v[d] = u[d] /\ (d \in went <=> d \in ran) /\ paid[d] = b[d] /\ y.op[d] = x.op[d]
      BY <2>2, <1>2 DEF SameBut
    <3> QED
      BY <3>1, <3>2 DEF OpHeld, AnswerHeld, BillHeld
  <2> QED
    BY <2>1, <2>2
<1>5. QueuesHeld(lane, y)
  <2>1. \A l \in Lanes : \A i \in DOMAIN x.s.lanes[l] : x.s.lanes[l][i] \in Creates
    BY <1>1 DEF Session
  <2> QED
    BY <1>3, <2>1 DEF Core, SameLanes, QueuesHeld, SameStanding
<1>6. LanesHeld(lane, y)
  <2>1. \A l \in Lanes : x.s.active[l] \in Creates \cup {NoCreate}
    BY <1>1 DEF Session
  <2> QED
    BY <1>3, <2>1 DEF Core, SameLanes, LanesHeld, SameStanding
<1>7. SettlingHeld(y)
  <2>1. \A i \in DOMAIN x.s.settling : x.s.settling[i] \in Creates
    BY <1>1 DEF Session
  <2> QED
    BY <1>3, <2>1 DEF Core, SameLanes, SettlingHeld, SameStanding
<1>8. BytesCounted(y)
  <2>1. {d \in Creates : y.op[d].frame} = {d \in Creates : x.op[d].frame}
    BY <1>3 DEF SameStanding
  <2>2. Busy(y) = Busy(x)
    BY DEF SameLanes, Busy, Actives
  <2> QED
    BY <2>1, <2>2 DEF Core, SameLanes, BytesCounted
<1> QED
  BY <1>4, <1>5, <1>6, <1>7, <1>8 DEF Core

(* finish() of an operation that holds its lane.                           *)
LEMMA FinishOpHeld ==
    ASSUME NEW c \in Creates, NEW l, NEW o \in Ops, NEW u, NEW ran, NEW b,
           NEW outcome \in {"error", "timeout", "closed"},
           OpHeld(c, l, o, u, ran, b), Live(o), outcome = "error" => ~o.sent
    PROVE  /\ OpHeld(c, l, FinishOp(o, outcome), u, ran, b)
           /\ SameStanding(o, FinishOp(o, outcome))
           /\ FinishOp(o, outcome).ending # "none"
<1> DEFINE a == IF o.ending = "none" THEN outcome ELSE o.ending
           w == IF o.admitted THEN "publishing" ELSE "none"
           p == FinishOp(o, outcome)
<1>1. CASE o.settle # "none"
  BY <1>1 DEF FinishOp, OpHeld, PlaceHeld, SameStanding
<1>2. CASE o.settle = "none"
  <2>1. p = [o EXCEPT !.ending = a, !.settle = w]
    BY <1>2 DEF FinishOp
  <2>2. a # "none" /\ (o.ending # "none" => a = o.ending) /\ (o.ending = "none" => a = outcome)
    OBVIOUS
  <2>3. (o.admitted => w = "publishing") /\ (~o.admitted => w = "none")
    OBVIOUS
  <2> HIDE DEF a, w
  <2>4. /\ p.at = o.at /\ p.admitted = o.admitted /\ p.sent = o.sent /\ p.started = o.started
        /\ p.response = o.response /\ p.frame = o.frame /\ p.lease = o.lease
        /\ p.ending = a /\ p.settle = w
    BY <2>1 DEF Ops
  <2> HIDE DEF p
  <2>5. o.admitted \in BOOLEAN /\ o.sent \in BOOLEAN /\ o.started \in BOOLEAN
    BY DEF Ops
  <2>6. PlaceHeld(l, p)
    BY <1>2, <2>2, <2>3, <2>4, <2>5 DEF OpHeld, PlaceHeld
  <2>7. AnswerHeld(c, p, u, ran)
    BY <1>2, <2>2, <2>3, <2>4, <2>5 DEF OpHeld, PlaceHeld, AnswerHeld
  <2>8. BillHeld(c, p, ran, b)
    <3>1. b = <<>>
      BY <1>2, <2>5 DEF Live, OpHeld, PlaceHeld, BillHeld
    <3> QED
      BY <3>1 DEF BillHeld
  <2>9. SameStanding(o, p)
    BY <1>2, <2>3, <2>4, <2>5 DEF SameStanding, Live, OpHeld, PlaceHeld
  <2> QED
    BY <2>2, <2>4, <2>6, <2>7, <2>8, <2>9 DEF OpHeld, p
<1> QED
  BY <1>1, <1>2

(* close(), whichever operation made the session end: all that is kept     *)
(* while it runs may be broken by then.                                    *)
Waiting(x) == UNION {Range(x.s.lanes[l]) : l \in Lanes}
Doomed(x) == Actives(x) \cup Range(x.s.settling)

LEMMA WaitingAre ==
    ASSUME NEW lane, NEW x, NEW u, NEW ran, NEW b, Core(lane, x, u, ran, b), NEW c
    PROVE  /\ c \in Waiting(x) => c \in Creates /\ x.op[c].at = "queued"
           /\ c \in Doomed(x) => c \in Creates /\ (Live(x.op[c]) \/ x.op[c].settle = "writing")
           /\ c \in Creates /\ Live(x.op[c]) => c \in Actives(x)
<1>1. x.s \in Session /\ x.op \in [Creates -> Ops]
  BY PairIs DEF Core
<1>2. ASSUME c \in Waiting(x) PROVE c \in Creates /\ x.op[c].at = "queued"
  <2>1. PICK l \in Lanes : c \in Range(x.s.lanes[l])
    BY <1>2 DEF Waiting
  <2>2. PICK i \in DOMAIN x.s.lanes[l] : c = x.s.lanes[l][i]
    BY <2>1 DEF Range
  <2>3. x.s.lanes[l] \in Seq(Creates)
    BY <1>1 DEF Session
  <2> QED
    BY <2>2, <2>3 DEF Core, QueuesHeld
<1>3. ASSUME c \in Doomed(x) PROVE c \in Creates /\ (Live(x.op[c]) \/ x.op[c].settle = "writing")
  <2>1. CASE c \in Actives(x)
    <3>1. PICK l \in Lanes : c = x.s.active[l] /\ c # NoCreate
      BY <2>1 DEF Actives
    <3> QED
      BY <3>1, <1>1 DEF Core, LanesHeld, Session
  <2>2. CASE c \in Range(x.s.settling)
    <3>1. PICK i \in DOMAIN x.s.settling : c = x.s.settling[i]
      BY <2>2 DEF Range
    <3>2. x.s.settling \in Seq(Creates)
      BY <1>1 DEF Session
    <3> QED
      BY <3>1, <3>2 DEF Core, SettlingHeld
  <2> QED
    BY <1>3, <2>1, <2>2 DEF Doomed
<1>4. ASSUME c \in Creates, Live(x.op[c]) PROVE c \in Actives(x)
  <2>1. OpHeld(c, lane[c], x.op[c], u[c], ran, b[c])
    BY <1>4 DEF Core
  <2>2. x.op[c].at # "new"
    BY <1>1, <1>4, <2>1 DEF Live, OpHeld, PlaceHeld, Ops
  <2>3. lane[c] \in Lanes /\ x.s.active[lane[c]] = c
    BY <1>4, <2>1, <2>2 DEF Core, LanesHeld, OpHeld, PlaceHeld
  <2> QED
    BY <1>4, <2>3, SessionAssumption DEF Actives
<1> QED
  BY <1>2, <1>3, <1>4

ClosedOp(x, c) ==
    IF c \in Waiting(x) THEN [x.op[c] EXCEPT !.at = "left", !.frame = FALSE, !.lease = FALSE]
    ELSE IF c \in Doomed(x) THEN FinishOp(x.op[c], "closed") ELSE x.op[c]
LEMMA CloseIs ==
    ASSUME NEW x, ~x.s.ended
    PROVE  Close(x) = [s |-> [x.s EXCEPT !.ended = TRUE, !.lanes = [l \in Lanes |-> <<>>],
                                         !.buffered = x.s.buffered - Cardinality(Waiting(x))],
                       op |-> [c \in Creates |-> ClosedOp(x, c)]]
BY DEF Close, Waiting, Doomed, ClosedOp
LEMMA CloseOpIs ==
    ASSUME NEW x, ~x.s.ended, NEW c \in Creates
    PROVE  Close(x).op[c] = ClosedOp(x, c)
BY DEF Close, Waiting, Doomed, ClosedOp

LEMMA QueuedOpCloses ==
    ASSUME NEW c \in Creates, NEW l, NEW o \in Ops, NEW u, NEW ran, NEW b,
           OpHeld(c, l, o, u, ran, b), o.at = "queued"
    PROVE  LET p == [o EXCEPT !.at = "left", !.frame = FALSE, !.lease = FALSE]
           IN  /\ p \in Ops /\ OpHeld(c, l, p, u, ran, b)
               /\ ~Live(o) /\ ~Live(p) /\ o.settle = "none" /\ p.settle = "none" /\ ~p.sent
<1> DEFINE p == [o EXCEPT !.at = "left", !.frame = FALSE, !.lease = FALSE]
<1>1. p \in Ops
  BY DEF Ops
<1>2. /\ p.at = "left" /\ p.admitted = o.admitted /\ p.sent = o.sent /\ p.started = o.started
      /\ p.response = o.response /\ p.frame = FALSE /\ p.lease = FALSE
      /\ p.ending = o.ending /\ p.settle = o.settle
  BY DEF Ops
<1> HIDE DEF p
<1>3. ~o.admitted /\ o.settle = "none" /\ ~o.sent /\ l \in Lanes
  BY DEF OpHeld, PlaceHeld
<1>4. b = <<>>
  BY <1>3 DEF OpHeld, BillHeld
<1>5. PlaceHeld(l, p)
  BY <1>2, <1>3 DEF PlaceHeld
<1>6. AnswerHeld(c, p, u, ran)
  BY <1>2, <1>3 DEF OpHeld, AnswerHeld
<1>7. BillHeld(c, p, ran, b)
  BY <1>4 DEF BillHeld
<1> QED
  BY <1>1, <1>2, <1>3, <1>5, <1>6, <1>7 DEF OpHeld, Live, p

LEMMA ClosedOps ==
    ASSUME NEW lane, NEW x, NEW u, NEW ran, NEW b, Core(lane, x, u, ran, b), NEW c \in Creates
    PROVE  LET o == x.op[c]
               p == ClosedOp(x, c)
           IN  /\ p \in Ops /\ OpHeld(c, lane[c], p, u[c], ran, b[c])
               /\ Live(p) <=> Live(o)
               /\ p.settle = "writing" <=> o.settle = "writing"
               /\ p.sent /\ p.settle # "done" => o.sent /\ o.settle # "done"
               /\ p.frame <=> o.frame /\ c \notin Waiting(x)
               /\ p.sent => p.ending # "none"
               /\ o.at = "new" \/ o.settle = "writing" => p = o
<1> DEFINE o == x.op[c]
           p == ClosedOp(x, c)
<1>1. o \in Ops /\ OpHeld(c, lane[c], o, u[c], ran, b[c])
  BY PairIs DEF Core
<1>2. CASE c \in Waiting(x)
  <2>1. o.at = "queued"
    BY <1>2, WaitingAre
  <2>2. p = [o EXCEPT !.at = "left", !.frame = FALSE, !.lease = FALSE]
    BY <1>2 DEF ClosedOp
  <2>3. p.frame = FALSE
    BY <1>1, <2>2 DEF Ops
  <2> HIDE DEF o, p
  <2>4. /\ p \in Ops /\ OpHeld(c, lane[c], p, u[c], ran, b[c])
        /\ ~Live(o) /\ ~Live(p) /\ o.settle = "none" /\ p.settle = "none" /\ ~p.sent
    BY <1>1, <2>1, <2>2, QueuedOpCloses
  <2> QED
    BY <1>2, <2>1, <2>3, <2>4 DEF o, p
<1>3. CASE c \notin Waiting(x) /\ c \in Doomed(x)
  <2>1. p = FinishOp(o, "closed")
    BY <1>3 DEF ClosedOp
  <2>2. Live(o) \/ o.settle = "writing"
    BY <1>3, WaitingAre
  <2>3. CASE Live(o)
    <3>1. p \in Ops
      BY <2>1, FinishIs DEF Core
    <3> HIDE DEF o, p
    <3>2. OpHeld(c, lane[c], p, u[c], ran, b[c]) /\ SameStanding(o, p) /\ p.ending # "none"
      BY <1>1, <2>1, <2>3, FinishOpHeld
    <3>3. o.at # "new" /\ o.settle # "writing" /\ o.frame \in BOOLEAN
      BY <1>1, <2>3 DEF Live, OpHeld, PlaceHeld, Ops
    <3> QED
      BY <1>3, <3>1, <3>2, <3>3 DEF SameStanding, o, p
  <2>4. CASE o.settle = "writing"
    <3>1. p = o
      BY <2>1, <2>4 DEF FinishOp
    <3>2. o.ending # "none" /\ o.frame \in BOOLEAN
      BY <1>1, <2>4 DEF OpHeld, PlaceHeld, Ops
    <3> QED
      BY <1>1, <1>3, <3>1, <3>2
  <2> QED
    BY <2>2, <2>3, <2>4
<1>4. CASE c \notin Waiting(x) /\ c \notin Doomed(x)
  <2>1. p = o
    BY <1>4 DEF ClosedOp
  <2>2. ~Live(o)
    BY <1>4, WaitingAre DEF Doomed
  <2>3. o.sent => o.ending # "none"
    BY <1>1, <2>2 DEF Live, OpHeld, PlaceHeld
  <2> QED
    BY <1>1, <1>4, <2>1, <2>3 DEF Ops
<1> QED
  BY <1>2, <1>3, <1>4

LEMMA CloseHeld ==
    ASSUME NEW lane, NEW x, NEW u, NEW ran, NEW b, NEW st,
           Core(lane, x, u, ran, b), x.s.ended => AllEnded(x)
    PROVE  Held(lane, Close(x), u, ran, b, st)
<1>1. CASE x.s.ended
  BY <1>1 DEF Close, Held
<1>2. CASE ~x.s.ended
  <2> DEFINE y == Close(x)
             q == [l \in Lanes |-> <<>>]
             n == x.s.buffered - Cardinality(Waiting(x))
             t == [x.s EXCEPT !.ended = TRUE, !.lanes = q, !.buffered = n]
  <2>1. x.s \in Session /\ x.op \in [Creates -> Ops]
    BY PairIs DEF Core
  <2>0. y = [s |-> t, op |-> [c \in Creates |-> ClosedOp(x, c)]]
    BY <1>2, CloseIs
  <2>2. y.s = t /\ y.op = [c \in Creates |-> ClosedOp(x, c)]
    <3> HIDE DEF y, t
    <3> QED
      BY <2>0
  <2>3. IsFiniteSet(Creates) /\ Waiting(x) \subseteq Creates
    BY SessionAssumption, WaitingAre
  <2>4. Cardinality(Waiting(x)) \in Nat
    BY <2>3, FS_Subset, FS_CardinalityType
  <2>5. q \in [Lanes -> Seq(Creates)] /\ n \in Int /\ \A l \in Lanes : DOMAIN q[l] = {}
    BY <2>1, <2>4 DEF Session
  <2> HIDE DEF q, n
  <2>6. t \in Session
    BY <2>1, <2>5 DEF Session
  <2>7. /\ t.ended = TRUE /\ t.lanes = q /\ t.buffered = n
        /\ t.active = x.s.active /\ t.settling = x.s.settling /\ t.dispatched = x.s.dispatched
        /\ t.wire = x.s.wire
    BY <2>1 DEF Session
  <2> HIDE DEF t
  <2>8. \A c \in Creates :
           /\ y.op[c] \in Ops /\ OpHeld(c, lane[c], y.op[c], u[c], ran, b[c])
           /\ Live(y.op[c]) <=> Live(x.op[c])
           /\ y.op[c].settle = "writing" <=> x.op[c].settle = "writing"
           /\ y.op[c].sent /\ y.op[c].settle # "done" => x.op[c].sent /\ x.op[c].settle # "done"
           /\ y.op[c].frame <=> x.op[c].frame /\ c \notin Waiting(x)
           /\ y.op[c].sent => y.op[c].ending # "none"
    BY <2>2, ClosedOps
  <2>9. y \in Pair
    <3>2. [c \in Creates |-> ClosedOp(x, c)] \in [Creates -> Ops]
      BY <2>2, <2>8
    <3> QED
      BY <2>0, <2>6, <3>2 DEF Pair
  <2> HIDE DEF y
  <2>10. QueuesHeld(lane, y)
    BY <2>2, <2>5, <2>7 DEF QueuesHeld
  <2>11. LanesHeld(lane, y)
    <3>1. \A l \in Lanes : x.s.active[l] \in Creates \cup {NoCreate}
      BY <2>1 DEF Session
    <3> QED
      BY <2>2, <2>7, <2>8, <3>1 DEF Core, LanesHeld
  <2>12. SettlingHeld(y)
    <3>1. \A i \in DOMAIN x.s.settling : x.s.settling[i] \in Creates
      BY <2>1 DEF Session
    <3> QED
      BY <2>2, <2>7, <2>8, <3>1 DEF Core, SettlingHeld
  <2>13. BytesCounted(y)
    <3> DEFINE F == {c \in Creates : x.op[c].frame}
    <3>1. {c \in Creates : y.op[c].frame} = F \ Waiting(x)
      BY <2>8
    <3>2. F \cap Waiting(x) = Waiting(x)
      <4>1. ASSUME NEW c \in Waiting(x) PROVE c \in F
        <5>1. c \in Creates /\ x.op[c].at = "queued"
          BY WaitingAre
        <5> QED
          BY <5>1 DEF Core, OpHeld, PlaceHeld
      <4> QED
        BY <4>1
    <3>3. IsFiniteSet(F)
      BY <2>3, FS_Subset
    <3>4. Cardinality(F \ Waiting(x)) = Cardinality(F) - Cardinality(Waiting(x))
      BY <3>2, <3>3, FS_Difference
    <3>5. Busy(y) = Busy(x)
      BY <2>2, <2>7 DEF Busy, Actives
    <3>6. x.s.buffered = Cardinality(F) /\ Busy(x) <= ActiveLimit
      BY DEF Core, BytesCounted
    <3> QED
      BY <2>2, <2>7, <3>1, <3>4, <3>5, <3>6 DEF BytesCounted, n
  <2>14. WireHeld(y)
    BY <2>2, <2>7 DEF Core, WireHeld
  <2>15. AllEnded(y)
    BY <2>8 DEF AllEnded
  <2>16. y.s.ended = TRUE
    BY <2>2, <2>7
  <2>17. Core(lane, y, u, ran, b)
    BY <2>8, <2>9, <2>10, <2>11, <2>12, <2>13, <2>14 DEF Core
  <2> QED
    BY <2>15, <2>16, <2>17 DEF Held, y
<1> QED
  BY <1>1, <1>2

LEMMA BoundedHasLast ==
    ASSUME NEW n \in Nat, NEW S \in SUBSET (1..n), S # {}
    PROVE  Max(S) \in S /\ \A i \in S : i <= Max(S)
<1> DEFINE T == {n - i : i \in S}
<1>1. T \in SUBSET Nat /\ T # {}
  <2>1. \A i \in S : n - i \in Nat
    OBVIOUS
  <2> QED
    BY <2>1
<1>2. PICK k \in T : \A t \in T : k <= t
  BY <1>1, SetHasFirst
<1>3. PICK j \in S : k = n - j
  BY <1>2
<1>4. \A i \in S : j >= i
  BY <1>2, <1>3
<1>5. \E i \in S : \A m \in S : i >= m
  BY <1>3, <1>4
<1>6. Max(S) \in S /\ \A m \in S : Max(S) >= m
  BY <1>5 DEF Max
<1> QED
  BY <1>6

(* The settlement that a create scheduled now waits for.                   *)
LEMMA PreviousIs ==
    ASSUME NEW x, NEW u, NEW ran, NEW b, Core(script.lane, x, u, ran, b), NEW l \in Lanes
    PROVE  /\ Previous(x, l) \in Creates \cup {NoCreate}
           /\ Flow(script.lane, x, u, Creates) =>
                \A c \in Creates : x.op[c].settle = "writing" /\ script.lane[c] = l => Previous(x, l) = c
<1> DEFINE I == {i \in 1..Len(x.s.settling) : script.lane[x.s.settling[i]] = l}
<1>1. x.s.settling \in Seq(Creates)
  BY PairIs DEF Core, Session
<1>2. Previous(x, l) = IF (IF I # {} THEN Max(I) ELSE 0) = 0 THEN NoCreate
                       ELSE x.s.settling[IF I # {} THEN Max(I) ELSE 0]
  BY DEF Previous, SelectLastInSeq, LaneOf
<1>3. Len(x.s.settling) \in Nat /\ I \in SUBSET (1..Len(x.s.settling))
  BY <1>1
<1>4. I # {} => Max(I) \in I
  BY <1>3, BoundedHasLast
<1>5. Previous(x, l) = IF I # {} THEN x.s.settling[Max(I)] ELSE NoCreate
  <2> HIDE DEF I
  <2>1. I # {} => Max(I) # 0
    BY <1>3, <1>4
  <2> QED
    BY <1>2, <2>1
<1>8. I # {} => /\ Max(I) \in DOMAIN x.s.settling /\ x.s.settling[Max(I)] \in Creates
                /\ script.lane[x.s.settling[Max(I)]] = l
  <2>1. \A i \in I : /\ i \in DOMAIN x.s.settling /\ x.s.settling[i] \in Creates
                      /\ script.lane[x.s.settling[i]] = l
    BY <1>1
  <2> QED
    BY <1>4, <2>1
<1>6. Previous(x, l) \in Creates \cup {NoCreate}
  <2> HIDE DEF I
  <2> QED
    BY <1>5, <1>8
<1>7. ASSUME Flow(script.lane, x, u, Creates), NEW c \in Creates, x.op[c].settle = "writing",
             script.lane[c] = l
      PROVE  Previous(x, l) = c
  <2>1. PICK i \in DOMAIN x.s.settling : x.s.settling[i] = c
    BY <1>7 DEF Core, SettlingHeld
  <2>2. i \in I
    BY <1>1, <1>7, <2>1
  <2> HIDE DEF I
  <2> DEFINE d == x.s.settling[Max(I)]
  <2>3. d \in Creates /\ x.op[d].settle = "writing" /\ script.lane[d] = l
    BY <1>8, <2>2 DEF Core, SettlingHeld
  <2>4. Previous(x, l) = d
    BY <1>5, <2>2
  <2> HIDE DEF d
  <2>5. Behind(script.lane, x, c, d)
    BY <1>7, <2>3 DEF Flow
  <2> QED
    BY <1>7, <2>3, <2>4, <2>5 DEF Behind
<1> QED
  BY <1>6, <1>7

(* A step of one operation, while the session runs.                        *)
LEMMA OneOpFlow ==
    ASSUME NEW lane, NEW x, NEW y, NEW u, NEW v, NEW c \in Creates, NEW p,
           x.op \in [Creates -> Ops], Flow(lane, x, u, Creates),
           y.op = [x.op EXCEPT ![c] = p], p.settle = "writing" <=> x.op[c].settle = "writing",
           \A d \in Creates \ {c} : v[d] = u[d],
           p.ending # "none" => p.at \in {"await", "left"},
           p.sent /\ p.ending # "none" => v[c] = "finished",
           \A e \in Creates : Behind(lane, y, e, c)
    PROVE  Flow(lane, y, v, Creates)
<1>1. y.op[c] = p /\ \A d \in Creates \ {c} : y.op[d] = x.op[d]
  OBVIOUS
<1>2. \A e, d \in Creates : Behind(lane, y, e, d)
  <2> TAKE e, d \in Creates
  <2>1. Behind(lane, x, e, d)
    BY DEF Flow
  <2> QED
    BY <1>1, <2>1 DEF Behind
<1>3. \A d \in Creates : /\ y.op[d].ending # "none" => y.op[d].at \in {"await", "left"}
                         /\ y.op[d].sent /\ y.op[d].ending # "none" => v[d] = "finished"
  BY <1>1 DEF Flow
<1> QED
  BY <1>2, <1>3 DEF Flow

(* One turn of schedule()'s loop.                                          *)
LEMMA BusyIs ==
    ASSUME NEW x \in Pair
    PROVE  /\ Actives(x) \subseteq Creates /\ IsFiniteSet(Actives(x))
           /\ Cardinality(Actives(x)) \in Nat /\ Len(x.s.settling) \in Nat
           /\ Busy(x) = Cardinality(Actives(x)) + Len(x.s.settling)
<1>1. x.s \in Session
  BY PairIs
<1>2. Actives(x) \subseteq Creates
  BY <1>1 DEF Session, Actives
<1>3. IsFiniteSet(Actives(x)) /\ Cardinality(Actives(x)) \in Nat
  BY <1>2, SessionAssumption, FS_Subset, FS_CardinalityType
<1>4. Len(x.s.settling) \in Nat
  BY <1>1 DEF Session
<1> QED
  BY <1>2, <1>3, <1>4 DEF Busy

LEMMA ScheduledOp ==
    ASSUME NEW c \in Creates, NEW l, NEW o \in Ops, NEW u, NEW ran, NEW b, NEW prev \in Creates \cup {NoCreate},
           OpHeld(c, l, o, u, ran, b), o.at = "queued"
    PROVE  LET p == [o EXCEPT !.at = "waiting", !.prev = prev]
           IN  /\ p \in Ops /\ OpHeld(c, l, p, u, ran, b)
               /\ Live(p) /\ ~Live(o) /\ o.settle = "none" /\ p.settle = "none" /\ ~p.sent
               /\ p.frame = o.frame /\ p.at = "waiting" /\ p.prev = prev /\ p.ending = o.ending
<1> DEFINE p == [o EXCEPT !.at = "waiting", !.prev = prev]
<1>1. p \in Ops
  BY DEF Ops
<1>2. /\ p.at = "waiting" /\ p.admitted = o.admitted /\ p.sent = o.sent /\ p.started = o.started
      /\ p.response = o.response /\ p.frame = o.frame /\ p.lease = o.lease
      /\ p.ending = o.ending /\ p.settle = o.settle /\ p.prev = prev
  BY DEF Ops
<1> HIDE DEF p
<1>3. ~o.admitted /\ o.settle = "none" /\ ~o.sent /\ l \in Lanes /\ b = <<>>
  BY DEF OpHeld, PlaceHeld, BillHeld
<1>4. PlaceHeld(l, p) /\ BillHeld(c, p, ran, b)
  BY <1>2, <1>3 DEF OpHeld, PlaceHeld, BillHeld
<1>5. AnswerHeld(c, p, u, ran)
  BY <1>2, <1>3 DEF OpHeld, AnswerHeld
<1>6. Live(p) /\ ~Live(o)
  BY <1>2, <1>3 DEF Live
<1> QED
  BY <1>1, <1>2, <1>3, <1>4, <1>5, <1>6 DEF OpHeld, p

LEMMA ScheduleLaneIs ==
    ASSUME NEW x \in Pair, NEW l \in Lanes, x.s.lanes[l] # <<>>, x.s.active[l] = NoCreate,
           ~(Busy(x) >= ActiveLimit), Previous(x, l) \in Creates \cup {NoCreate}
    PROVE  LET c == Head(x.s.lanes[l])
               y == ScheduleLane(x, l)
           IN  /\ c \in Creates /\ y \in Pair
               /\ y.op = [x.op EXCEPT ![c] = [x.op[c] EXCEPT !.at = "waiting", !.prev = Previous(x, l)]]
               /\ y.s.lanes = [x.s.lanes EXCEPT ![l] = Tail(@)]
               /\ y.s.active = [x.s.active EXCEPT ![l] = c]
               /\ y.s.settling = x.s.settling /\ y.s.dispatched = x.s.dispatched
               /\ y.s.buffered = x.s.buffered /\ y.s.wire = x.s.wire /\ y.s.ended = x.s.ended
               /\ y.s.order = x.s.order
<1> DEFINE c == Head(x.s.lanes[l])
           y == ScheduleLane(x, l)
           q == [x.s.lanes EXCEPT ![l] = Tail(@)]
           a == [x.s.active EXCEPT ![l] = c]
           h == Append(x.s.chain, c)
           p == [x.op[c] EXCEPT !.at = "waiting", !.prev = Previous(x, l)]
<1>1. x.s \in Session /\ x.op \in [Creates -> Ops]
  BY PairIs
<1>2. x.s.lanes[l] \in Seq(Creates) /\ x.s.lanes \in [Lanes -> Seq(Creates)]
      /\ x.s.active \in [Lanes -> Creates \cup {NoCreate}] /\ x.s.chain \in Seq(Creates)
  BY <1>1 DEF Session
<1>3. c \in Creates /\ Tail(x.s.lanes[l]) \in Seq(Creates)
  BY <1>2
<1>4. y = [s |-> [x.s EXCEPT !.lanes = q, !.active = a, !.chain = h], op |-> [x.op EXCEPT ![c] = p]]
  <2>1. y = [s |-> [x.s EXCEPT !.lanes[l] = Tail(@), !.active[l] = c, !.chain = Append(@, c)],
             op |-> [x.op EXCEPT ![c].at = "waiting", ![c].prev = Previous(x, l)]]
    BY DEF ScheduleLane
  <2>2. [x.s EXCEPT !.lanes[l] = Tail(@), !.active[l] = c, !.chain = Append(@, c)]
        = [x.s EXCEPT !.lanes = q, !.active = a, !.chain = h]
    <3> HIDE DEF c
    <3> QED
      BY <1>1 DEF Session
  <2>3. [x.op EXCEPT ![c].at = "waiting", ![c].prev = Previous(x, l)] = [x.op EXCEPT ![c] = p]
    <3> HIDE DEF c
    <3> QED
      BY <1>1, <1>3
  <2> QED
    BY <2>1, <2>2, <2>3
<1>5. q \in [Lanes -> Seq(Creates)] /\ a \in [Lanes -> Creates \cup {NoCreate}] /\ h \in Seq(Creates)
  BY <1>2, <1>3
<1>6. p \in Ops
  <2> DEFINE o == x.op[c]
             prev == Previous(x, l)
  <2>1. o \in Ops /\ prev \in Creates \cup {NoCreate}
    BY <1>1, <1>3
  <2> HIDE DEF o, prev
  <2>2. [o EXCEPT !.at = "waiting", !.prev = prev] \in Ops
    BY <2>1 DEF Ops
  <2> QED
    BY <2>2 DEF o, prev
<1> HIDE DEF c, y, q, a, h, p
<1>7. [x.s EXCEPT !.lanes = q, !.active = a, !.chain = h] \in Session
  BY <1>1, <1>5 DEF Session
<1>8. y \in Pair
  BY <1>1, <1>4, <1>6, <1>7 DEF Pair
<1>9. /\ y.s.lanes = q /\ y.s.active = a
      /\ y.s.settling = x.s.settling /\ y.s.dispatched = x.s.dispatched
      /\ y.s.buffered = x.s.buffered /\ y.s.wire = x.s.wire /\ y.s.ended = x.s.ended
      /\ y.s.order = x.s.order
  BY <1>1, <1>4 DEF Session
<1> QED
  BY <1>3, <1>4, <1>8, <1>9 DEF c, y, q, a, p

LEMMA ScheduleLaneHeld ==
    ASSUME NEW x, NEW u, NEW ran, NEW b, NEW st, NEW l \in Lanes,
           Held(script.lane, x, u, ran, b, st), ~x.s.ended
    PROVE  /\ Held(script.lane, ScheduleLane(x, l), u, ran, b, st)
           /\ ~ScheduleLane(x, l).s.ended
<1> DEFINE lane == script.lane
           y == ScheduleLane(x, l)
           c == Head(x.s.lanes[l])
           p == [x.op[c] EXCEPT !.at = "waiting", !.prev = Previous(x, l)]
<1>1. CASE Busy(x) >= ActiveLimit \/ x.s.active[l] # NoCreate \/ x.s.lanes[l] = <<>>
  BY <1>1 DEF ScheduleLane
<1>2. CASE ~(Busy(x) >= ActiveLimit) /\ x.s.active[l] = NoCreate /\ x.s.lanes[l] # <<>>
  <2>1. /\ Core(lane, x, u, ran, b) /\ Flow(lane, x, u, Creates) /\ Kept(x, st)
        /\ x \in Pair /\ x.s \in Session /\ x.op \in [Creates -> Ops]
    BY PairIs DEF Held, Core
  <2>2. Previous(x, l) \in Creates \cup {NoCreate}
    BY <2>1, PreviousIs
  <2>3. /\ c \in Creates /\ y \in Pair /\ y.op = [x.op EXCEPT ![c] = p]
        /\ y.s.lanes = [x.s.lanes EXCEPT ![l] = Tail(@)]
        /\ y.s.active = [x.s.active EXCEPT ![l] = c]
        /\ y.s.settling = x.s.settling /\ y.s.dispatched = x.s.dispatched
        /\ y.s.buffered = x.s.buffered /\ y.s.wire = x.s.wire /\ y.s.ended = x.s.ended
    BY <1>2, <2>1, <2>2, ScheduleLaneIs
  <2>4. /\ x.s.lanes \in [Lanes -> Seq(Creates)] /\ x.s.lanes[l] \in Seq(Creates)
        /\ x.s.active \in [Lanes -> Creates \cup {NoCreate}] /\ x.s.settling \in Seq(Creates)
    BY <2>1 DEF Session
  <2>5. 1 \in DOMAIN x.s.lanes[l] /\ c = x.s.lanes[l][1]
    BY <1>2, <2>4
  <2>6. x.op[c].at = "queued" /\ lane[c] = l
    BY <2>1, <2>5 DEF Core, QueuesHeld
  <2>7. OpHeld(c, lane[c], x.op[c], u[c], ran, b[c]) /\ x.op[c] \in Ops
    BY <2>1, <2>3 DEF Core
  <2>8. /\ OpHeld(c, lane[c], p, u[c], ran, b[c]) /\ Live(p) /\ ~Live(x.op[c])
        /\ x.op[c].settle = "none" /\ p.settle = "none" /\ ~p.sent /\ p.frame = x.op[c].frame
        /\ p.at = "waiting" /\ p.prev = Previous(x, l) /\ p.ending = x.op[c].ending
    <3> DEFINE o == x.op[c]
               prev == Previous(x, l)
               k == lane[c]
    <3> HIDE DEF o, prev, k, c
    <3>1. LET r == [o EXCEPT !.at = "waiting", !.prev = prev]
          IN  /\ r \in Ops /\ OpHeld(c, k, r, u[c], ran, b[c])
              /\ Live(r) /\ ~Live(o) /\ o.settle = "none" /\ r.settle = "none" /\ ~r.sent
              /\ r.frame = o.frame /\ r.at = "waiting" /\ r.prev = prev /\ r.ending = o.ending
      <4>1. o \in Ops /\ prev \in Creates \cup {NoCreate} /\ OpHeld(c, k, o, u[c], ran, b[c])
            /\ o.at = "queued" /\ c \in Creates
        BY <2>2, <2>3, <2>6, <2>7 DEF o, prev, k
      <4> QED
        BY <4>1, ScheduledOp
    <3> QED
      BY <3>1 DEF o, prev, k
  <2> HIDE DEF c, p, y, lane
  <2>9. y.op[c] = p /\ \A d \in Creates \ {c} : y.op[d] = x.op[d]
    BY <2>1, <2>3
  <2>10. QueuesHeld(lane, y)
    <3>1. \A m \in Lanes : \A i \in DOMAIN x.s.lanes[m] :
             x.s.lanes[m][i] \in Creates /\ (x.s.lanes[m][i] = c => m = l /\ i = 1)
      BY <2>1, <2>4, <2>5, <2>6 DEF Core, QueuesHeld
    <3>2. \A m \in Lanes \ {l} : y.s.lanes[m] = x.s.lanes[m]
      BY <2>3, <2>4
    <3>3. /\ y.s.lanes[l] = Tail(x.s.lanes[l])
          /\ \A i \in DOMAIN y.s.lanes[l] : /\ i + 1 \in DOMAIN x.s.lanes[l] /\ i \in Nat /\ i + 1 # 1
                                            /\ y.s.lanes[l][i] = x.s.lanes[l][i + 1]
      BY <1>2, <2>3, <2>4
    <3>4. ASSUME NEW m \in Lanes
          PROVE  /\ \A i \in DOMAIN y.s.lanes[m] :
                       y.op[y.s.lanes[m][i]].at = "queued" /\ lane[y.s.lanes[m][i]] = m
                 /\ \A i, j \in DOMAIN y.s.lanes[m] : y.s.lanes[m][i] = y.s.lanes[m][j] => i = j
      <4>1. CASE m = l
        BY <4>1, <2>1, <2>9, <3>1, <3>3 DEF Core, QueuesHeld
      <4>2. CASE m # l
        BY <4>2, <2>1, <2>9, <3>1, <3>2 DEF Core, QueuesHeld
      <4> QED
        BY <4>1, <4>2
    <3> QED
      BY <3>4 DEF QueuesHeld
  <2>11. LanesHeld(lane, y)
    <3>1. y.s.active[l] = c /\ \A m \in Lanes \ {l} : y.s.active[m] = x.s.active[m]
      BY <2>3, <2>4
    <3>2. \A m \in Lanes : y.s.active[m] # NoCreate =>
             lane[y.s.active[m]] = m /\ Live(y.op[y.s.active[m]])
      <4> TAKE m \in Lanes
      <4>1. CASE m = l
        BY <4>1, <2>6, <2>8, <2>9, <3>1
      <4>2. CASE m # l
        <5>1. x.s.active[m] # c
          BY <4>2, <2>1, <2>3, <2>6, SessionAssumption DEF Core, LanesHeld
        <5> QED
          BY <4>2, <5>1, <2>1, <2>4, <2>9, <3>1 DEF Core, LanesHeld
      <4> QED
        BY <4>1, <4>2
    <3>3. \A d \in Creates : Live(y.op[d]) => y.s.active[lane[d]] = d
      <4> SUFFICES ASSUME NEW d \in Creates, Live(y.op[d]) PROVE y.s.active[lane[d]] = d
        OBVIOUS
      <4>1. CASE d = c
        BY <4>1, <2>6, <3>1
      <4>2. CASE d # c
        <5>1. Live(x.op[d]) /\ x.s.active[lane[d]] = d
          BY <4>2, <2>1, <2>9 DEF Core, LanesHeld
        <5>2. lane[d] # l
          BY <1>2, <5>1, SessionAssumption
        <5>3. y.s.active[lane[d]] = x.s.active[lane[d]]
          BY <2>3, <2>4, <5>2
        <5> QED
          BY <5>1, <5>3
      <4> QED
        BY <4>1, <4>2
    <3>4. \A d \in Creates : y.op[d].sent /\ y.op[d].settle # "done" => y.s.dispatched[lane[d]] = d
      BY <2>1, <2>3, <2>8, <2>9 DEF Core, LanesHeld
    <3> QED
      BY <3>2, <3>3, <3>4 DEF LanesHeld
  <2>12. SettlingHeld(y)
    <3>1. \A i \in DOMAIN x.s.settling : x.s.settling[i] \in Creates
      BY <2>4
    <3> QED
      BY <2>1, <2>3, <2>8, <2>9, <3>1 DEF Core, SettlingHeld
  <2>13. BytesCounted(y)
    <3>1. {d \in Creates : y.op[d].frame} = {d \in Creates : x.op[d].frame}
      BY <2>8, <2>9
    <3>2. Actives(y) \subseteq Actives(x) \cup {c}
      <4>1. \A m \in Lanes : y.s.active[m] = c \/ y.s.active[m] = x.s.active[m]
        BY <2>3, <2>4
      <4> QED
        BY <4>1 DEF Actives
    <3>3. IsFiniteSet(Actives(x) \cup {c}) /\ Cardinality(Actives(x) \cup {c}) <= Cardinality(Actives(x)) + 1
      <4>1. IsFiniteSet(Actives(x)) /\ Cardinality(Actives(x)) \in Nat
        BY <2>1, BusyIs
      <4>2. /\ IsFiniteSet(Actives(x) \cup {c})
            /\ Cardinality(Actives(x) \cup {c}) =
                 IF c \in Actives(x) THEN Cardinality(Actives(x)) ELSE Cardinality(Actives(x)) + 1
        BY <4>1, FS_AddElement
      <4> QED
        BY <4>1, <4>2
    <3>4. Cardinality(Actives(y)) <= Cardinality(Actives(x) \cup {c})
      BY <3>2, <3>3, FS_Subset
    <3>5. ActiveLimit \in Nat
      BY SessionAssumption
    <3>6. /\ Busy(x) = Cardinality(Actives(x)) + Len(x.s.settling) /\ Cardinality(Actives(x)) \in Nat
          /\ Busy(y) = Cardinality(Actives(y)) + Len(x.s.settling) /\ Cardinality(Actives(y)) \in Nat
          /\ Len(x.s.settling) \in Nat
      BY <2>1, <2>3, BusyIs
    <3>7. Cardinality(Actives(x) \cup {c}) \in Nat
      BY <3>3, FS_CardinalityType
    <3>8. Busy(y) <= ActiveLimit
      BY <1>2, <3>3, <3>4, <3>5, <3>6, <3>7
    <3> QED
      BY <2>1, <2>3, <3>1, <3>8 DEF Core, BytesCounted
  <2>14. \A d \in Creates : OpHeld(d, lane[d], y.op[d], u[d], ran, b[d])
    BY <2>1, <2>8, <2>9 DEF Core
  <2>15. Core(lane, y, u, ran, b)
    BY <2>1, <2>3, <2>10, <2>11, <2>12, <2>13, <2>14 DEF Core, WireHeld
  <2>16. \A e \in Creates : Behind(lane, y, e, c)
    <3> SUFFICES ASSUME NEW e \in Creates, e # c, lane[e] = lane[c], y.op[e].settle = "writing"
                 PROVE  y.op[c].at = "waiting" /\ y.op[c].settle = "none" /\ y.op[c].prev = e
      BY DEF Behind
    <3>1. x.op[e].settle = "writing" /\ lane[e] = l
      BY <2>6, <2>9
    <3>2. Previous(x, l) = e
      BY <2>1, <3>1, PreviousIs DEF lane
    <3> QED
      BY <2>8, <2>9, <3>2
  <2>17. Flow(lane, y, u, Creates)
    <3>1. p.ending = "none"
      BY <2>1, <2>3, <2>6, <2>8 DEF Flow
    <3> QED
      BY <2>1, <2>3, <2>8, <2>16, <3>1, OneOpFlow
  <2>18. Kept(y, st)
    BY <2>1, <2>3 DEF Kept
  <2> QED
    BY <2>3, <2>15, <2>17, <2>18 DEF Held, y, lane
<1> QED
  BY <1>1, <1>2

(* schedule(): the turns of its loop, one after the other.                 *)
Turns(f, x, n) ==
    f = [k \in 0..n |-> IF k = 0 THEN x ELSE ScheduleLane(f[k - 1], x.s.order[k])]
LEMMA TurnsExist ==
    ASSUME NEW x
    PROVE  \A n \in Nat : \E f : Turns(f, x, n)
<1> DEFINE S == {n \in Nat : ~\E f : Turns(f, x, n)}
<1>1. ASSUME S # {} PROVE FALSE
  <2>1. PICK m \in S : \A n \in S : m <= n
    BY <1>1, SetHasFirst
  <2>2. CASE m = 0
    <3> DEFINE f == [k \in 0..0 |-> x]
    <3>1. Turns(f, x, 0)
      BY DEF Turns
    <3> QED
      BY <2>1, <2>2, <3>1
  <2>3. CASE m # 0
    <3>1. m \in Nat /\ m - 1 \in Nat /\ m - 1 \notin S
      BY <2>1, <2>3
    <3>2. PICK g : Turns(g, x, m - 1)
      BY <3>1
    <3> DEFINE f == [k \in 0..m |-> IF k = m THEN ScheduleLane(g[m - 1], x.s.order[m]) ELSE g[k]]
    <3>3. \A k \in 0..m : f[k] = IF k = 0 THEN x ELSE ScheduleLane(f[k - 1], x.s.order[k])
      <4> TAKE k \in 0..m
      <4>1. CASE k = m
        <5>1. f[k] = ScheduleLane(g[m - 1], x.s.order[m]) /\ f[k - 1] = g[m - 1]
          BY <4>1, <3>1, <2>3
        <5> QED
          BY <4>1, <5>1, <2>3
      <4>2. CASE k # m
        <5>1. k \in 0..(m - 1)
          BY <4>2, <3>1
        <5>2. g[k] = IF k = 0 THEN x ELSE ScheduleLane(g[k - 1], x.s.order[k])
          <6> DEFINE G(j) == IF j = 0 THEN x ELSE ScheduleLane(g[j - 1], x.s.order[j])
          <6>1. g = [j \in 0..(m - 1) |-> G(j)]
            BY <3>2 DEF Turns
          <6> HIDE DEF G
          <6>2. g[k] = G(k)
            BY <5>1, <6>1
          <6> QED
            BY <6>2 DEF G
        <5>3. f[k] = g[k] /\ (k # 0 => f[k - 1] = g[k - 1])
          BY <4>2, <5>1, <3>1
        <5> QED
          BY <5>2, <5>3
      <4> QED
        BY <4>1, <4>2
    <3>4. Turns(f, x, m)
      <4> DEFINE F(k) == IF k = 0 THEN x ELSE ScheduleLane(f[k - 1], x.s.order[k])
      <4>1. DOMAIN f = 0..m /\ f = [k \in 0..m |-> f[k]]
        OBVIOUS
      <4>2. \A k \in 0..m : f[k] = F(k)
        BY <3>3
      <4> HIDE DEF f, F
      <4>3. f = [k \in 0..m |-> F(k)]
        BY <4>1, <4>2
      <4> QED
        BY <4>3 DEF Turns, F
    <3> QED
      BY <2>1, <3>4
  <2> QED
    BY <2>2, <2>3
<1> QED
  BY <1>1

LEMMA TurnsHeld ==
    ASSUME NEW x, NEW u, NEW ran, NEW b, NEW st, NEW f,
           Held(script.lane, x, u, ran, b, st), ~x.s.ended, Turns(f, x, Len(x.s.order))
    PROVE  Held(script.lane, f[Len(x.s.order)], u, ran, b, st)
<1> DEFINE N == Len(x.s.order)
           Good(y) == Held(script.lane, y, u, ran, b, st) /\ ~y.s.ended
           S == {n \in 0..N : ~Good(f[n])}
<1>1. x.s.order \in Seq(Lanes) /\ N \in Nat
  BY PairIs DEF Held, Core, Session
<1>2. \A k \in 0..N : f[k] = IF k = 0 THEN x ELSE ScheduleLane(f[k - 1], x.s.order[k])
  <2> DEFINE G(j) == IF j = 0 THEN x ELSE ScheduleLane(f[j - 1], x.s.order[j])
  <2>1. f = [j \in 0..N |-> G(j)]
    BY DEF Turns
  <2> HIDE DEF G, N
  <2>2. \A k \in 0..N : f[k] = G(k)
    BY <2>1
  <2> QED
    BY <2>2 DEF G
<1>3. Good(x)
  OBVIOUS
<1>4. ASSUME NEW k \in 1..N, Good(f[k - 1]) PROVE Good(ScheduleLane(f[k - 1], x.s.order[k]))
  <2>1. x.s.order[k] \in Lanes
    BY <1>1
  <2> QED
    BY <1>4, <2>1, ScheduleLaneHeld
<1> HIDE DEF Good, N
<1>5. ASSUME S # {} PROVE FALSE
  <2>0. S \in SUBSET Nat
    BY <1>1
  <2>1. PICK m \in S : \A n \in S : m <= n
    BY <1>5, <2>0, SetHasFirst
  <2>2. CASE m = 0
    BY <1>1, <1>2, <1>3, <2>1, <2>2
  <2>3. CASE m # 0
    <3>1. m \in 1..N /\ m - 1 \in 0..N /\ m - 1 \notin S
      BY <1>1, <2>1, <2>3
    <3>2. Good(f[m - 1])
      BY <3>1
    <3>3. f[m] = ScheduleLane(f[m - 1], x.s.order[m])
      BY <1>2, <2>3, <3>1
    <3> QED
      BY <1>4, <2>1, <3>1, <3>2, <3>3
  <2> QED
    BY <2>2, <2>3
<1>6. Good(f[N])
  BY <1>1, <1>5
<1> QED
  BY <1>6 DEF Good, N

LEMMA ScheduleHeld ==
    ASSUME NEW x, NEW u, NEW ran, NEW b, NEW st, Held(script.lane, x, u, ran, b, st)
    PROVE  Held(script.lane, Schedule(x), u, ran, b, st)
<1>1. CASE x.s.ended
  BY <1>1 DEF Schedule
<1>2. CASE ~x.s.ended
  <2> DEFINE N == Len(x.s.order)
             after[k \in 0..N] == IF k = 0 THEN x ELSE ScheduleLane(after[k - 1], x.s.order[k])
  <2>1. Schedule(x) = after[N]
    BY <1>2 DEF Schedule
  <2>2. N \in Nat
    BY PairIs DEF Held, Core, Session
  <2>3. PICK f : Turns(f, x, N)
    BY <2>2, TurnsExist
  <2>4. Turns(after, x, N)
    BY <2>3 DEF Turns
  <2> HIDE DEF after
  <2> QED
    BY <1>2, <2>1, <2>4, TurnsHeld
<1> QED
  BY <1>1, <1>2

-----------------------------------------------------------------------------
(* What an action leaves.                                                  *)
LEMMA NowIs ==
    ASSUME SessionInv
    PROVE  /\ Now \in Pair /\ Now.s = s /\ Now.op = op /\ s \in Session /\ op \in [Creates -> Ops]
           /\ Core(script.lane, Now, up, executed, bill)
           /\ \A c \in Creates : op[c] \in Ops /\ OpHeld(c, script.lane[c], op[c], up[c], executed, bill[c])
           /\ s.ended \in BOOLEAN
<1>1. Core(script.lane, Now, up, executed, bill) /\ Now \in Pair
  BY DEF SessionInv, Held, Core
<1>2. Now.s = s /\ Now.op = op
  BY DEF Now
<1>3. s \in Session /\ op \in [Creates -> Ops]
  BY <1>1, <1>2, PairIs
<1>4. \A c \in Creates : op[c] \in Ops /\ OpHeld(c, script.lane[c], op[c], up[c], executed, bill[c])
  BY <1>1, <1>2, <1>3 DEF Core
<1>5. s.ended \in BOOLEAN
  BY <1>3 DEF Session
<1> QED
  BY <1>1, <1>2, <1>3, <1>4, <1>5

LEMMA Became ==
    ASSUME SessionInv, NEW y, Becomes(y),
           Held(script.lane, y, up', executed', bill', stored'), OutsideHeld'
    PROVE  SessionInv'
<1>1. y \in Pair /\ s' = y.s /\ op' = y.op /\ script' = script
  BY DEF Becomes, Held, Core
<1>2. Now' = y
  BY <1>1, PairIs DEF Now
<1>3. Held(script.lane, Now, up, executed, bill, stored)'
  BY <1>1, <1>2
<1> QED
  BY <1>1, <1>3 DEF SessionInv

LEMMA BecameInside ==
    ASSUME SessionInv, NEW y, Becomes(y), UNCHANGED <<up, executed, late, bill, stored, told>>,
           Held(script.lane, y, up, executed, bill, stored)
    PROVE  SessionInv'
<1>1. OutsideHeld'
  BY DEF SessionInv, OutsideHeld
<1>2. Held(script.lane, y, up', executed', bill', stored')
  OBVIOUS
<1> QED
  BY <1>1, <1>2, Became

(* Only what the session notes of its sockets and interrupts changes.      *)
LEMMA NotedHeld ==
    ASSUME NEW lane, NEW x, NEW y \in Pair, NEW u, NEW ran, NEW b, NEW st,
           Held(lane, x, u, ran, b, st), SameLanes(x, y), y.op = x.op,
           y.s.wire = x.s.wire, y.s.ended = x.s.ended
    PROVE  Held(lane, y, u, ran, b, st)
<1>1. Busy(y) = Busy(x)
  BY DEF SameLanes, Busy, Actives
<1>2. Core(lane, y, u, ran, b)
  BY <1>1 DEF Held, Core, SameLanes, QueuesHeld, LanesHeld, SettlingHeld, BytesCounted, WireHeld
<1>3. ~y.s.ended => Flow(lane, y, u, Creates) /\ Kept(y, st)
  BY DEF Held, Flow, Behind, Kept
<1>4. y.s.ended => AllEnded(y)
  BY DEF Held, AllEnded
<1> QED
  BY <1>2, <1>3, <1>4 DEF Held

(* One operation takes a step, and the session goes on or is closed.       *)
LEMMA OneOpHeld ==
    ASSUME NEW lane, NEW x, NEW y \in Pair, NEW c \in Creates, NEW p, NEW st,
           NEW u, NEW ran, NEW b, NEW v, NEW went, NEW paid,
           Held(lane, x, u, ran, b, st), SameLanes(x, y), y.s.ended = x.s.ended,
           WireHeld(y), ~x.s.ended => Kept(y, st),
           y.op = [x.op EXCEPT ![c] = p], SameStanding(x.op[c], p),
           SameBut(c, u, ran, b, v, went, paid),
           OpHeld(c, lane[c], p, v[c], went, paid[c]),
           ~x.s.ended => /\ p.ending # "none" => p.at \in {"await", "left"}
                         /\ p.sent /\ p.ending # "none" => v[c] = "finished"
                         /\ \A e \in Creates : Behind(lane, y, e, c),
           x.s.ended /\ p.sent => p.ending # "none"
    PROVE  Held(lane, y, v, went, paid, st)
<1>1. Core(lane, x, u, ran, b) /\ x.op \in [Creates -> Ops]
  BY PairIs DEF Held, Core
<1>2. Core(lane, y, v, went, paid)
  BY <1>1, OneOpCore
<1>3. ASSUME ~x.s.ended PROVE Flow(lane, y, v, Creates)
  <2>1. Flow(lane, x, u, Creates)
    BY <1>3 DEF Held
  <2>2. \A d \in Creates \ {c} : v[d] = u[d]
    BY DEF SameBut
  <2>3. p.settle = "writing" <=> x.op[c].settle = "writing"
    BY DEF SameStanding
  <2> QED
    BY <1>1, <1>3, <2>1, <2>2, <2>3, OneOpFlow
<1>4. ASSUME x.s.ended PROVE AllEnded(y)
  BY <1>1, <1>4 DEF Held, AllEnded
<1> QED
  BY <1>2, <1>3, <1>4 DEF Held

LEMMA OneOpCloses ==
    ASSUME NEW lane, NEW x, NEW y \in Pair, NEW c \in Creates, NEW p, NEW st,
           NEW u, NEW ran, NEW b, NEW v, NEW went, NEW paid,
           Core(lane, x, u, ran, b), x.s.ended => AllEnded(x),
           SameLanes(x, y), y.s.ended = x.s.ended, WireHeld(y),
           y.op = [x.op EXCEPT ![c] = p], SameStanding(x.op[c], p),
           SameBut(c, u, ran, b, v, went, paid),
           OpHeld(c, lane[c], p, v[c], went, paid[c]),
           x.s.ended /\ p.sent => p.ending # "none"
    PROVE  Held(lane, Close(y), v, went, paid, st)
<1>1. x.op \in [Creates -> Ops]
  BY PairIs DEF Core
<1>2. Core(lane, y, v, went, paid)
  BY OneOpCore
<1>3. y.s.ended => AllEnded(y)
  BY <1>1 DEF AllEnded
<1> QED
  BY <1>2, <1>3, CloseHeld

LEMMA NoticeHeld ==
    ASSUME NEW lane, NEW x, NEW u, NEW ran, NEW b, NEW st, Held(lane, x, u, ran, b, st)
    PROVE  Held(lane, Close(x), u, ran, b, st) /\ \A y \in Notice(x) : Held(lane, y, u, ran, b, st)
<1>1. Held(lane, Close(x), u, ran, b, st)
  BY CloseHeld DEF Held
<1> QED
  BY <1>1 DEF Notice

LEMMA DisconnectKeeps == SessionInv /\ Disconnect => SessionInv'
<1> SUFFICES ASSUME SessionInv, Disconnect PROVE SessionInv'
  OBVIOUS
<1>1. Held(script.lane, Close(Now), up, executed, bill, stored)
  BY NoticeHeld DEF SessionInv
<1> QED
  BY <1>1, BecameInside DEF Disconnect

LEMMA ConnectedKeeps == SessionInv /\ Connected => SessionInv'
<1> SUFFICES ASSUME SessionInv, Connected PROVE SessionInv'
  OBVIOUS
<1> DEFINE y == [Now EXCEPT !.s.upstream = "open"]
<1>1. Now \in Pair /\ s \in Session /\ op \in [Creates -> Ops]
  BY NowIs
<1>2. y = [s |-> [s EXCEPT !.upstream = "open"], op |-> op]
  BY DEF Now
<1>3. [s EXCEPT !.upstream = "open"] \in Session
  BY <1>1 DEF Session
<1>4. Becomes(y)
  BY DEF Connected
<1> HIDE DEF y
<1>5. y \in Pair /\ y.op = op
  BY <1>1, <1>2, <1>3 DEF Pair
<1>6. SameLanes(Now, y) /\ y.s.wire = s.wire /\ y.s.ended = s.ended
  BY <1>1, <1>2 DEF Session, SameLanes, Now
<1>7. Held(script.lane, y, up, executed, bill, stored)
  BY <1>5, <1>6, NowIs, NotedHeld DEF SessionInv
<1> QED
  BY <1>4, <1>7, BecameInside DEF Connected

LEMMA InterruptKeeps == \A c \in Creates : SessionInv /\ Interrupt(c) => SessionInv'
<1> SUFFICES ASSUME SessionInv, NEW c \in Creates, Interrupt(c) PROVE SessionInv'
  OBVIOUS
<1> DEFINE x == [Now EXCEPT !.s.interrupts = @ \cup {c}, !.s.interruptCount = @ + 1]
<1>1. Now \in Pair /\ s \in Session /\ op \in [Creates -> Ops]
  BY NowIs
<1>2. CASE Becomes(Close(Now))
  <2>1. Held(script.lane, Close(Now), up, executed, bill, stored)
    BY NoticeHeld DEF SessionInv
  <2> QED
    BY <1>2, <2>1, BecameInside DEF Interrupt
<1>3. CASE s.interruptCount < InterruptLimit /\ \E y \in Notice(x) : Becomes(y)
  <2> DEFINE is == s.interrupts \cup {c}
             k == s.interruptCount + 1
             t == [s EXCEPT !.interrupts = is, !.interruptCount = k]
  <2>1. x = [s |-> t, op |-> op]
    <3> DEFINE z == [Now EXCEPT !.s.interrupts = @ \cup {c}]
               r == [s EXCEPT !.interrupts = is]
    <3>1. z = [s |-> r, op |-> op]
      BY DEF Now
    <3>2. r.interruptCount = s.interruptCount
      BY <1>1 DEF Session
    <3>3. x = [z EXCEPT !.s = [z.s EXCEPT !.interruptCount = z.s.interruptCount + 1]]
      OBVIOUS
    <3> HIDE DEF z, r, x
    <3>4. x = [s |-> [r EXCEPT !.interruptCount = r.interruptCount + 1], op |-> op]
      BY <3>1, <3>3
    <3> QED
      BY <3>2, <3>4 DEF r
  <2>2. is \in SUBSET Creates /\ k \in 0..InterruptLimit
    BY <1>1, <1>3, SessionAssumption DEF Session
  <2> HIDE DEF is, k
  <2>3. t \in Session
    BY <1>1, <2>2 DEF Session
  <2>4. t.lanes = s.lanes /\ t.active = s.active /\ t.settling = s.settling
        /\ t.dispatched = s.dispatched /\ t.buffered = s.buffered /\ t.wire = s.wire /\ t.ended = s.ended
    BY <1>1 DEF Session
  <2> HIDE DEF t, x
  <2>5. x \in Pair /\ x.op = op /\ x.s = t
    BY <1>1, <2>1, <2>3 DEF Pair
  <2>6. SameLanes(Now, x)
    BY <2>4, <2>5 DEF SameLanes, Now
  <2>7. Held(script.lane, x, up, executed, bill, stored)
    BY <2>4, <2>5, <2>6, NowIs, NotedHeld DEF SessionInv
  <2>8. PICK y \in Notice(x) : Becomes(y)
    BY <1>3 DEF x
  <2>9. Held(script.lane, y, up, executed, bill, stored)
    BY <2>7, NoticeHeld
  <2> QED
    BY <2>8, <2>9, BecameInside DEF Interrupt
<1> QED
  BY <1>2, <1>3 DEF Interrupt

-----------------------------------------------------------------------------
(* accept: a create joins the queue of its lane.                           *)
AcceptedAs(o) == [o EXCEPT !.at = "queued", !.frame = TRUE, !.lease = TRUE]
LeftAs(o) == [o EXCEPT !.at = "left"]
AcceptedWell(c, l, o, u, ran, b) ==
    LET p == AcceptedAs(o)
        r == LeftAs(o)
    IN  /\ p \in Ops /\ OpHeld(c, l, p, u, ran, b) /\ ~Live(p) /\ ~Live(o)
        /\ o.settle = "none" /\ p.settle = "none" /\ ~p.sent /\ p.at = "queued"
        /\ p.frame = TRUE /\ o.frame = FALSE /\ p.ending = o.ending
        /\ r \in Ops /\ OpHeld(c, l, r, u, ran, b) /\ SameStanding(o, r)
        /\ ~r.sent /\ ~Live(r) /\ r.at = "left" /\ r.settle = "none"
LEMMA AcceptedOp ==
    ASSUME NEW c \in Creates, NEW l \in Lanes, NEW o \in Ops, NEW u, NEW ran, NEW b,
           OpHeld(c, l, o, u, ran, b), o.at = "new"
    PROVE  AcceptedWell(c, l, o, u, ran, b)
<1> DEFINE p == AcceptedAs(o)
           r == LeftAs(o)
<1>1. p \in Ops /\ r \in Ops /\ o.frame \in BOOLEAN
  BY DEF Ops, AcceptedAs, LeftAs
<1>2. /\ p.at = "queued" /\ p.admitted = o.admitted /\ p.sent = o.sent /\ p.started = o.started
      /\ p.response = o.response /\ p.frame = TRUE /\ p.lease = TRUE
      /\ p.ending = o.ending /\ p.settle = o.settle
  BY DEF Ops, AcceptedAs
<1>3. /\ r.at = "left" /\ r.admitted = o.admitted /\ r.sent = o.sent /\ r.started = o.started
      /\ r.response = o.response /\ r.frame = o.frame /\ r.lease = o.lease
      /\ r.ending = o.ending /\ r.settle = o.settle
  BY DEF Ops, LeftAs
<1> HIDE DEF p, r
<1>4. ~o.admitted /\ o.settle = "none" /\ ~o.sent /\ ~o.frame /\ b = <<>>
  BY DEF OpHeld, PlaceHeld, BillHeld
<1>5. OpHeld(c, l, p, u, ran, b)
  BY <1>2, <1>4 DEF OpHeld, PlaceHeld, AnswerHeld, BillHeld
<1>6. OpHeld(c, l, r, u, ran, b)
  BY <1>3, <1>4 DEF OpHeld, PlaceHeld, AnswerHeld, BillHeld
<1>7. ~Live(p) /\ ~Live(o) /\ ~Live(r)
  BY <1>2, <1>3, <1>4 DEF Live
<1>8. SameStanding(o, r)
  BY <1>3, <1>4, <1>7 DEF SameStanding
<1> QED
  BY <1>1, <1>2, <1>3, <1>4, <1>5, <1>6, <1>7, <1>8 DEF p, r, AcceptedWell

LEMMA LaneIs ==
    ASSUME SessionInv, NEW c \in Creates
    PROVE  LaneOf(c) = script.lane[c] /\ (LaneOf(c) # NoLane => LaneOf(c) \in Lanes)
BY SessionAssumption DEF SessionInv, LaneOf

Joined(x, y, c, p, l) ==
    /\ y \in Pair /\ y.op = [x.op EXCEPT ![c] = p]
    /\ y.s.lanes = [x.s.lanes EXCEPT ![l] = Append(@, c)]
    /\ y.s.active = x.s.active /\ y.s.settling = x.s.settling
    /\ y.s.dispatched = x.s.dispatched /\ y.s.buffered = x.s.buffered + 1
    /\ y.s.wire = x.s.wire /\ y.s.ended = x.s.ended

LEMMA EnqueuedIs ==
    ASSUME SessionInv, NEW c \in Creates, LaneOf(c) \in Lanes
    PROVE  AcceptedAs(op[c]) \in Ops =>
             \E y : Enqueued(c) = Schedule(y) /\ Joined(Now, y, c, AcceptedAs(op[c]), LaneOf(c))
<1> DEFINE l == LaneOf(c)
           p == AcceptedAs(op[c])
           q == [s.lanes EXCEPT ![l] = Append(@, c)]
           n == s.buffered + 1
           r == IF l \in Range(s.order) THEN s.order ELSE Append(s.order, l)
           t == [s EXCEPT !.lanes = q, !.buffered = n, !.order = r]
           y == [s |-> t, op |-> [op EXCEPT ![c] = p]]
<1> SUFFICES ASSUME p \in Ops PROVE Enqueued(c) = Schedule(y) /\ Joined(Now, y, c, p, l)
  OBVIOUS
<1>1. s \in Session /\ op \in [Creates -> Ops] /\ Now.s = s /\ Now.op = op
  BY NowIs
<1>2. l \in Lanes /\ s.lanes \in [Lanes -> Seq(Creates)] /\ s.lanes[l] \in Seq(Creates)
      /\ s.buffered \in Int /\ s.order \in Seq(Lanes)
  BY <1>1 DEF Session
<1>3. q \in [Lanes -> Seq(Creates)] /\ n \in Int /\ r \in Seq(Lanes)
  BY <1>2
<1>4. Enqueued(c) = Schedule(y)
  <2> DEFINE e == [s EXCEPT !.lanes[l] = Append(@, c), !.buffered = @ + 1,
                            !.order = IF l \in Range(s.order) THEN @ ELSE Append(@, l)]
             f == [op EXCEPT ![c].at = "queued", ![c].frame = TRUE, ![c].lease = TRUE]
  <2>1. Enqueued(c) = Schedule([s |-> e, op |-> f])
    BY <1>1 DEF Enqueued
  <2>2. f = [op EXCEPT ![c] = p]
    BY <1>1 DEF AcceptedAs
  <2>3. e = t
    <3> DEFINE e1 == [s EXCEPT !.lanes[l] = Append(@, c)]
               e2 == [e1 EXCEPT !.buffered = @ + 1]
    <3>1. e1 = [s EXCEPT !.lanes = q]
      BY <1>1 DEF Session
    <3> HIDE DEF q
    <3>2. e2 = [s EXCEPT !.lanes = q, !.buffered = n]
      BY <1>1, <3>1 DEF Session
    <3>3. e = [e2 EXCEPT !.order = IF l \in Range(s.order) THEN e2.order ELSE Append(e2.order, l)]
      OBVIOUS
    <3> HIDE DEF e1, e2, n, e
    <3>4. e2.order = s.order
      BY <1>1, <3>2 DEF Session
    <3>5. e = [e2 EXCEPT !.order = r]
      BY <3>3, <3>4
    <3> HIDE DEF r
    <3> QED
      BY <3>2, <3>5
  <2> QED
    BY <2>1, <2>2, <2>3
<1> HIDE DEF q, n, r, p, l
<1>5. t \in Session
  BY <1>1, <1>3 DEF Session
<1>6. /\ t.lanes = q /\ t.buffered = n /\ t.active = s.active /\ t.settling = s.settling
      /\ t.dispatched = s.dispatched /\ t.wire = s.wire /\ t.ended = s.ended
  BY <1>1 DEF Session
<1> HIDE DEF t
<1>7. y \in Pair
  BY <1>1, <1>5 DEF Pair
<1> QED
  BY <1>1, <1>4, <1>6, <1>7 DEF Joined, q, n

LEMMA JoinedHeld ==
    ASSUME NEW lane, NEW x, NEW y, NEW u, NEW ran, NEW b, NEW st, NEW c \in Creates, NEW p, lane[c] \in Lanes,
           Held(lane, x, u, ran, b, st), ~x.s.ended, Joined(x, y, c, p, lane[c]),
           x.op[c].at = "new", x.op[c].settle = "none", OpHeld(c, lane[c], p, u[c], ran, b[c]),
           ~Live(p), ~Live(x.op[c]), p.settle = "none", ~p.sent, p.at = "queued",
           p.frame = TRUE, x.op[c].frame = FALSE, p.ending = x.op[c].ending
    PROVE  Held(lane, y, u, ran, b, st)
<1> DEFINE l == lane[c]
<1>1. /\ Core(lane, x, u, ran, b) /\ Flow(lane, x, u, Creates) /\ Kept(x, st)
      /\ x.s \in Session /\ x.op \in [Creates -> Ops]
  BY PairIs DEF Held, Core
<1>2. /\ x.s.lanes \in [Lanes -> Seq(Creates)] /\ x.s.lanes[l] \in Seq(Creates)
      /\ x.s.active \in [Lanes -> Creates \cup {NoCreate}] /\ x.s.settling \in Seq(Creates)
      /\ x.s.buffered \in Int
  BY <1>1 DEF Session
<1>3. y.op[c] = p /\ \A d \in Creates \ {c} : y.op[d] = x.op[d]
  BY <1>1 DEF Joined
<1>4. QueuesHeld(lane, y)
  <2>1. \A m \in Lanes : \A i \in DOMAIN x.s.lanes[m] : x.s.lanes[m][i] \in Creates /\ x.s.lanes[m][i] # c
    BY <1>1, <1>2 DEF Core, QueuesHeld
  <2>2. \A m \in Lanes \ {l} : y.s.lanes[m] = x.s.lanes[m]
    BY <1>2 DEF Joined
  <2> DEFINE w == x.s.lanes[l]
  <2>3. y.s.lanes[l] = Append(w, c)
    BY <1>2 DEF Joined
  <2> HIDE DEF w
  <2>4. w \in Seq(Creates)
    BY <1>2 DEF w
  <2>5. \A i \in DOMAIN Append(w, c) : (i \in DOMAIN w /\ Append(w, c)[i] = w[i])
                                       \/ (i = Len(w) + 1 /\ Append(w, c)[i] = c)
    BY <2>4
  <2>6. ASSUME NEW m \in Lanes
        PROVE  /\ \A i \in DOMAIN y.s.lanes[m] :
                     y.op[y.s.lanes[m][i]].at = "queued" /\ lane[y.s.lanes[m][i]] = m
               /\ \A i, j \in DOMAIN y.s.lanes[m] : y.s.lanes[m][i] = y.s.lanes[m][j] => i = j
    <3>1. CASE m = l
      <4>1. \A i \in DOMAIN w : /\ w[i] \in Creates /\ w[i] # c /\ y.op[w[i]].at = "queued" /\ lane[w[i]] = l
        BY <1>1, <1>3, <2>1 DEF Core, QueuesHeld, w
      <4>2. \A i, j \in DOMAIN w : w[i] = w[j] => i = j
        BY <1>1 DEF Core, QueuesHeld, w
      <4> QED
        BY <3>1, <1>3, <2>3, <2>5, <4>1, <4>2
    <3>2. CASE m # l
      BY <3>2, <1>1, <1>3, <2>1, <2>2 DEF Core, QueuesHeld
    <3> QED
      BY <3>1, <3>2
  <2> QED
    BY <2>6 DEF QueuesHeld
<1>5. LanesHeld(lane, y)
  <2>1. \A m \in Lanes : x.s.active[m] \in Creates \cup {NoCreate}
    BY <1>2
  <2> QED
    BY <1>1, <1>3, <2>1 DEF Core, LanesHeld, Joined
<1>6. SettlingHeld(y)
  <2>1. \A i \in DOMAIN x.s.settling : x.s.settling[i] \in Creates
    BY <1>2
  <2> QED
    BY <1>1, <1>3, <2>1 DEF Core, SettlingHeld, Joined
<1>7. BytesCounted(y)
  <2> DEFINE F == {d \in Creates : x.op[d].frame}
  <2>1. {d \in Creates : y.op[d].frame} = F \cup {c} /\ c \notin F
    BY <1>3
  <2>2. IsFiniteSet(F)
    BY SessionAssumption, FS_Subset
  <2>3. Cardinality(F \cup {c}) = Cardinality(F) + 1
    <3> HIDE DEF F
    <3> QED
      BY <2>1, <2>2, FS_AddElement
  <2>4. Busy(y) = Busy(x)
    BY DEF Joined, Busy, Actives
  <2>5. x.s.buffered = Cardinality(F) /\ Busy(x) <= ActiveLimit
    BY <1>1 DEF Core, BytesCounted
  <2> QED
    BY <2>1, <2>3, <2>4, <2>5 DEF Joined, BytesCounted
<1>8. \A d \in Creates : OpHeld(d, lane[d], y.op[d], u[d], ran, b[d])
  BY <1>1, <1>3 DEF Core
<1>9. Core(lane, y, u, ran, b)
  BY <1>1, <1>4, <1>5, <1>6, <1>7, <1>8 DEF Core, WireHeld, Joined
<1>10. Flow(lane, y, u, Creates)
  <2>1. p.ending = "none"
    BY <1>1 DEF Flow
  <2>2. \A e \in Creates : Behind(lane, y, e, c)
    BY <1>3 DEF Behind
  <2>3. y.op = [x.op EXCEPT ![c] = p]
    BY DEF Joined
  <2> QED
    BY <1>1, <2>1, <2>2, <2>3, OneOpFlow
<1> QED
  BY <1>1, <1>9, <1>10 DEF Held, Kept, Joined

LEMMA ReceiveKeeps == \A c \in Creates : SessionInv /\ Receive(c) => SessionInv'
<1> SUFFICES ASSUME SessionInv, NEW c \in Creates, Receive(c) PROVE SessionInv'
  OBVIOUS
<1> DEFINE l == script.lane[c]
           o == op[c]
<1>1. /\ ~s.ended /\ o.at = "new" /\ LaneOf(c) = l /\ l \in Lanes
      /\ UNCHANGED <<up, executed, late, bill, stored, told>>
      /\ o \in Ops /\ OpHeld(c, l, o, up[c], executed, bill[c]) /\ Now.s = s /\ Now.op = op
  BY NowIs, LaneIs DEF Receive
<1>4. AcceptedWell(c, l, o, up[c], executed, bill[c])
  BY <1>1, AcceptedOp
<1>2. CASE Becomes(Enqueued(c))
  <2> DEFINE p == AcceptedAs(o)
  <2>1. /\ p \in Ops /\ OpHeld(c, l, p, up[c], executed, bill[c]) /\ ~Live(p) /\ ~Live(o)
        /\ o.settle = "none" /\ p.settle = "none" /\ ~p.sent /\ p.at = "queued"
        /\ p.frame = TRUE /\ o.frame = FALSE /\ p.ending = o.ending
    BY <1>4 DEF AcceptedWell
  <2>2. PICK y : Enqueued(c) = Schedule(y) /\ Joined(Now, y, c, p, l)
    BY <1>1, <2>1, EnqueuedIs
  <2> HIDE DEF p
  <2>3. Held(script.lane, y, up, executed, bill, stored)
    BY <1>1, <2>1, <2>2, JoinedHeld DEF SessionInv
  <2>4. Held(script.lane, Schedule(y), up, executed, bill, stored)
    BY <2>3, ScheduleHeld
  <2> QED
    BY <1>1, <1>2, <2>2, <2>4, BecameInside
<1>3. CASE \E x \in Notice(Now) : Becomes([x EXCEPT !.op[c].at = "left"])
  <2>1. PICK x \in Notice(Now) : Becomes([x EXCEPT !.op[c].at = "left"])
    BY <1>3
  <2>2. Held(script.lane, x, up, executed, bill, stored)
    BY NoticeHeld DEF SessionInv
  <2>3. x.op[c] = o
    <3>1. CASE x = Now
      BY <3>1, <1>1
    <3>2. CASE x = Close(Now)
      <4>1. Close(Now).op[c] = ClosedOp(Now, c)
        BY <1>1, CloseOpIs
      <4>2. ClosedOp(Now, c) = Now.op[c]
        <5>1. Core(script.lane, Now, up, executed, bill) /\ Now.op[c].at = "new"
          BY <1>1, NowIs
        <5> QED
          BY <5>1, ClosedOps
      <4> QED
        BY <1>1, <3>2, <4>1, <4>2
    <3> QED
      BY <2>1, <3>1, <3>2 DEF Notice
  <2> DEFINE r == LeftAs(o)
             y == [x EXCEPT !.op[c].at = "left"]
  <2>4. /\ r \in Ops /\ OpHeld(c, l, r, up[c], executed, bill[c]) /\ SameStanding(o, r)
        /\ ~r.sent /\ ~Live(r) /\ r.at = "left" /\ r.settle = "none"
    BY <1>4 DEF AcceptedWell
  <2>5. x \in Pair /\ x.s \in Session /\ x.op \in [Creates -> Ops]
    BY <2>2, PairIs DEF Held, Core
  <2>6. y = [s |-> x.s, op |-> [x.op EXCEPT ![c] = r]]
    BY <2>3, <2>5 DEF Pair, LeftAs
  <2> HIDE DEF r, y
  <2>7. y \in Pair /\ y.s = x.s /\ y.op = [x.op EXCEPT ![c] = r]
    BY <2>4, <2>5, <2>6 DEF Pair
  <2>8. SameLanes(x, y) /\ WireHeld(y) /\ (~x.s.ended => Kept(y, stored))
    BY <2>2, <2>7 DEF SameLanes, Held, Core, WireHeld, Kept
  <2>9. \A e \in Creates : Behind(script.lane, y, e, c)
    BY <2>4, <2>5, <2>7 DEF Behind
  <2>10. SameBut(c, up, executed, bill, up, executed, bill)
    BY DEF SameBut
  <2>11. Held(script.lane, y, up, executed, bill, stored)
    BY <2>2, <2>3, <2>4, <2>7, <2>8, <2>9, <2>10, OneOpHeld
  <2> QED
    BY <1>1, <2>1, <2>11, BecameInside DEF y
<1> QED
  BY <1>2, <1>3 DEF Receive

-----------------------------------------------------------------------------
(* dispatch and sendOperation move one operation on.                       *)
Moved(y, c, p) ==
    /\ y \in Pair /\ y.op = [op EXCEPT ![c] = p] /\ SameLanes(Now, y)
    /\ y.s.ended = s.ended /\ y.s.wire = s.wire
Fit(c, p) ==
    SameStanding(op[c], p) /\ OpHeld(c, script.lane[c], p, up[c], executed, bill[c])
Orderly(c, p, y) ==
    /\ p.ending # "none" => p.at \in {"await", "left"}
    /\ p.sent /\ p.ending # "none" => up[c] = "finished"
    /\ \A e \in Creates : Behind(script.lane, y, e, c)

LEMMA MovedHeld ==
    ASSUME SessionInv, NEW c \in Creates, NEW p, NEW y, Moved(y, c, p), Fit(c, p),
           ~s.ended => Orderly(c, p, y), s.ended /\ p.sent => p.ending # "none"
    PROVE  Held(script.lane, y, up, executed, bill, stored)
<1>1. /\ y \in Pair /\ SameLanes(Now, y) /\ y.s.ended = Now.s.ended /\ y.op = [Now.op EXCEPT ![c] = p]
      /\ Held(script.lane, Now, up, executed, bill, stored) /\ Now.s = s /\ Now.op = op
      /\ SameStanding(Now.op[c], p) /\ OpHeld(c, script.lane[c], p, up[c], executed, bill[c])
  BY NowIs DEF Moved, SessionInv, Fit
<1>2. WireHeld(y) /\ (~Now.s.ended => Kept(y, stored))
  BY <1>1 DEF Moved, Held, Core, WireHeld, Kept
<1>3. SameBut(c, up, executed, bill, up, executed, bill)
  BY DEF SameBut
<1>4. ~Now.s.ended => /\ p.ending # "none" => p.at \in {"await", "left"}
                      /\ p.sent /\ p.ending # "none" => up[c] = "finished"
                      /\ \A e \in Creates : Behind(script.lane, y, e, c)
  BY <1>1 DEF Orderly
<1> QED
  BY <1>1, <1>2, <1>3, <1>4, OneOpHeld

LEMMA MovedCloses ==
    ASSUME SessionInv, NEW c \in Creates, NEW p, NEW y, Moved(y, c, p), Fit(c, p),
           s.ended /\ p.sent => p.ending # "none"
    PROVE  Held(script.lane, Close(y), up, executed, bill, stored)
<1>1. /\ y \in Pair /\ SameLanes(Now, y) /\ y.s.ended = Now.s.ended /\ y.op = [Now.op EXCEPT ![c] = p]
      /\ Core(script.lane, Now, up, executed, bill) /\ Now.s = s /\ Now.op = op
      /\ SameStanding(Now.op[c], p) /\ OpHeld(c, script.lane[c], p, up[c], executed, bill[c])
  BY NowIs DEF Moved, Fit
<1>2. WireHeld(y)
  BY <1>1 DEF Moved, Core, WireHeld
<1>3. SameBut(c, up, executed, bill, up, executed, bill)
  BY DEF SameBut
<1>4. Now.s.ended => AllEnded(Now)
  BY DEF SessionInv, Held
<1> QED
  BY <1>1, <1>2, <1>3, <1>4, OneOpCloses

(* An operation on its way to be sent, and what it may become.             *)
Onward(o, p) ==
    /\ p.sent = o.sent /\ p.started = o.started /\ p.response = o.response
    /\ p.frame = o.frame /\ p.lease = o.lease /\ p.prev = o.prev
    /\ p.at \in {"admitting", "connecting", "sending", "await", "left"}
    /\ p.admitted = (p.at # "admitting")
    /\ p.settle \in {"none", "publishing"}
    /\ p.settle # "none" => p.admitted
    /\ p.admitted => (p.ending # "none" <=> p.settle # "none")
    /\ p.ending = o.ending \/ p.ending \in {"error", "timeout", "closed"}
LEMMA OnwardFits ==
    ASSUME SessionInv, NEW c \in Creates, NEW p, Onward(op[c], p),
           op[c].at \in {"waiting", "admitting", "connecting", "sending"}, op[c].settle = "none"
    PROVE  Fit(c, p) /\ Live(op[c]) /\ ~op[c].sent
<1> DEFINE o == op[c]
           l == script.lane[c]
<1>1. o \in Ops /\ OpHeld(c, l, o, up[c], executed, bill[c])
  BY NowIs
<1> HIDE DEF o, l
<1>2. /\ o.at \in {"waiting", "admitting", "connecting", "sending"} /\ o.settle = "none" /\ Onward(o, p)
  BY DEF o
<1>3. Live(o) /\ ~o.sent /\ c \notin executed /\ bill[c] = <<>> /\ l \in Lanes
      /\ (o.frame => o.lease) /\ o.ending # "terminal"
  BY <1>1, <1>2 DEF Live, OpHeld, PlaceHeld, AnswerHeld, BillHeld
<1>4. PlaceHeld(l, p)
  BY <1>2, <1>3 DEF PlaceHeld, Onward
<1>5. AnswerHeld(c, p, up[c], executed)
  BY <1>1, <1>2, <1>3 DEF OpHeld, AnswerHeld, Onward
<1>6. BillHeld(c, p, executed, bill[c])
  BY <1>3 DEF BillHeld
<1>7. SameStanding(o, p)
  <2>1. Live(p)
    BY <1>2 DEF Onward, Live
  <2> QED
    BY <1>2, <1>3, <2>1 DEF Onward, SameStanding
<1> QED
  BY <1>3, <1>4, <1>5, <1>6, <1>7 DEF Fit, OpHeld, o, l

(* While the session runs the operation waits for the same settlement as   *)
(* before, or there is none to wait for.                                   *)
LEMMA OnwardOrderly ==
    ASSUME SessionInv, NEW c \in Creates, NEW p, Onward(op[c], p), NEW y, Moved(y, c, p), ~s.ended,
           op[c].at \in {"waiting", "admitting", "connecting", "sending"}, op[c].settle = "none",
           \/ p.at \in {"admitting", "connecting", "sending"} /\ p.settle = "none" /\ p.ending = "none"
           \/ PreviousSettled(c) /\ p.at \in {"await", "left"}
    PROVE  Orderly(c, p, y)
<1>1. op \in [Creates -> Ops] /\ Flow(script.lane, Now, up, Creates) /\ Now.op = op
  BY NowIs DEF SessionInv, Held
<1>2. y.op[c] = p /\ \A d \in Creates \ {c} : y.op[d] = op[d]
  BY <1>1 DEF Moved
<1>3. ~p.sent /\ Live(op[c])
  BY OnwardFits DEF Onward
<1>4. ASSUME NEW e \in Creates PROVE Behind(script.lane, y, e, c)
  <2> SUFFICES ASSUME e # c, script.lane[e] = script.lane[c], y.op[e].settle = "writing"
               PROVE  /\ p.at \in {"waiting", "admitting", "connecting", "sending"}
                      /\ p.settle = "none" /\ p.prev = e
    BY <1>2 DEF Behind
  <2>1. op[e].settle = "writing" /\ op[c].prev = e
    BY <1>1, <1>2, <1>3 DEF Flow, Behind
  <2>2. ~PreviousSettled(c)
    BY <2>1, SessionAssumption DEF PreviousSettled
  <2> QED
    BY <2>1, <2>2 DEF Onward
<1> QED
  BY <1>3, <1>4 DEF Orderly

LEMMA MovedIs ==
    ASSUME SessionInv, NEW c \in Creates, NEW p \in Ops, NEW q \in Seq(Creates),
           NEW w \in {"none", "connecting", "open", "failed"}, NEW y,
           y = [s |-> [s EXCEPT !.chain = q, !.upstream = w], op |-> [op EXCEPT ![c] = p]]
    PROVE  Moved(y, c, p)
<1> DEFINE t == [s EXCEPT !.chain = q, !.upstream = w]
<1>1. s \in Session /\ op \in [Creates -> Ops] /\ Now.s = s
  BY NowIs
<1>2. t \in Session
  BY <1>1 DEF Session
<1>3. /\ t.lanes = s.lanes /\ t.active = s.active /\ t.settling = s.settling /\ t.wire = s.wire
      /\ t.dispatched = s.dispatched /\ t.buffered = s.buffered /\ t.ended = s.ended
  BY <1>1 DEF Session
<1> HIDE DEF t
<1>4. y.s = t /\ y.op = [op EXCEPT ![c] = p] /\ y \in Pair
  BY <1>1, <1>2 DEF Pair, t
<1> QED
  BY <1>1, <1>3, <1>4 DEF Moved, SameLanes

LEMMA ChainIs ==
    ASSUME SessionInv, NEW c \in Creates
    PROVE  /\ s = [s EXCEPT !.chain = s.chain, !.upstream = s.upstream]
           /\ s.chain \in Seq(Creates) /\ s.upstream \in {"none", "connecting", "open", "failed"}
           /\ \E q \in Seq(Creates) :
                Unchain(Now, c) = [s |-> [s EXCEPT !.chain = q, !.upstream = s.upstream], op |-> op]
<1>1. s \in Session /\ op \in [Creates -> Ops]
  BY NowIs
<1>2. s.chain \in Seq(Creates) /\ s.upstream \in {"none", "connecting", "open", "failed"}
  BY <1>1 DEF Session
<1>3. s = [s EXCEPT !.chain = s.chain, !.upstream = s.upstream]
  BY <1>1 DEF Session
<1> DEFINE q == IF s.chain # <<>> /\ Head(s.chain) = c THEN Tail(s.chain) ELSE s.chain
<1>4. q \in Seq(Creates)
  BY <1>2
<1>5. Unchain(Now, c) = [s |-> [s EXCEPT !.chain = q], op |-> op]
  BY DEF Unchain, Now
<1> HIDE DEF q
<1>6. [s EXCEPT !.chain = q] = [s EXCEPT !.chain = q, !.upstream = s.upstream]
  BY <1>1 DEF Session
<1> QED
  BY <1>2, <1>3, <1>4, <1>5, <1>6

(* The record of an operation on its way.                                  *)
PlacedAs(o, a, m) == [o EXCEPT !.at = a, !.admitted = m]
PlacedWell(o, a, m) ==
    LET p == PlacedAs(o, a, m)
    IN  /\ p \in Ops /\ p.at = a /\ p.admitted = m
        /\ p.sent = o.sent /\ p.started = o.started /\ p.response = o.response
        /\ p.frame = o.frame /\ p.lease = o.lease /\ p.prev = o.prev
        /\ p.ending = o.ending /\ p.settle = o.settle
LEMMA PlacedOps ==
    ASSUME NEW o \in Ops,
           NEW a \in {"admitting", "connecting", "sending", "await", "left"}, NEW m \in BOOLEAN
    PROVE  PlacedWell(o, a, m)
BY DEF PlacedAs, Ops, PlacedWell
OnwardWell(o) ==
    /\ \A a \in {"admitting", "connecting", "sending", "left"} :
         /\ PlacedAs(o, a, a # "admitting") \in Ops
         /\ o.ending = "none" => Onward(o, PlacedAs(o, a, a # "admitting"))
         /\ PlacedAs(o, a, a # "admitting").at = a
         /\ PlacedAs(o, a, a # "admitting").settle = "none"
         /\ PlacedAs(o, a, a # "admitting").ending = o.ending
    /\ \A a \in {"await", "left"}, outcome \in {"error", "timeout", "closed"} :
         /\ FinishOp(PlacedAs(o, a, TRUE), outcome) \in Ops
         /\ Onward(o, FinishOp(PlacedAs(o, a, TRUE), outcome))
         /\ FinishOp(PlacedAs(o, a, TRUE), outcome).at = a
LEMMA OnwardOps ==
    ASSUME NEW o \in Ops, o.settle = "none"
    PROVE  OnwardWell(o)
<1>2. ASSUME NEW a \in {"admitting", "connecting", "sending", "left"}
      PROVE  /\ PlacedAs(o, a, a # "admitting") \in Ops
             /\ o.ending = "none" => Onward(o, PlacedAs(o, a, a # "admitting"))
             /\ PlacedAs(o, a, a # "admitting").at = a
             /\ PlacedAs(o, a, a # "admitting").settle = "none"
             /\ PlacedAs(o, a, a # "admitting").ending = o.ending
  <2> DEFINE p == PlacedAs(o, a, a # "admitting")
  <2>1. /\ p \in Ops /\ p.at = a /\ p.admitted = (a # "admitting")
        /\ p.sent = o.sent /\ p.started = o.started /\ p.response = o.response
        /\ p.frame = o.frame /\ p.lease = o.lease /\ p.prev = o.prev
        /\ p.ending = o.ending /\ p.settle = "none"
    <3> DEFINE m == a # "admitting"
    <3>1. m \in BOOLEAN
      OBVIOUS
    <3> HIDE DEF m
    <3>2. PlacedWell(o, a, m)
      BY <3>1, PlacedOps
    <3> QED
      BY <3>2 DEF PlacedWell, m
  <2> HIDE DEF p
  <2>2. o.ending = "none" => Onward(o, p)
    BY <2>1 DEF Onward
  <2> QED
    BY <2>1, <2>2 DEF p
<1>3. ASSUME NEW a \in {"await", "left"}, NEW outcome \in {"error", "timeout", "closed"}
      PROVE  /\ FinishOp(PlacedAs(o, a, TRUE), outcome) \in Ops
             /\ Onward(o, FinishOp(PlacedAs(o, a, TRUE), outcome))
             /\ FinishOp(PlacedAs(o, a, TRUE), outcome).at = a
  <2> DEFINE p == PlacedAs(o, a, TRUE)
             r == FinishOp(p, outcome)
             w == IF p.ending = "none" THEN outcome ELSE p.ending
  <2>1. /\ p \in Ops /\ p.at = a /\ p.admitted = TRUE
        /\ p.sent = o.sent /\ p.started = o.started /\ p.response = o.response
        /\ p.frame = o.frame /\ p.lease = o.lease /\ p.prev = o.prev
        /\ p.ending = o.ending /\ p.settle = "none"
    <3>1. PlacedWell(o, a, TRUE)
      BY PlacedOps
    <3> QED
      BY <3>1 DEF PlacedWell
  <2> HIDE DEF p
  <2>2. r = [p EXCEPT !.ending = w, !.settle = "publishing"]
    BY <2>1 DEF FinishOp
  <2>3. w \in {"none", "terminal", "error", "timeout", "closed"} /\ w # "none"
        /\ (w = o.ending \/ w \in {"error", "timeout", "closed"})
    BY <2>1 DEF Ops
  <2> HIDE DEF w
  <2>4. r \in Ops
    BY <2>1, <2>2, <2>3 DEF Ops
  <2>5. /\ r.at = a /\ r.admitted = TRUE
        /\ r.sent = o.sent /\ r.started = o.started /\ r.response = o.response
        /\ r.frame = o.frame /\ r.lease = o.lease /\ r.prev = o.prev
        /\ r.ending = w /\ r.settle = "publishing"
    BY <2>1, <2>2 DEF Ops
  <2> HIDE DEF r
  <2>6. Onward(o, r)
    BY <2>3, <2>5 DEF Onward
  <2> QED
    BY <2>4, <2>5, <2>6 DEF p, r
<1> QED
  BY <1>2, <1>3 DEF OnwardWell

(* The pairs of dispatch: an operation is placed, its admission noted, and *)
(* the chain of dispatches goes on.                                        *)
LEMMA PlacedIs ==
    ASSUME SessionInv, NEW c \in Creates,
           NEW a \in {"admitting", "connecting", "sending", "await", "left"}
    PROVE  LET p == PlacedAs(op[c], a, op[c].admitted)
           IN  p \in Ops /\ [Now EXCEPT !.op[c].at = a] = [s |-> s, op |-> [op EXCEPT ![c] = p]]
<1> DEFINE o == op[c]
           p == PlacedAs(o, a, o.admitted)
<1>1. o \in Ops /\ op \in [Creates -> Ops]
  BY NowIs
<1>2. [Now EXCEPT !.op[c].at = a] = [s |-> s, op |-> [op EXCEPT ![c] = [op[c] EXCEPT !.at = a]]]
  BY DEF Now
<1>3. [o EXCEPT !.at = a] = p
  BY <1>1 DEF Ops, PlacedAs
<1>4. p \in Ops
  BY <1>1 DEF Ops, PlacedAs
<1> QED
  BY <1>2, <1>3, <1>4

Noted(c) == [Now EXCEPT !.op[c].admitted = TRUE]
LEMMA NotedIs ==
    ASSUME SessionInv, NEW c \in Creates
    PROVE  /\ Noted(c) \in Pair
           /\ Noted(c) = [s |-> s, op |-> [op EXCEPT ![c] = [op[c] EXCEPT !.admitted = TRUE]]]
           /\ \A a \in {"connecting", "await", "left"} :
                [[op[c] EXCEPT !.admitted = TRUE] EXCEPT !.at = a] = PlacedAs(op[c], a, TRUE)
<1> DEFINE o == op[c]
           r == [o EXCEPT !.admitted = TRUE]
<1>1. o \in Ops /\ op \in [Creates -> Ops] /\ s \in Session
  BY NowIs
<1>2. Noted(c) = [s |-> s, op |-> [op EXCEPT ![c] = r]]
  <2> DEFINE yes == TRUE
  <2> HIDE DEF yes
  <2>1. [Now EXCEPT !.op[c].admitted = yes] = [s |-> s, op |-> [op EXCEPT ![c] = [op[c] EXCEPT !.admitted = yes]]]
    BY DEF Now
  <2> QED
    BY <2>1 DEF Noted, yes
<1>3. r \in Ops
  BY <1>1 DEF Ops
<1>4. \A a \in {"connecting", "await", "left"} : [r EXCEPT !.at = a] = PlacedAs(o, a, TRUE)
  BY <1>1 DEF Ops, PlacedAs
<1>5. Noted(c) \in Pair
  <2> HIDE DEF r
  <2> QED
    BY <1>1, <1>2, <1>3 DEF Pair
<1> QED
  BY <1>2, <1>4, <1>5

LEMMA NotedAwaits ==
    ASSUME SessionInv, NEW c \in Creates
    PROVE  /\ [Noted(c) EXCEPT !.op[c].at = "await"]
                = [s |-> s, op |-> [op EXCEPT ![c] = PlacedAs(op[c], "await", TRUE)]]
           /\ \E q \in Seq(Creates) : Leave(Noted(c), c)
                = [s |-> [s EXCEPT !.chain = q, !.upstream = s.upstream],
                   op |-> [op EXCEPT ![c] = PlacedAs(op[c], "left", TRUE)]]
           /\ \E w \in {"none", "connecting", "open", "failed"} :
                [Noted(c) EXCEPT !.op[c].at = "connecting",
                                 !.s.upstream = IF @ = "none" THEN "connecting" ELSE @]
                = [s |-> [s EXCEPT !.chain = s.chain, !.upstream = w],
                   op |-> [op EXCEPT ![c] = PlacedAs(op[c], "connecting", TRUE)]]
<1> DEFINE r == [op[c] EXCEPT !.admitted = TRUE]
           x == Noted(c)
<1>1. /\ x \in Pair /\ x = [s |-> s, op |-> [op EXCEPT ![c] = r]]
      /\ \A a \in {"connecting", "await", "left"} : [r EXCEPT !.at = a] = PlacedAs(op[c], a, TRUE)
  BY NotedIs
<1>2. op \in [Creates -> Ops] /\ s \in Session
  BY NowIs
<1> HIDE DEF r, x
<1>3. x.s = s /\ x.op = [op EXCEPT ![c] = r] /\ x.op[c] = r
  BY <1>1, <1>2
<1>4. ASSUME NEW p PROVE [x.op EXCEPT ![c] = p] = [op EXCEPT ![c] = p]
  <2> DEFINE f == [x.op EXCEPT ![c] = p]
             g == [op EXCEPT ![c] = p]
  <2>1. DOMAIN f = Creates /\ DOMAIN g = Creates /\ \A d \in Creates : f[d] = g[d]
    BY <1>2, <1>3
  <2> QED
    BY <1>2, <1>3, <2>1
<1>5. \A a \in {"connecting", "await", "left"} :
         [x EXCEPT !.op[c].at = a] = [s |-> s, op |-> [op EXCEPT ![c] = PlacedAs(op[c], a, TRUE)]]
  <2> TAKE a \in {"connecting", "await", "left"}
  <2>1. [x EXCEPT !.op[c].at = a] = [x EXCEPT !.op = [x.op EXCEPT ![c] = [x.op[c] EXCEPT !.at = a]]]
    OBVIOUS
  <2>2. [x.op EXCEPT ![c] = [x.op[c] EXCEPT !.at = a]] = [op EXCEPT ![c] = PlacedAs(op[c], a, TRUE)]
    BY <1>1, <1>3, <1>4
  <2> DEFINE f == [op EXCEPT ![c] = PlacedAs(op[c], a, TRUE)]
  <2> HIDE DEF f
  <2>3. [x EXCEPT !.op = f] = [s |-> s, op |-> f]
    BY <1>1
  <2> QED
    BY <2>1, <2>2, <2>3 DEF f
<1>6. \E q \in Seq(Creates) : Leave(x, c)
        = [s |-> [s EXCEPT !.chain = q, !.upstream = s.upstream],
           op |-> [op EXCEPT ![c] = PlacedAs(op[c], "left", TRUE)]]
  <2>1. /\ Leave(x, c) \in Pair
        /\ Leave(x, c).op = [x.op EXCEPT ![c] = [x.op[c] EXCEPT !.at = "left"]]
        /\ \E q \in Seq(Creates) : Leave(x, c).s = [x.s EXCEPT !.chain = q]
    BY <1>1, LeaveIs
  <2>2. PICK q \in Seq(Creates) : Leave(x, c).s = [s EXCEPT !.chain = q]
    BY <1>3, <2>1
  <2>3. [s EXCEPT !.chain = q] = [s EXCEPT !.chain = q, !.upstream = s.upstream]
    BY <1>2 DEF Session
  <2>4. Leave(x, c).op = [op EXCEPT ![c] = PlacedAs(op[c], "left", TRUE)]
    BY <1>1, <1>3, <1>4, <2>1
  <2>5. Leave(x, c) = [s |-> Leave(x, c).s, op |-> Leave(x, c).op]
    BY <2>1, PairIs
  <2> QED
    BY <2>2, <2>3, <2>4, <2>5
<1>7. \E w \in {"none", "connecting", "open", "failed"} :
        [x EXCEPT !.op[c].at = "connecting", !.s.upstream = IF @ = "none" THEN "connecting" ELSE @]
        = [s |-> [s EXCEPT !.chain = s.chain, !.upstream = w],
           op |-> [op EXCEPT ![c] = PlacedAs(op[c], "connecting", TRUE)]]
  <2> DEFINE z == [x EXCEPT !.op[c].at = "connecting"]
             f == [op EXCEPT ![c] = PlacedAs(op[c], "connecting", TRUE)]
             w == IF s.upstream = "none" THEN "connecting" ELSE s.upstream
  <2>1. z = [s |-> s, op |-> f]
    BY <1>5
  <2>2. [x EXCEPT !.op[c].at = "connecting", !.s.upstream = IF @ = "none" THEN "connecting" ELSE @]
        = [z EXCEPT !.s = [z.s EXCEPT !.upstream = IF z.s.upstream = "none" THEN "connecting" ELSE z.s.upstream]]
    OBVIOUS
  <2>3. w \in {"none", "connecting", "open", "failed"}
    BY <1>2 DEF Session
  <2> HIDE DEF z, f
  <2>4. [z EXCEPT !.s = [z.s EXCEPT !.upstream = IF z.s.upstream = "none" THEN "connecting" ELSE z.s.upstream]]
        = [s |-> [s EXCEPT !.upstream = w], op |-> f]
    BY <2>1
  <2> HIDE DEF w
  <2>5. [s EXCEPT !.upstream = w] = [s EXCEPT !.chain = s.chain, !.upstream = w]
    BY <1>2 DEF Session
  <2> QED
    BY <2>2, <2>3, <2>4, <2>5 DEF f
<1> QED
  BY <1>5, <1>6, <1>7 DEF x

LEMMA RunningHas ==
    ASSUME SessionInv, ~s.ended, NEW c \in Creates
    PROVE  /\ op[c].ending # "none" => op[c].at \in {"await", "left"}
           /\ op[c].sent /\ op[c].ending # "none" => up[c] = "finished"
BY NowIs DEF SessionInv, Held, Flow

With(c, t, p) == [s |-> t, op |-> [op EXCEPT ![c] = p]]
LEMMA FinishedIs ==
    ASSUME SessionInv, NEW c \in Creates, NEW t, NEW p, NEW outcome
    PROVE  Finish(With(c, t, p), c, outcome) = With(c, t, FinishOp(p, outcome))
<1> DEFINE r == FinishOp(p, outcome)
           z == [s |-> t, op |-> [op EXCEPT ![c] = p]]
<1>1. op \in [Creates -> Ops]
  BY NowIs
<1>2. Finish(z, c, outcome) = [z EXCEPT !.op = [z.op EXCEPT ![c] = FinishOp(z.op[c], outcome)]]
  BY DEF Finish
<1>3. z.op = [op EXCEPT ![c] = p] /\ z.op[c] = p
  BY <1>1
<1>4. [z.op EXCEPT ![c] = FinishOp(z.op[c], outcome)] = [op EXCEPT ![c] = r]
  <2> HIDE DEF r
  <2>1. [z.op EXCEPT ![c] = r] = [op EXCEPT ![c] = r]
    BY <1>1, <1>3
  <2> QED
    BY <1>3, <2>1 DEF r
<1> HIDE DEF r
<1>5. [z EXCEPT !.op = [op EXCEPT ![c] = r]] = [s |-> t, op |-> [op EXCEPT ![c] = r]]
  OBVIOUS
<1> QED
  BY <1>2, <1>4, <1>5 DEF r, z, With

LEMMA AdmittedKeeps == \A c \in Creates : SessionInv /\ Admitted(c) => SessionInv'
<1> SUFFICES ASSUME SessionInv, NEW c \in Creates, Admitted(c) PROVE SessionInv'
  OBVIOUS
<1> DEFINE o == op[c]
           x == Noted(c)
           await == [x EXCEPT !.op[c].at = "await"]
           opens == [x EXCEPT !.op[c].at = "connecting", !.s.upstream = IF @ = "none" THEN "connecting" ELSE @]
<1>1. /\ o.at = "admitting" /\ UNCHANGED <<up, executed, late, bill, stored, told>>
      /\ \/ (s.ended \/ o.ending # "none") /\ Becomes(Finish(await, c, "closed"))
         \/ ~s.ended /\ o.ending = "none" /\ Becomes(Close(Leave(x, c)))
         \/ ~s.ended /\ o.ending = "none" /\ Becomes(Close(Finish(Leave(x, c), c, "timeout")))
         \/ ~s.ended /\ o.ending = "none" /\ Becomes(opens)
  BY DEF Admitted, Noted
<1>2. o \in Ops /\ OpHeld(c, script.lane[c], o, up[c], executed, bill[c])
      /\ op \in [Creates -> Ops] /\ s \in Session
  BY NowIs
<1>3. o.settle = "none" /\ OnwardWell(o)
  <2>1. o.settle = "none"
    BY <1>1, <1>2 DEF OpHeld, PlaceHeld
  <2> QED
    BY <1>2, <2>1, OnwardOps
<1>4. await = [s |-> s, op |-> [op EXCEPT ![c] = PlacedAs(o, "await", TRUE)]]
  BY NotedAwaits
<1>5. PICK q \in Seq(Creates) :
         Leave(x, c) = [s |-> [s EXCEPT !.chain = q, !.upstream = s.upstream],
                        op |-> [op EXCEPT ![c] = PlacedAs(o, "left", TRUE)]]
  BY NotedAwaits
<1>6. PICK w \in {"none", "connecting", "open", "failed"} :
         opens = [s |-> [s EXCEPT !.chain = s.chain, !.upstream = w],
                  op |-> [op EXCEPT ![c] = PlacedAs(o, "connecting", TRUE)]]
  BY NotedAwaits
<1>7. /\ s = [s EXCEPT !.chain = s.chain, !.upstream = s.upstream]
      /\ s.chain \in Seq(Creates) /\ s.upstream \in {"none", "connecting", "open", "failed"}
  BY ChainIs
<1> HIDE DEF o, x, await, opens
<1>9. CASE (s.ended \/ o.ending # "none") /\ Becomes(Finish(await, c, "closed"))
  <2> DEFINE p == FinishOp(PlacedAs(o, "await", TRUE), "closed")
             y == Finish(await, c, "closed")
  <2>1. s.ended
    BY <1>9, <1>1, RunningHas DEF o
  <2>2. p \in Ops /\ Onward(o, p) /\ p.at = "await"
    BY <1>3 DEF OnwardWell
  <2>8. y = [s |-> s, op |-> [op EXCEPT ![c] = p]]
    <3> DEFINE r == PlacedAs(o, "await", TRUE)
    <3> HIDE DEF r
    <3>1. Finish(With(c, s, r), c, "closed") = With(c, s, FinishOp(r, "closed"))
      BY FinishedIs
    <3> QED
      BY <1>4, <3>1 DEF With, r
  <2> HIDE DEF p, y
  <2>3. y = [s |-> [s EXCEPT !.chain = s.chain, !.upstream = s.upstream], op |-> [op EXCEPT ![c] = p]]
    BY <1>7, <2>8
  <2>4. Moved(y, c, p)
    BY <1>7, <2>2, <2>3, MovedIs
  <2>5. Fit(c, p) /\ ~op[c].sent
    BY <1>1, <1>3, <2>2, OnwardFits DEF o
  <2>6. ~p.sent
    BY <2>2, <2>5 DEF Onward, o
  <2>7. Held(script.lane, y, up, executed, bill, stored)
    BY <2>1, <2>4, <2>5, <2>6, MovedHeld
  <2> QED
    BY <1>1, <1>9, <2>7, BecameInside DEF y
<1>10. CASE ~s.ended /\ o.ending = "none" /\ Becomes(Close(Leave(x, c)))
  <2> DEFINE p == PlacedAs(o, "left", TRUE)
             y == Leave(x, c)
  <2>1. p = PlacedAs(o, "left", "left" # "admitting")
    OBVIOUS
  <2>2. p \in Ops /\ Onward(o, p)
    BY <1>3, <1>10, <2>1 DEF OnwardWell
  <2> HIDE DEF p, y
  <2>3. Moved(y, c, p)
    BY <1>5, <1>7, <2>2, MovedIs DEF p, y
  <2>4. Fit(c, p)
    BY <1>1, <1>3, <2>2, OnwardFits DEF o
  <2>5. Held(script.lane, Close(y), up, executed, bill, stored)
    BY <1>10, <2>3, <2>4, MovedCloses
  <2> QED
    BY <1>1, <1>10, <2>5, BecameInside DEF y
<1>11. CASE ~s.ended /\ o.ending = "none" /\ Becomes(Close(Finish(Leave(x, c), c, "timeout")))
  <2> DEFINE p == FinishOp(PlacedAs(o, "left", TRUE), "timeout")
             y == Finish(Leave(x, c), c, "timeout")
  <2>1. p \in Ops /\ Onward(o, p)
    BY <1>3 DEF OnwardWell
  <2>2. y = [s |-> [s EXCEPT !.chain = q, !.upstream = s.upstream], op |-> [op EXCEPT ![c] = p]]
    <3> DEFINE t == [s EXCEPT !.chain = q, !.upstream = s.upstream]
               r == PlacedAs(o, "left", TRUE)
    <3> HIDE DEF t, r
    <3>1. Finish(With(c, t, r), c, "timeout") = With(c, t, FinishOp(r, "timeout"))
      BY FinishedIs
    <3> QED
      BY <1>5, <3>1 DEF t, r, With
  <2> HIDE DEF p, y
  <2>3. Moved(y, c, p)
    BY <1>7, <2>1, <2>2, MovedIs
  <2>4. Fit(c, p)
    BY <1>1, <1>3, <2>1, OnwardFits DEF o
  <2>5. Held(script.lane, Close(y), up, executed, bill, stored)
    BY <1>11, <2>3, <2>4, MovedCloses
  <2> QED
    BY <1>1, <1>11, <2>5, BecameInside DEF y
<1>12. CASE ~s.ended /\ o.ending = "none" /\ Becomes(opens)
  <2> DEFINE p == PlacedAs(o, "connecting", TRUE)
  <2>1. p = PlacedAs(o, "connecting", "connecting" # "admitting")
    OBVIOUS
  <2>2. p \in Ops /\ Onward(o, p) /\ p.at = "connecting" /\ p.settle = "none" /\ p.ending = "none"
    BY <1>3, <1>12, <2>1 DEF OnwardWell
  <2> HIDE DEF p
  <2>3. Moved(opens, c, p)
    BY <1>6, <1>7, <2>2, MovedIs DEF p
  <2>4. Fit(c, p)
    BY <1>1, <1>3, <2>2, OnwardFits DEF o
  <2>5. Orderly(c, p, opens)
    BY <1>1, <1>3, <1>12, <2>2, <2>3, OnwardOrderly DEF o
  <2>6. Held(script.lane, opens, up, executed, bill, stored)
    BY <1>12, <2>3, <2>4, <2>5, MovedHeld
  <2> QED
    BY <1>1, <1>12, <2>6, BecameInside
<1> QED
  BY <1>1, <1>9, <1>10, <1>11, <1>12

(* An admitted operation moves on, in a session that runs or has ended.    *)
ShiftedWell(c, p) == p \in Ops /\ Fit(c, p) /\ ~p.sent
LEMMA ShiftedFits ==
    ASSUME SessionInv, NEW c \in Creates, op[c].at \in {"connecting", "sending", "await"},
           NEW a \in {"sending", "await", "left"}
    PROVE  /\ ShiftedWell(c, PlacedAs(op[c], a, TRUE))
           /\ op[c].admitted = TRUE
           /\ op[c].at \in {"connecting", "sending"} /\ ~s.ended => op[c].settle = "none" /\ op[c].ending = "none"
<1> DEFINE o == op[c]
           l == script.lane[c]
           p == PlacedAs(o, a, TRUE)
<1>1. o \in Ops /\ OpHeld(c, l, o, up[c], executed, bill[c])
  BY NowIs
<1>2. PlacedWell(o, a, TRUE)
  BY <1>1, PlacedOps
<1>3. o.admitted = TRUE /\ ~o.sent /\ l \in Lanes
  BY <1>1 DEF OpHeld, PlaceHeld, Ops
<1>4. /\ p \in Ops /\ p.at = a /\ p.admitted = TRUE
      /\ p.sent = o.sent /\ p.started = o.started /\ p.response = o.response
      /\ p.frame = o.frame /\ p.lease = o.lease /\ p.prev = o.prev
      /\ p.ending = o.ending /\ p.settle = o.settle
  BY <1>2 DEF PlacedWell
<1> HIDE DEF p
<1>5. PlaceHeld(l, p)
  BY <1>1, <1>3, <1>4 DEF OpHeld, PlaceHeld
<1>6. AnswerHeld(c, p, up[c], executed)
  BY <1>1, <1>4 DEF OpHeld, AnswerHeld
<1>7. BillHeld(c, p, executed, bill[c])
  BY <1>1, <1>3, <1>4 DEF OpHeld, BillHeld
<1>8. SameStanding(o, p)
  BY <1>3, <1>4 DEF SameStanding, Live
<1>9. o.at \in {"connecting", "sending"} /\ ~s.ended => o.settle = "none" /\ o.ending = "none"
  BY <1>1, <1>3, RunningHas DEF OpHeld, PlaceHeld
<1> QED
  BY <1>3, <1>4, <1>5, <1>6, <1>7, <1>8, <1>9 DEF ShiftedWell, Fit, OpHeld, p

LEMMA FinishedFits ==
    ASSUME SessionInv, NEW c \in Creates, op[c].at \in {"connecting", "sending"},
           NEW outcome \in {"error", "timeout", "closed"}
    PROVE  LET p == FinishOp(PlacedAs(op[c], "await", TRUE), outcome)
           IN  ShiftedWell(c, p) /\ (~s.ended => Onward(op[c], p) /\ op[c].settle = "none" /\ p.at = "await")
<1> DEFINE o == op[c]
           r == PlacedAs(o, "await", TRUE)
           p == FinishOp(r, outcome)
<1>1. o \in Ops
  BY NowIs
<1>2. ShiftedWell(c, r) /\ (~s.ended => o.settle = "none")
  BY ShiftedFits
<1>3. CASE o.settle = "none"
  <2>1. OnwardWell(o)
    BY <1>1, <1>3, OnwardOps
  <2>2. p \in Ops /\ Onward(o, p) /\ p.at = "await"
    BY <2>1 DEF OnwardWell
  <2> HIDE DEF p
  <2>3. Fit(c, p) /\ ~o.sent
    BY <1>3, <2>2, OnwardFits
  <2>4. ~p.sent
    BY <2>2, <2>3 DEF Onward
  <2> QED
    BY <1>3, <2>2, <2>3, <2>4 DEF p, ShiftedWell
<1>4. CASE o.settle # "none"
  <2>1. PlacedWell(o, "await", TRUE)
    BY <1>1, PlacedOps
  <2>2. r.settle # "none"
    BY <1>4, <2>1 DEF PlacedWell
  <2> HIDE DEF r
  <2>3. p = r
    BY <2>2 DEF FinishOp
  <2> QED
    BY <1>2, <1>4, <2>3 DEF r
<1> QED
  BY <1>3, <1>4

LEMMA ConnectFailsKeeps == \A c \in Creates : SessionInv /\ ConnectFails(c) => SessionInv'
<1> SUFFICES ASSUME SessionInv, NEW c \in Creates, ConnectFails(c) PROVE SessionInv'
  OBVIOUS
<1> DEFINE o == op[c]
           r == PlacedAs(o, "await", TRUE)
           p == FinishOp(r, "error")
           t == [s EXCEPT !.chain = s.chain, !.upstream = "failed"]
           x == [Now EXCEPT !.op[c].at = "await", !.s.upstream = "failed"]
           y == Finish(x, c, "error")
<1>1. o.at = "connecting" /\ Becomes(Close(y)) /\ UNCHANGED <<up, executed, late, bill, stored, told>>
  BY DEF ConnectFails
<1>2. op \in [Creates -> Ops] /\ s \in Session
  BY NowIs
<1>3. x = With(c, t, r)
  <2>1. o.admitted = TRUE
    BY <1>1, ShiftedFits
  <2>2. [Now EXCEPT !.op[c].at = "await"] = [s |-> s, op |-> [op EXCEPT ![c] = PlacedAs(o, "await", o.admitted)]]
    BY PlacedIs
  <2> DEFINE z == [Now EXCEPT !.op[c].at = "await"]
             f == [op EXCEPT ![c] = r]
  <2>3. z = [s |-> s, op |-> f]
    BY <2>1, <2>2
  <2>4. x = [z EXCEPT !.s = [z.s EXCEPT !.upstream = "failed"]]
    OBVIOUS
  <2>5. [s EXCEPT !.upstream = "failed"] = t
    BY <1>2 DEF Session
  <2> HIDE DEF z, f, x, t
  <2>6. x = [s |-> [s EXCEPT !.upstream = "failed"], op |-> f]
    BY <2>3, <2>4
  <2> QED
    BY <2>5, <2>6 DEF With, f
<1>4. ShiftedWell(c, p)
  BY <1>1, FinishedFits
<1>5. s.chain \in Seq(Creates)
  BY ChainIs
<1>6. y = With(c, t, p)
  <2> HIDE DEF t, r, x
  <2> QED
    BY <1>3, FinishedIs
<1> HIDE DEF p, y, o
<1>7. Moved(y, c, p)
  BY <1>4, <1>5, <1>6, MovedIs DEF With, ShiftedWell
<1>8. Held(script.lane, Close(y), up, executed, bill, stored)
  BY <1>4, <1>7, MovedCloses DEF ShiftedWell
<1> QED
  BY <1>1, <1>8, BecameInside

LEMMA ConnectReturnsKeeps == \A c \in Creates : SessionInv /\ ConnectReturns(c) => SessionInv'
<1> SUFFICES ASSUME SessionInv, NEW c \in Creates, ConnectReturns(c) PROVE SessionInv'
  OBVIOUS
<1> DEFINE o == op[c]
           p == PlacedAs(o, "sending", TRUE)
           x == Unchain(Now, c)
           y == [x EXCEPT !.op[c].at = "sending"]
<1>1. o.at = "connecting" /\ Becomes(y) /\ UNCHANGED <<up, executed, late, bill, stored, told>>
  BY DEF ConnectReturns
<1>2. op \in [Creates -> Ops] /\ s \in Session /\ o \in Ops
  BY NowIs
<1>3. /\ ShiftedWell(c, p) /\ o.admitted = TRUE
      /\ ~s.ended => o.settle = "none" /\ o.ending = "none"
  BY <1>1, ShiftedFits
<1>4. PICK q \in Seq(Creates) :
        x = [s |-> [s EXCEPT !.chain = q, !.upstream = s.upstream], op |-> op]
  BY ChainIs
<1>5. s.upstream \in {"none", "connecting", "open", "failed"}
  BY ChainIs
<1>6. y = [s |-> [s EXCEPT !.chain = q, !.upstream = s.upstream], op |-> [op EXCEPT ![c] = p]]
  <2> DEFINE t == [s EXCEPT !.chain = q, !.upstream = s.upstream]
  <2> HIDE DEF t, x
  <2>1. y = [s |-> t, op |-> [op EXCEPT ![c] = [o EXCEPT !.at = "sending"]]]
    BY <1>4 DEF t
  <2>2. [o EXCEPT !.at = "sending"] = p
    BY <1>2, <1>3 DEF PlacedAs, Ops
  <2> QED
    BY <2>1, <2>2 DEF t
<1> HIDE DEF y, p, x
<1>7. Moved(y, c, p)
  BY <1>3, <1>5, <1>6, MovedIs DEF ShiftedWell
<1>8. ASSUME ~s.ended PROVE Orderly(c, p, y)
  <2>1. OnwardWell(o)
    BY <1>2, <1>3, <1>8, OnwardOps
  <2>2. p = PlacedAs(o, "sending", "sending" # "admitting")
    BY DEF p
  <2>3. Onward(o, p) /\ p.at = "sending" /\ p.settle = "none" /\ p.ending = "none"
    BY <1>3, <1>8, <2>1, <2>2 DEF OnwardWell
  <2> QED
    BY <1>1, <1>3, <1>7, <1>8, <2>3, OnwardOrderly
<1>9. Held(script.lane, y, up, executed, bill, stored)
  BY <1>3, <1>7, <1>8, MovedHeld DEF ShiftedWell
<1> QED
  BY <1>1, <1>9, BecameInside

LEMMA TimeoutKeeps == \A c \in Creates : SessionInv /\ Timeout(c) => SessionInv'
<1> SUFFICES ASSUME SessionInv, NEW c \in Creates, Timeout(c) PROVE SessionInv'
  OBVIOUS
<1> DEFINE o == op[c]
           p == FinishOp(o, "timeout")
           y == Finish(Now, c, "timeout")
<1>1. c \in Actives(Now) /\ Becomes(Close(y)) /\ UNCHANGED <<up, executed, late, bill, stored, told>>
  BY DEF Timeout
<1>2. /\ Now \in Pair /\ Now.s = s /\ Now.op = op /\ Core(script.lane, Now, up, executed, bill)
      /\ o \in Ops /\ OpHeld(c, script.lane[c], o, up[c], executed, bill[c])
  BY NowIs
<1>3. Live(o)
  <2>1. PICK l \in Lanes : c = Now.s.active[l] /\ c # NoCreate
    BY <1>1 DEF Actives
  <2> QED
    BY <1>2, <2>1 DEF Core, LanesHeld
<1>4. y = [s |-> s, op |-> [op EXCEPT ![c] = p]] /\ y \in Pair
  BY <1>2, FinishIs
<1>5. /\ OpHeld(c, script.lane[c], p, up[c], executed, bill[c])
      /\ SameStanding(o, p) /\ p.ending # "none"
  <2> HIDE DEF o
  <2> QED
    BY <1>2, <1>3, FinishOpHeld
<1> HIDE DEF p, y
<1>6. Moved(y, c, p) /\ Fit(c, p)
  BY <1>2, <1>4, <1>5 DEF Moved, Fit, SameLanes
<1>7. Held(script.lane, Close(y), up, executed, bill, stored)
  BY <1>5, <1>6, MovedCloses
<1> QED
  BY <1>1, <1>7, BecameInside

LEMMA AwaitReturnsKeeps == \A c \in Creates : SessionInv /\ AwaitReturns(c) => SessionInv'
<1> SUFFICES ASSUME SessionInv, NEW c \in Creates, AwaitReturns(c) PROVE SessionInv'
  OBVIOUS
<1> DEFINE o == op[c]
           p == PlacedAs(o, "left", TRUE)
           y == Leave(Now, c)
<1>1. /\ o.at = "await" /\ o.settle = "done" /\ Becomes(y)
      /\ UNCHANGED <<up, executed, late, bill, stored, told>>
  BY DEF AwaitReturns
<1>2. /\ Now \in Pair /\ Now.s = s /\ Now.op = op /\ o \in Ops /\ s \in Session /\ op \in [Creates -> Ops]
  BY NowIs
<1>3. ShiftedWell(c, p) /\ o.admitted = TRUE
  BY <1>1, ShiftedFits
<1>4. /\ y \in Pair /\ y.op = [op EXCEPT ![c] = [o EXCEPT !.at = "left"]]
      /\ \E q \in Seq(Creates) : y.s = [s EXCEPT !.chain = q]
  <2>1. /\ y \in Pair /\ y.op = [Now.op EXCEPT ![c] = [Now.op[c] EXCEPT !.at = "left"]]
        /\ \E q \in Seq(Creates) : y.s = [Now.s EXCEPT !.chain = q]
    BY <1>2, LeaveIs
  <2> HIDE DEF y
  <2> QED
    BY <1>2, <2>1
<1>5. [o EXCEPT !.at = "left"] = p
  BY <1>2, <1>3 DEF PlacedAs, Ops
<1>6. SameLanes(Now, y) /\ y.s.ended = s.ended /\ y.s.wire = s.wire
  BY <1>2, <1>4 DEF Session, SameLanes
<1>7. p.at = "left" /\ p.settle = "done"
  <2>1. PlacedWell(o, "left", TRUE)
    BY <1>2, PlacedOps
  <2> QED
    BY <1>1, <2>1 DEF PlacedWell
<1> HIDE DEF p, y
<1>8. Moved(y, c, p)
  BY <1>4, <1>5, <1>6 DEF Moved
<1>9. Orderly(c, p, y)
  <2>1. y.op[c] = p
    BY <1>2, <1>4, <1>5
  <2> QED
    BY <1>3, <1>7, <2>1 DEF Orderly, Behind, Live, ShiftedWell
<1>10. Held(script.lane, y, up, executed, bill, stored)
  BY <1>3, <1>8, <1>9, MovedHeld DEF ShiftedWell
<1> QED
  BY <1>1, <1>10, BecameInside

-----------------------------------------------------------------------------
(* A step of one operation that gives back its bytes, its slot or its lane. *)
LEMMA StepCore ==
    ASSUME NEW lane, NEW x, NEW y \in Pair, NEW c \in Creates, NEW p \in Ops,
           NEW u, NEW ran, NEW b, NEW v, NEW went, NEW paid,
           Core(lane, x, u, ran, b), y.op = [x.op EXCEPT ![c] = p],
           SameBut(c, u, ran, b, v, went, paid), OpHeld(c, lane[c], p, v[c], went, paid[c]),
           WireHeld(y), y.s.lanes = x.s.lanes, x.op[c].at # "queued",
           p.frame => x.op[c].frame,
           y.s.buffered = x.s.buffered - (IF x.op[c].frame /\ ~p.frame THEN 1 ELSE 0),
           LanesHeld(lane, y), SettlingHeld(y), Busy(y) <= ActiveLimit
    PROVE  Core(lane, y, v, went, paid)
<1>1. x \in Pair /\ x.op \in [Creates -> Ops] /\ x.s \in Session
  BY PairIs DEF Core
<1>2. y.op[c] = p /\ \A d \in Creates \ {c} : y.op[d] = x.op[d]
  BY <1>1
<1>4. \A d \in Creates : OpHeld(d, lane[d], y.op[d], v[d], went, paid[d])
  <2> TAKE d \in Creates
  <2>1. CASE d = c
    BY <2>1, <1>2
  <2>2. CASE d # c
    <3>1. OpHeld(d, lane[d], x.op[d], u[d], ran, b[d])
      BY DEF Core
    <3>2. v[d] = u[d] /\ (d \in went <=> d \in ran) /\ paid[d] = b[d] /\ y.op[d] = x.op[d]
      BY <2>2, <1>2 DEF SameBut
    <3> QED
      BY <3>1, <3>2 DEF OpHeld, AnswerHeld, BillHeld
  <2> QED
    BY <2>1, <2>2
<1>5. QueuesHeld(lane, y)
  <2>1. \A l \in Lanes : \A i \in DOMAIN x.s.lanes[l] : x.s.lanes[l][i] \in Creates
    BY <1>1 DEF Session
  <2>2. QueuesHeld(lane, x)
    BY DEF Core
  <2>3. \A l \in Lanes : \A i \in DOMAIN x.s.lanes[l] : y.op[x.s.lanes[l][i]] = x.op[x.s.lanes[l][i]]
    BY <1>2, <2>1, <2>2 DEF QueuesHeld
  <2> QED
    BY <2>2, <2>3 DEF QueuesHeld
<1>6. BytesCounted(y)
  <2> DEFINE F == {d \in Creates : x.op[d].frame}
             G == {d \in Creates : y.op[d].frame}
  <2>1. IsFiniteSet(F)
    BY SessionAssumption, FS_Subset
  <2>2. x.s.buffered = Cardinality(F)
    BY DEF Core, BytesCounted
  <2>3. CASE x.op[c].frame /\ ~p.frame
    <3>1. G = F \ {c} /\ c \in F
      BY <1>2, <2>3
    <3> HIDE DEF F, G
    <3>2. Cardinality(G) = Cardinality(F) - 1
      BY <2>1, <3>1, FS_RemoveElement
    <3> QED
      BY <2>2, <2>3, <3>2 DEF BytesCounted, G
  <2>4. CASE ~(x.op[c].frame /\ ~p.frame)
    <3>1. G = F
      BY <1>2, <2>4
    <3>2. x.s.buffered \in Int
      BY <1>1 DEF Session
    <3>3. y.s.buffered = x.s.buffered
      BY <2>4, <3>2
    <3> HIDE DEF F, G
    <3> QED
      BY <2>2, <3>1, <3>3 DEF BytesCounted, G
  <2> QED
    BY <2>3, <2>4
<1> QED
  BY <1>4, <1>5, <1>6 DEF Core

ActiveStep(lane, x, y, c, p) ==
    \/ Live(p) /\ Live(x.op[c]) /\ y.s.active = x.s.active
    \/ ~Live(p) /\ y.s.active = [x.s.active EXCEPT ![lane[c]] = IF x.s.active[lane[c]] = c THEN NoCreate ELSE @]
Expected(lane, y) ==
    \A d \in Creates : y.op[d].sent /\ y.op[d].settle # "done" => y.s.dispatched[lane[d]] = d
LEMMA StepLanes ==
    ASSUME NEW lane, NEW x, NEW y \in Pair, NEW c \in Creates, NEW p, lane[c] \in Lanes,
           NEW u, NEW ran, NEW b, Core(lane, x, u, ran, b), y.op = [x.op EXCEPT ![c] = p],
           ActiveStep(lane, x, y, c, p), Expected(lane, y)
    PROVE  LanesHeld(lane, y)
<1>1. x \in Pair /\ x.op \in [Creates -> Ops] /\ x.s \in Session /\ LanesHeld(lane, x)
  BY PairIs DEF Core
<1>2. y.op[c] = p /\ \A d \in Creates \ {c} : y.op[d] = x.op[d]
  BY <1>1
<1>3. x.s.active \in [Lanes -> Creates \cup {NoCreate}]
  BY <1>1 DEF Session
<1>4. CASE Live(p) /\ Live(x.op[c]) /\ y.s.active = x.s.active
  BY <1>1, <1>2, <1>3, <1>4 DEF LanesHeld, Expected
<1>5. CASE ~Live(p) /\ y.s.active = [x.s.active EXCEPT ![lane[c]] = IF x.s.active[lane[c]] = c THEN NoCreate ELSE @]
  <2>1. \A l \in Lanes : /\ x.s.active[l] # c => y.s.active[l] = x.s.active[l]
                         /\ x.s.active[l] = c => y.s.active[l] = NoCreate
    <3>1. \A l \in Lanes : x.s.active[l] = c => l = lane[c]
      BY <1>1, <1>3, SessionAssumption DEF LanesHeld
    <3> QED
      BY <1>3, <1>5, <3>1
  <2>2. \A l \in Lanes : y.s.active[l] # NoCreate =>
          lane[y.s.active[l]] = l /\ Live(y.op[y.s.active[l]])
    BY <1>1, <1>2, <1>3, <2>1 DEF LanesHeld
  <2>3. \A d \in Creates : Live(y.op[d]) => y.s.active[lane[d]] = d
    <3> SUFFICES ASSUME NEW d \in Creates, Live(y.op[d]) PROVE y.s.active[lane[d]] = d
      OBVIOUS
    <3>1. d # c /\ Live(x.op[d]) /\ x.s.active[lane[d]] = d
      BY <1>1, <1>2, <1>5 DEF LanesHeld
    <3>2. lane[d] # lane[c] => y.s.active[lane[d]] = x.s.active[lane[d]]
      BY <1>3, <1>5
    <3> QED
      BY <2>1, <3>1, <3>2
  <2> QED
    BY <2>2, <2>3 DEF LanesHeld, Expected
<1> QED
  BY <1>4, <1>5 DEF ActiveStep

(* releaseFrame and retire, field by field.                                *)
ReleasedAs(o) == [o EXCEPT !.frame = FALSE]
Freed(o) == IF o.frame THEN 1 ELSE 0
LEMMA ReleaseIs ==
    ASSUME NEW x \in Pair, NEW c \in Creates
    PROVE  /\ ReleaseFrame(x, c) \in Pair
           /\ ReleaseFrame(x, c).op = [x.op EXCEPT ![c] = ReleasedAs(x.op[c])]
           /\ ReleaseFrame(x, c).s = [x.s EXCEPT !.buffered = x.s.buffered - Freed(x.op[c])]
<1> DEFINE o == x.op[c]
           n == x.s.buffered - Freed(o)
           t == [x.s EXCEPT !.buffered = n]
           f == [x.op EXCEPT ![c] = ReleasedAs(o)]
<1>1. o \in Ops /\ x.s \in Session /\ x.op \in [Creates -> Ops] /\ x = [s |-> x.s, op |-> x.op]
  BY PairIs
<1>2. ReleasedAs(o) \in Ops
  BY <1>1 DEF ReleasedAs, Ops
<1>3. x.s.buffered \in Int /\ n \in Int /\ Freed(o) \in {0, 1}
  BY <1>1 DEF Session, Freed
<1>4. ReleaseFrame(x, c) = [s |-> t, op |-> f]
  <2>1. CASE o.frame
    <3>1. n = x.s.buffered - 1
      BY <2>1 DEF Freed
    <3> DEFINE no == FALSE
    <3>2. ReleasedAs(o) = [o EXCEPT !.frame = no]
      BY DEF ReleasedAs
    <3>3. ReleaseFrame(x, c) = [x EXCEPT !.op[c].frame = no, !.s.buffered = @ - 1]
      BY <2>1 DEF ReleaseFrame
    <3> HIDE DEF no
    <3>4. [x EXCEPT !.op[c].frame = no, !.s.buffered = @ - 1]
            = [s |-> [x.s EXCEPT !.buffered = x.s.buffered - 1], op |-> [x.op EXCEPT ![c] = [o EXCEPT !.frame = no]]]
      <4> DEFINE z == [x EXCEPT !.op[c].frame = no]
                 g == [x.op EXCEPT ![c] = [o EXCEPT !.frame = no]]
                 k == x.s.buffered - 1
                 w == [x EXCEPT !.op[c].frame = no, !.s.buffered = @ - 1]
      <4>1. z = [s |-> x.s, op |-> g]
        BY DEF Pair
      <4>2. w = [z EXCEPT !.s = [z.s EXCEPT !.buffered = k]]
        OBVIOUS
      <4> HIDE DEF z, g, k, w
      <4>3. w = [s |-> [x.s EXCEPT !.buffered = k], op |-> g]
        BY <4>1, <4>2
      <4> QED
        BY <4>3 DEF g, k, w
    <3> QED
      BY <3>1, <3>2, <3>3, <3>4
  <2>2. CASE ~o.frame
    <3>1. ReleasedAs(o) = o
      BY <1>1, <2>2 DEF ReleasedAs, Ops
    <3>2. f = x.op
      BY <1>1, <3>1
    <3>3. n = x.s.buffered
      BY <1>3, <2>2 DEF Freed
    <3>4. t = x.s
      BY <1>1, <3>3 DEF Session
    <3>5. ReleaseFrame(x, c) = x
      BY <2>2 DEF ReleaseFrame
    <3> HIDE DEF t, f
    <3> QED
      BY <1>1, <3>2, <3>4, <3>5
  <2> QED
    BY <2>1, <2>2
<1> HIDE DEF n, o
<1>5. t \in Session
  BY <1>1, <1>3 DEF Session
<1>6. f \in [Creates -> Ops]
  BY <1>1, <1>2
<1> HIDE DEF t, f
<1>7. ReleaseFrame(x, c) \in Pair /\ ReleaseFrame(x, c).s = t /\ ReleaseFrame(x, c).op = f
  BY <1>4, <1>5, <1>6 DEF Pair
<1> QED
  BY <1>7 DEF t, f, n, o

RetiredAs(o) == [o EXCEPT !.frame = FALSE, !.lease = FALSE]
LEMMA RetireIs ==
    ASSUME NEW x \in Pair, NEW c \in Creates
    PROVE  /\ Retire(x, c) \in Pair
           /\ Retire(x, c).op = [x.op EXCEPT ![c] = RetiredAs(x.op[c])]
           /\ Retire(x, c).s = [x.s EXCEPT !.buffered = x.s.buffered - Freed(x.op[c])]
<1> DEFINE o == x.op[c]
           r == ReleasedAs(o)
           y == ReleaseFrame(x, c)
           no == FALSE
           z == Retire(x, c)
<1>1. /\ y \in Pair /\ y.op = [x.op EXCEPT ![c] = r]
      /\ y.s = [x.s EXCEPT !.buffered = x.s.buffered - Freed(o)]
  BY ReleaseIs
<1>2. o \in Ops /\ x.op \in [Creates -> Ops]
  BY PairIs
<1>3. z = [y EXCEPT !.op[c].lease = no]
  BY DEF Retire
<1>4. RetiredAs(o) = [r EXCEPT !.lease = no] /\ RetiredAs(o) \in Ops
  BY <1>2 DEF RetiredAs, ReleasedAs, Ops
<1> HIDE DEF no, y, z, o, r
<1>5. z = [s |-> y.s, op |-> [y.op EXCEPT ![c] = [y.op[c] EXCEPT !.lease = no]]]
  BY <1>1, <1>3 DEF Pair
<1>6. y.op[c] = r
  BY <1>1, <1>2
<1>7. [y.op EXCEPT ![c] = [r EXCEPT !.lease = no]] = [x.op EXCEPT ![c] = RetiredAs(o)]
  <2> DEFINE p == RetiredAs(o)
  <2> HIDE DEF p
  <2>1. [y.op EXCEPT ![c] = p] = [x.op EXCEPT ![c] = p]
    BY <1>1, <1>2
  <2> QED
    BY <2>1, <1>4 DEF p
<1>8. z.s = y.s /\ z.op = [x.op EXCEPT ![c] = RetiredAs(o)]
  BY <1>5, <1>6, <1>7
<1>9. z \in Pair
  <2>1. y.s \in Session /\ [x.op EXCEPT ![c] = RetiredAs(o)] \in [Creates -> Ops]
    BY <1>1, <1>2, <1>4, PairIs
  <2> QED
    BY <1>5, <1>6, <1>7, <2>1 DEF Pair
<1> QED
  BY <1>1, <1>8, <1>9 DEF o, z

(* send: the lane's response is expected from now on.                      *)
SentAs(o) == [o EXCEPT !.at = "left", !.frame = FALSE, !.sent = TRUE]
Send(c) == [ReleaseFrame(Leave(Now, c), c) EXCEPT !.op[c].sent = TRUE, !.s.dispatched[LaneOf(c)] = c]
LEMMA SendIs ==
    ASSUME SessionInv, NEW c \in Creates, LaneOf(c) \in Lanes
    PROVE  /\ Send(c) \in Pair /\ Send(c).op = [op EXCEPT ![c] = SentAs(op[c])] /\ SentAs(op[c]) \in Ops
           /\ Send(c).s.lanes = s.lanes /\ Send(c).s.active = s.active
           /\ Send(c).s.settling = s.settling /\ Send(c).s.wire = s.wire /\ Send(c).s.ended = s.ended
           /\ Send(c).s.buffered = s.buffered - Freed(op[c])
           /\ Send(c).s.dispatched = [s.dispatched EXCEPT ![LaneOf(c)] = c]
<1> DEFINE o == op[c]
           l == LaneOf(c)
           x == Leave(Now, c)
           o1 == [o EXCEPT !.at = "left"]
           y == ReleaseFrame(x, c)
           z == Send(c)
           yes == TRUE
<1>1. Now \in Pair /\ Now.s = s /\ Now.op = op /\ o \in Ops /\ s \in Session /\ op \in [Creates -> Ops]
  BY NowIs
<1>2. /\ x \in Pair /\ x.op = [Now.op EXCEPT ![c] = [Now.op[c] EXCEPT !.at = "left"]]
      /\ \E q \in Seq(Creates) : x.s = [Now.s EXCEPT !.chain = q]
  BY <1>1, LeaveIs
<1> HIDE DEF x
<1>3. x.op = [op EXCEPT ![c] = o1] /\ \E q \in Seq(Creates) : x.s = [s EXCEPT !.chain = q]
  BY <1>1, <1>2
<1>4. o1 \in Ops /\ o1.frame = o.frame
  BY <1>1 DEF Ops
<1>5. x.op[c] = o1
  <2> HIDE DEF o1
  <2> QED
    BY <1>1, <1>3
<1>6. /\ y \in Pair /\ y.op = [x.op EXCEPT ![c] = ReleasedAs(x.op[c])]
      /\ y.s = [x.s EXCEPT !.buffered = x.s.buffered - Freed(x.op[c])]
  BY <1>2, ReleaseIs
<1>7. PICK q \in Seq(Creates) : x.s = [s EXCEPT !.chain = q]
  BY <1>3
<1>8. Freed(o1) = Freed(o)
  BY <1>4 DEF Freed
<1> HIDE DEF y
<1>9. /\ y.s \in Session /\ y.s.lanes = s.lanes /\ y.s.active = s.active
      /\ y.s.settling = s.settling /\ y.s.wire = s.wire /\ y.s.ended = s.ended
      /\ y.s.buffered = s.buffered - Freed(o) /\ y.s.dispatched = s.dispatched
  <2> DEFINE n == x.s.buffered - Freed(x.op[c])
  <2>1. x.s \in Session /\ x.s.buffered = s.buffered /\ n = s.buffered - Freed(o)
    BY <1>1, <1>2, <1>5, <1>7, <1>8, PairIs DEF Session
  <2> HIDE DEF n
  <2>2. y.s = [x.s EXCEPT !.buffered = n] /\ y.s \in Session
    BY <1>6, PairIs DEF n
  <2>3. /\ x.s.lanes = s.lanes /\ x.s.active = s.active /\ x.s.settling = s.settling
        /\ x.s.wire = s.wire /\ x.s.ended = s.ended /\ x.s.dispatched = s.dispatched
    BY <1>1, <1>7 DEF Session
  <2>4. /\ y.s.lanes = x.s.lanes /\ y.s.active = x.s.active /\ y.s.settling = x.s.settling
        /\ y.s.wire = x.s.wire /\ y.s.ended = x.s.ended /\ y.s.dispatched = x.s.dispatched
        /\ y.s.buffered = n
    BY <2>1, <2>2 DEF Session
  <2> QED
    BY <2>1, <2>2, <2>3, <2>4
<1> DEFINE r == ReleasedAs(o1)
<1>10. r \in Ops /\ [r EXCEPT !.sent = yes] = SentAs(o) /\ SentAs(o) \in Ops
  <2>1. r \in Ops
    <3> HIDE DEF o1
    <3> QED
      BY <1>4 DEF ReleasedAs, Ops
  <2> HIDE DEF o
  <2>2. SentAs(o) \in Ops
    BY <1>1 DEF SentAs, Ops
  <2>3. [r EXCEPT !.sent = yes] = SentAs(o)
    BY <1>1 DEF ReleasedAs, SentAs, Ops
  <2> QED
    BY <2>1, <2>2, <2>3
<1>11. z = [y EXCEPT !.op[c].sent = yes, !.s.dispatched[l] = c]
  BY DEF Send, x, y
<1> HIDE DEF yes, r, z, o1, l
<1>12. y.op[c] = r
  BY <1>1, <1>5, <1>6, PairIs DEF r
<1>13. [y.op EXCEPT ![c] = [y.op[c] EXCEPT !.sent = yes]] = [op EXCEPT ![c] = SentAs(o)]
  <2> DEFINE p == SentAs(o)
  <2>1. y.op = [[op EXCEPT ![c] = o1] EXCEPT ![c] = r]
    BY <1>3, <1>5, <1>6 DEF r
  <2> HIDE DEF p
  <2>2. [y.op EXCEPT ![c] = p] = [op EXCEPT ![c] = p]
    BY <1>1, <2>1
  <2> QED
    BY <1>10, <1>12, <2>2 DEF p
<1> DEFINE f == [op EXCEPT ![c] = SentAs(o)]
           t == [y.s EXCEPT !.dispatched = [s.dispatched EXCEPT ![l] = c]]
<1>14. z = [s |-> t, op |-> f]
  <2> DEFINE w == [y EXCEPT !.op[c].sent = yes]
  <2>1. w = [s |-> y.s, op |-> f]
    BY <1>6, <1>13 DEF Pair
  <2>2. z = [w EXCEPT !.s = [w.s EXCEPT !.dispatched = [w.s.dispatched EXCEPT ![l] = c]]]
    BY <1>11
  <2> HIDE DEF w, f
  <2>3. w.s = y.s
    BY <2>1
  <2>4. z = [w EXCEPT !.s = t]
    BY <1>9, <2>2, <2>3
  <2> HIDE DEF t
  <2> QED
    BY <2>1, <2>4
<1>15. t \in Session
  <2> DEFINE g == [s.dispatched EXCEPT ![l] = c]
  <2>1. g \in [Lanes -> Creates \cup {NoCreate}]
    BY <1>1 DEF Session
  <2> HIDE DEF g
  <2>2. [y.s EXCEPT !.dispatched = g] \in Session
    BY <1>9, <2>1 DEF Session
  <2> QED
    BY <2>2 DEF g
<1>16. /\ t.lanes = s.lanes /\ t.active = s.active
       /\ t.settling = s.settling /\ t.wire = s.wire /\ t.ended = s.ended
       /\ t.buffered = s.buffered - Freed(o) /\ t.dispatched = [s.dispatched EXCEPT ![l] = c]
  BY <1>9 DEF Session
<1>17. f \in [Creates -> Ops]
  BY <1>1, <1>10
<1> HIDE DEF t, f
<1>18. z \in Pair /\ z.s = t /\ z.op = f
  BY <1>14, <1>15, <1>17 DEF Pair
<1> QED
  BY <1>10, <1>16, <1>18 DEF f, z, l

LEMMA SentOp ==
    ASSUME NEW c \in Creates, NEW l, NEW o \in Ops, NEW u, NEW ran, NEW b,
           OpHeld(c, l, o, u, ran, b), o.at = "sending", o.ending = "none"
    PROVE  LET p == SentAs(o)
           IN  /\ OpHeld(c, l, p, "asked", ran, b) /\ Live(p) /\ Live(o) /\ ~p.frame
               /\ p.ending = "none" /\ p.settle = "none" /\ o.settle = "none"
<1> DEFINE p == SentAs(o)
<1>1. /\ p.at = "left" /\ p.admitted = o.admitted /\ p.sent = TRUE /\ p.started = o.started
      /\ p.response = o.response /\ p.frame = FALSE /\ p.lease = o.lease
      /\ p.ending = o.ending /\ p.settle = o.settle
  BY DEF Ops, SentAs
<1> HIDE DEF p
<1>2. o.admitted /\ o.settle = "none" /\ ~o.sent /\ l \in Lanes /\ b = <<>> /\ c \notin ran
  BY DEF OpHeld, PlaceHeld, BillHeld, AnswerHeld
<1>3. PlaceHeld(l, p) /\ BillHeld(c, p, ran, b)
  BY <1>1, <1>2 DEF PlaceHeld, BillHeld
<1>4. AnswerHeld(c, p, "asked", ran)
  BY <1>1, <1>2 DEF OpHeld, AnswerHeld
<1> QED
  BY <1>1, <1>2, <1>3, <1>4 DEF OpHeld, Live, p

LEMMA SendHeld ==
    ASSUME SessionInv, NEW c \in Creates, op[c].at = "sending", PreviousSettled(c), Sendable(c)
    PROVE  Held(script.lane, Send(c), [up EXCEPT ![c] = "asked"], executed, bill, stored)
<1> DEFINE lane == script.lane
           l == script.lane[c]
           o == op[c]
           p == SentAs(o)
           y == Send(c)
           v == [up EXCEPT ![c] = "asked"]
<1>1. /\ Now \in Pair /\ Now.s = s /\ Now.op = op /\ s \in Session /\ op \in [Creates -> Ops]
      /\ Core(lane, Now, up, executed, bill)
      /\ o \in Ops /\ OpHeld(c, l, o, up[c], executed, bill[c])
  BY NowIs
<1>2. ~s.ended /\ o.ending = "none"
  BY DEF Sendable
<1>3. LaneOf(c) = l /\ l \in Lanes
  <2>1. l \in Lanes
    BY <1>1 DEF OpHeld, PlaceHeld
  <2> QED
    BY <2>1, LaneIs
<1>4. /\ y \in Pair /\ y.op = [op EXCEPT ![c] = p] /\ p \in Ops
      /\ y.s.lanes = s.lanes /\ y.s.active = s.active
      /\ y.s.settling = s.settling /\ y.s.wire = s.wire /\ y.s.ended = s.ended
      /\ y.s.buffered = s.buffered - Freed(o)
      /\ y.s.dispatched = [s.dispatched EXCEPT ![l] = c]
  BY <1>3, SendIs
<1>5. /\ OpHeld(c, l, p, "asked", executed, bill[c]) /\ Live(p) /\ Live(o) /\ ~p.frame
      /\ p.ending = "none" /\ p.settle = "none" /\ o.settle = "none"
  BY <1>1, <1>2, SentOp
<1>6. up \in [Creates -> {"idle", "asked", "running", "finished"}]
  BY DEF SessionInv, OutsideHeld
<1>7. SameBut(c, up, executed, bill, v, executed, bill) /\ v[c] = "asked"
  BY <1>6 DEF SameBut
<1> HIDE DEF y, p, v, o, l, lane
<1>8. y.op[c] = p /\ \A d \in Creates \ {c} : y.op[d] = op[d]
  BY <1>1, <1>4
<1>9. ASSUME NEW e \in Creates, e # c, lane[e] = l PROVE ~(op[e].settle = "writing")
  <2> SUFFICES ASSUME op[e].settle = "writing" PROVE FALSE
    OBVIOUS
  <2>1. Behind(lane, Now, e, c)
    BY <1>1, <1>2 DEF SessionInv, Held, Flow, lane
  <2>2. op[c].prev = e
    BY <2>1, <1>1, <1>5, <1>9 DEF Behind, o, l, lane
  <2> QED
    BY <2>2, SessionAssumption DEF PreviousSettled
<1>10. ASSUME NEW d \in Creates, y.op[d].sent, y.op[d].settle # "done" PROVE y.s.dispatched[lane[d]] = d
  <2>1. s.dispatched \in [Lanes -> Creates \cup {NoCreate}]
    BY <1>1 DEF Session
  <2>2. CASE d = c
    BY <1>3, <1>4, <2>1, <2>2 DEF l, lane
  <2>3. CASE d # c
    <3>1. op[d].sent /\ op[d].settle # "done" /\ s.dispatched[lane[d]] = d
      BY <1>1, <1>8, <1>10, <2>3 DEF Core, LanesHeld
    <3>2. lane[d] # l
      <4> SUFFICES ASSUME lane[d] = l PROVE FALSE
        OBVIOUS
      <4>1. op[d].settle # "writing"
        BY <1>9, <2>3
      <4>2. op[d].admitted
        BY <1>1, <3>1 DEF Core, OpHeld, PlaceHeld
      <4>3. Live(op[d])
        BY <3>1, <4>1, <4>2, NowIs DEF Live, Ops
      <4>4. s.active[lane[d]] = d /\ s.active[lane[c]] = c
        BY <1>1, <1>5, <4>3 DEF Core, LanesHeld, o
      <4> QED
        BY <2>3, <4>4 DEF l, lane
    <3> QED
      BY <1>4, <2>1, <3>1, <3>2
  <2> QED
    BY <2>2, <2>3
<1>11. LanesHeld(lane, y)
  <2>1. lane[c] \in Lanes /\ Live(Now.op[c]) /\ y.s.active = Now.s.active /\ y.op = [Now.op EXCEPT ![c] = p]
    BY <1>1, <1>3, <1>4, <1>5 DEF o, l, lane
  <2>2. Expected(lane, y)
    BY <1>10 DEF Expected
  <2>3. y \in Pair /\ ActiveStep(lane, Now, y, c, p)
    BY <1>4, <1>5, <2>1 DEF ActiveStep
  <2> QED
    BY <1>1, <2>1, <2>2, <2>3, StepLanes
<1>12. SettlingHeld(y)
  <2>1. \A i \in DOMAIN s.settling : s.settling[i] \in Creates
    BY <1>1 DEF Session
  <2> QED
    BY <1>1, <1>4, <1>5, <1>8, <2>1 DEF Core, SettlingHeld, o
<1>13. Busy(y) <= ActiveLimit
  <2>1. Busy(y) = Busy(Now)
    BY <1>1, <1>4 DEF Busy, Actives
  <2> QED
    BY <1>1, <2>1 DEF Core, BytesCounted
<1>14. WireHeld(y) /\ Kept(y, stored)
  BY <1>1, <1>2, <1>4 DEF SessionInv, Held, Core, WireHeld, Kept
<1>15. Core(lane, y, v, executed, bill)
  <2>1. y.s.buffered = Now.s.buffered - (IF Now.op[c].frame /\ ~p.frame THEN 1 ELSE 0)
    BY <1>1, <1>4, <1>5 DEF Freed, o
  <2>2. Now.op[c].at # "queued" /\ (p.frame => Now.op[c].frame)
    BY <1>1, <1>5
  <2>3. OpHeld(c, lane[c], p, v[c], executed, bill[c])
    BY <1>5, <1>7 DEF l, lane
  <2>4. y \in Pair /\ p \in Ops /\ y.op = [Now.op EXCEPT ![c] = p] /\ y.s.lanes = Now.s.lanes
    BY <1>1, <1>4
  <2> QED
    BY <1>1, <1>7, <1>11, <1>12, <1>13, <1>14, <2>1, <2>2, <2>3, <2>4, StepCore
<1>16. Flow(lane, y, v, Creates)
  <2>1. Flow(lane, Now, up, Creates) /\ Now.op \in [Creates -> Ops] /\ y.op = [Now.op EXCEPT ![c] = p]
    BY <1>1, <1>2, <1>4 DEF SessionInv, Held, lane
  <2>2. p.settle = "writing" <=> Now.op[c].settle = "writing"
    BY <1>1, <1>5 DEF o
  <2>3. \A d \in Creates \ {c} : v[d] = up[d]
    BY <1>7 DEF SameBut
  <2>4. \A e \in Creates : Behind(lane, y, e, c)
    BY <1>8, <1>9 DEF Behind, l, lane
  <2> QED
    BY <1>5, <2>1, <2>2, <2>3, <2>4, OneOpFlow
<1> QED
  BY <1>2, <1>4, <1>14, <1>15, <1>16 DEF Held, y, v, lane

LEMMA SendOperationKeeps == \A c \in Creates : SessionInv /\ SendOperation(c) => SessionInv'
<1> SUFFICES ASSUME SessionInv, NEW c \in Creates, SendOperation(c) PROVE SessionInv'
  OBVIOUS
<1> DEFINE o == op[c]
           await == [Now EXCEPT !.op[c].at = "await"]
           done(outcome) == FinishOp(PlacedAs(o, "await", TRUE), outcome)
<1>1. /\ o.at = "sending" /\ PreviousSettled(c) /\ UNCHANGED <<executed, late, bill, stored, told>>
      /\ \/ ~Sendable(c) /\ Becomes(Finish(await, c, "closed")) /\ UNCHANGED up
         \/ Sendable(c) /\ Becomes(Send(c)) /\ up' = [up EXCEPT ![c] = "asked"]
         \/ Sendable(c) /\ (\E x \in Notice(Finish(await, c, "error")) : Becomes(x)) /\ UNCHANGED up
  BY DEF SendOperation, Send
<1>2. ASSUME NEW outcome \in {"error", "timeout", "closed"}
      PROVE  Held(script.lane, Finish(await, c, outcome), up, executed, bill, stored)
  <2> DEFINE p == done(outcome)
             r == PlacedAs(o, "await", TRUE)
             y == Finish(await, c, outcome)
  <2>1. o.admitted = TRUE
    BY <1>1, ShiftedFits
  <2>2. await = [s |-> s, op |-> [op EXCEPT ![c] = PlacedAs(o, "await", o.admitted)]]
    BY PlacedIs
  <2>3. await = With(c, s, r)
    BY <2>1, <2>2 DEF With
  <2>4. y = With(c, s, p)
    <3> HIDE DEF r, await
    <3>1. Finish(With(c, s, r), c, outcome) = With(c, s, FinishOp(r, outcome))
      BY FinishedIs
    <3> QED
      BY <2>3, <3>1 DEF r
  <2>5. ShiftedWell(c, p) /\ (~s.ended => Onward(o, p) /\ o.settle = "none" /\ p.at = "await")
    BY <1>1, FinishedFits
  <2> HIDE DEF p, y
  <2>6. /\ s = [s EXCEPT !.chain = s.chain, !.upstream = s.upstream]
        /\ s.chain \in Seq(Creates) /\ s.upstream \in {"none", "connecting", "open", "failed"}
    BY ChainIs
  <2>7. Moved(y, c, p)
    BY <2>4, <2>5, <2>6, MovedIs DEF With, ShiftedWell
  <2>8. ~s.ended => Orderly(c, p, y)
    BY <1>1, <2>5, <2>7, OnwardOrderly
  <2>9. Held(script.lane, y, up, executed, bill, stored)
    BY <2>5, <2>7, <2>8, MovedHeld DEF ShiftedWell
  <2> QED
    BY <2>9 DEF y
<1> HIDE DEF await
<1>3. CASE Becomes(Finish(await, c, "closed")) /\ UNCHANGED up
  <2>1. Held(script.lane, Finish(await, c, "closed"), up, executed, bill, stored)
    BY <1>2
  <2> QED
    BY <1>1, <1>3, <2>1, BecameInside
<1>4. CASE Sendable(c) /\ Becomes(Send(c)) /\ up' = [up EXCEPT ![c] = "asked"]
  <2>1. Held(script.lane, Send(c), [up EXCEPT ![c] = "asked"], executed, bill, stored)
    BY <1>1, <1>4, SendHeld
  <2>2. Held(script.lane, Send(c), up', executed', bill', stored')
    BY <1>1, <1>4, <2>1
  <2>3. OutsideHeld'
    BY <1>1, <1>4 DEF SessionInv, OutsideHeld
  <2> QED
    BY <1>4, <2>2, <2>3, Became
<1>5. CASE (\E x \in Notice(Finish(await, c, "error")) : Becomes(x)) /\ UNCHANGED up
  <2>1. PICK x \in Notice(Finish(await, c, "error")) : Becomes(x)
    BY <1>5
  <2>2. Held(script.lane, Finish(await, c, "error"), up, executed, bill, stored)
    BY <1>2
  <2>3. Held(script.lane, x, up, executed, bill, stored)
    BY <2>2, NoticeHeld
  <2> QED
    BY <1>1, <1>5, <2>1, <2>3, BecameInside
<1> QED
  BY <1>1, <1>3, <1>4, <1>5

-----------------------------------------------------------------------------
(* The end of a dispatch that was never admitted.                          *)
VacatedAs(x, c) == [x.s.active EXCEPT ![LaneOf(c)] = IF x.s.active[LaneOf(c)] = c THEN NoCreate ELSE @]
LEMMA VacateIs ==
    ASSUME NEW x \in Pair, NEW c \in Creates, LaneOf(c) \in Lanes
    PROVE  /\ Vacate(x, c) \in Pair /\ Vacate(x, c).op = x.op
           /\ Vacate(x, c).s = [x.s EXCEPT !.active = VacatedAs(x, c)]
           /\ VacatedAs(x, c) \in [Lanes -> Creates \cup {NoCreate}]
<1> DEFINE a == VacatedAs(x, c)
           l == LaneOf(c)
<1>1. x.s \in Session /\ x.op \in [Creates -> Ops] /\ x = [s |-> x.s, op |-> x.op]
  BY PairIs
<1>2. x.s.active \in [Lanes -> Creates \cup {NoCreate}]
  BY <1>1 DEF Session
<1>3. a \in [Lanes -> Creates \cup {NoCreate}]
  BY <1>2 DEF VacatedAs
<1>4. Vacate(x, c) = [s |-> [x.s EXCEPT !.active = a], op |-> x.op]
  <2>1. Vacate(x, c) = [x EXCEPT !.s = [x.s EXCEPT !.active = a]]
    BY DEF Vacate, VacatedAs
  <2> HIDE DEF a
  <2> QED
    BY <2>1 DEF Pair
<1> HIDE DEF a
<1>5. [x.s EXCEPT !.active = a] \in Session
  BY <1>1, <1>3 DEF Session
<1> QED
  BY <1>1, <1>3, <1>4, <1>5 DEF Pair, a

DroppedAs(o) == [o EXCEPT !.frame = FALSE, !.lease = FALSE, !.at = "left"]
Drop(x, c) == Vacate(Leave(Retire(x, c), c), c)
Dropped(x, c, y) ==
    /\ y \in Pair /\ y.op = [x.op EXCEPT ![c] = DroppedAs(x.op[c])] /\ DroppedAs(x.op[c]) \in Ops
    /\ y.s.lanes = x.s.lanes /\ y.s.settling = x.s.settling /\ y.s.wire = x.s.wire
    /\ y.s.ended = x.s.ended /\ y.s.dispatched = x.s.dispatched
    /\ y.s.buffered = x.s.buffered - Freed(x.op[c])
    /\ y.s.active = VacatedAs(x, c)
LEMMA DropIs ==
    ASSUME NEW x \in Pair, NEW c \in Creates, LaneOf(c) \in Lanes
    PROVE  Dropped(x, c, Drop(x, c))
<1> DEFINE o == x.op[c]
           x1 == Retire(x, c)
           x2 == Leave(x1, c)
           y == Drop(x, c)
           r == RetiredAs(o)
           n == x.s.buffered - Freed(o)
<1>1. x.s \in Session /\ x.op \in [Creates -> Ops] /\ o \in Ops
  BY PairIs
<1>2. x1 \in Pair /\ x1.op = [x.op EXCEPT ![c] = r] /\ x1.s = [x.s EXCEPT !.buffered = n]
  BY RetireIs
<1>3. r \in Ops /\ [r EXCEPT !.at = "left"] = DroppedAs(o) /\ DroppedAs(o) \in Ops
  <2> HIDE DEF o
  <2> QED
    BY <1>1 DEF RetiredAs, DroppedAs, Ops
<1> HIDE DEF x1, r, n
<1>4. x1.op[c] = r
  BY <1>1, <1>2
<1>5. /\ x2 \in Pair /\ x2.op = [x1.op EXCEPT ![c] = [x1.op[c] EXCEPT !.at = "left"]]
      /\ \E q \in Seq(Creates) : x2.s = [x1.s EXCEPT !.chain = q]
  BY <1>2, LeaveIs
<1> HIDE DEF x2
<1>6. x2.op = [x.op EXCEPT ![c] = DroppedAs(o)]
  <2> DEFINE p == DroppedAs(o)
  <2>1. x2.op = [[x.op EXCEPT ![c] = r] EXCEPT ![c] = p]
    BY <1>2, <1>3, <1>4, <1>5
  <2> HIDE DEF p
  <2>2. x2.op = [x.op EXCEPT ![c] = p]
    BY <1>1, <2>1
  <2> QED
    BY <2>2 DEF p
<1>7. /\ x1.s \in Session /\ x1.s.lanes = x.s.lanes /\ x1.s.settling = x.s.settling /\ x1.s.wire = x.s.wire
      /\ x1.s.ended = x.s.ended /\ x1.s.dispatched = x.s.dispatched
      /\ x1.s.buffered = n /\ x1.s.active = x.s.active
  <2>1. x1.s \in Session
    BY <1>2, PairIs
  <2> QED
    BY <1>1, <1>2, <2>1 DEF Session
<1>8. /\ x2.s \in Session /\ x2.s.lanes = x1.s.lanes /\ x2.s.settling = x1.s.settling /\ x2.s.wire = x1.s.wire
      /\ x2.s.ended = x1.s.ended /\ x2.s.dispatched = x1.s.dispatched
      /\ x2.s.buffered = x1.s.buffered /\ x2.s.active = x1.s.active
  <2>1. x2.s \in Session
    BY <1>5, PairIs
  <2> QED
    BY <1>5, <1>7, <2>1 DEF Session
<1>9. y = Vacate(x2, c)
  BY DEF Drop, x1, x2
<1>10. y \in Pair /\ y.op = x2.op /\ y.s = [x2.s EXCEPT !.active = VacatedAs(x2, c)]
  <2>1. x2 \in Pair
    BY <1>5
  <2>2. /\ Vacate(x2, c) \in Pair /\ Vacate(x2, c).op = x2.op
        /\ Vacate(x2, c).s = [x2.s EXCEPT !.active = VacatedAs(x2, c)]
    BY <2>1, VacateIs
  <2> HIDE DEF y
  <2> QED
    BY <2>2, <1>9
<1>11. VacatedAs(x2, c) = VacatedAs(x, c)
  BY <1>7, <1>8 DEF VacatedAs
<1> DEFINE a == VacatedAs(x, c)
<1> HIDE DEF y, a
<1>12. y.s = [x2.s EXCEPT !.active = a]
  BY <1>10, <1>11 DEF a
<1>13. /\ y.s.lanes = x2.s.lanes /\ y.s.settling = x2.s.settling /\ y.s.wire = x2.s.wire
       /\ y.s.ended = x2.s.ended /\ y.s.dispatched = x2.s.dispatched
       /\ y.s.buffered = x2.s.buffered /\ y.s.active = a
  BY <1>8, <1>12 DEF Session
<1> QED
  BY <1>3, <1>6, <1>7, <1>8, <1>10, <1>13 DEF Dropped, y, a, n

LEMMA DroppedOp ==
    ASSUME NEW c \in Creates, NEW l, NEW o \in Ops, NEW u, NEW ran, NEW b, NEW paid,
           OpHeld(c, l, o, u, ran, b), o.at \in {"waiting", "admitting"}, paid \in {b, <<"free">>}
    PROVE  LET p == DroppedAs(o)
           IN  /\ OpHeld(c, l, p, u, ran, paid) /\ ~Live(p) /\ ~p.frame /\ p.at = "left"
               /\ p.settle = "none" /\ o.settle = "none" /\ ~p.sent
<1> DEFINE p == DroppedAs(o)
<1>1. /\ p.at = "left" /\ p.admitted = o.admitted /\ p.sent = o.sent /\ p.started = o.started
      /\ p.response = o.response /\ p.frame = FALSE /\ p.lease = FALSE
      /\ p.ending = o.ending /\ p.settle = o.settle
  BY DEF Ops, DroppedAs
<1> HIDE DEF p
<1>2. ~o.admitted /\ o.settle = "none" /\ ~o.sent /\ l \in Lanes /\ b = <<>> /\ c \notin ran
  BY DEF OpHeld, PlaceHeld, BillHeld, AnswerHeld
<1>3. PlaceHeld(l, p)
  BY <1>1, <1>2 DEF PlaceHeld
<1>4. BillHeld(c, p, ran, paid)
  BY <1>1, <1>2 DEF BillHeld
<1>5. AnswerHeld(c, p, u, ran)
  BY <1>1, <1>2 DEF OpHeld, AnswerHeld
<1> QED
  BY <1>1, <1>2, <1>3, <1>4, <1>5 DEF OpHeld, Live, p

LEMMA DropHeld ==
    ASSUME NEW x, NEW u, NEW ran, NEW b, NEW paid, NEW st, NEW c \in Creates,
           Core(script.lane, x, u, ran, b), LaneOf(c) = script.lane[c], LaneOf(c) \in Lanes,
           x.op[c].at \in {"waiting", "admitting"},
           SameBut(c, u, ran, b, u, ran, paid), paid[c] \in {b[c], <<"free">>},
           ~x.s.ended => Flow(script.lane, x, u, Creates \ {c}) /\ Kept(x, st),
           x.s.ended => AllEnded(x)
    PROVE  Held(script.lane, Drop(x, c), u, ran, paid, st)
<1> DEFINE lane == script.lane
           y == Drop(x, c)
           o == x.op[c]
           p == DroppedAs(o)
<1>1. x \in Pair /\ x.s \in Session /\ x.op \in [Creates -> Ops] /\ o \in Ops
      /\ OpHeld(c, lane[c], o, u[c], ran, b[c])
  BY PairIs DEF Core
<1>2. /\ y \in Pair /\ y.op = [x.op EXCEPT ![c] = p] /\ p \in Ops
      /\ y.s.lanes = x.s.lanes /\ y.s.settling = x.s.settling /\ y.s.wire = x.s.wire
      /\ y.s.ended = x.s.ended /\ y.s.dispatched = x.s.dispatched
      /\ y.s.buffered = x.s.buffered - Freed(o) /\ y.s.active = VacatedAs(x, c)
  <2>1. Dropped(x, c, y)
    BY <1>1, DropIs
  <2> QED
    BY <2>1 DEF Dropped
<1>3. /\ OpHeld(c, lane[c], p, u[c], ran, paid[c]) /\ ~Live(p) /\ ~p.frame /\ p.at = "left"
      /\ p.settle = "none" /\ o.settle = "none" /\ ~p.sent
  <2> DEFINE l == lane[c]
             k == paid[c]
             h == b[c]
  <2>1. k \in {h, <<"free">>} /\ OpHeld(c, l, o, u[c], ran, h)
    BY <1>1
  <2> HIDE DEF o, l, k, h
  <2>2. LET r == DroppedAs(o)
        IN  /\ OpHeld(c, l, r, u[c], ran, k) /\ ~Live(r) /\ ~r.frame /\ r.at = "left"
            /\ r.settle = "none" /\ o.settle = "none" /\ ~r.sent
    BY <1>1, <2>1, DroppedOp DEF o
  <2> QED
    BY <2>2 DEF l, k
<1> HIDE DEF y, p, lane
<1>4. y.op[c] = p /\ \A d \in Creates \ {c} : y.op[d] = x.op[d]
  BY <1>1, <1>2
<1>5. LanesHeld(lane, y)
  <2>1. ActiveStep(lane, x, y, c, p)
    BY <1>2, <1>3 DEF ActiveStep, VacatedAs, lane
  <2>2. Expected(lane, y)
    BY <1>2, <1>3, <1>4 DEF Expected, Core, LanesHeld, lane
  <2> QED
    BY <1>2, <2>1, <2>2, StepLanes DEF lane
<1>6. SettlingHeld(y)
  <2>1. \A i \in DOMAIN x.s.settling : x.s.settling[i] \in Creates
    BY <1>1 DEF Session
  <2> QED
    BY <1>2, <1>3, <1>4, <2>1 DEF Core, SettlingHeld
<1>7. Busy(y) <= ActiveLimit
  <2>1. x.s.active \in [Lanes -> Creates \cup {NoCreate}]
    BY <1>1 DEF Session
  <2>2. Actives(y) \subseteq Actives(x)
    BY <1>2, <2>1 DEF Actives, VacatedAs
  <2>3. /\ IsFiniteSet(Actives(x)) /\ Cardinality(Actives(x)) \in Nat /\ Len(x.s.settling) \in Nat
        /\ Busy(x) = Cardinality(Actives(x)) + Len(x.s.settling)
        /\ Busy(y) = Cardinality(Actives(y)) + Len(x.s.settling) /\ Cardinality(Actives(y)) \in Nat
    BY <1>1, <1>2, BusyIs
  <2>4. Cardinality(Actives(y)) <= Cardinality(Actives(x))
    BY <2>2, <2>3, FS_Subset
  <2>5. Busy(x) <= ActiveLimit /\ ActiveLimit \in Nat
    BY SessionAssumption DEF Core, BytesCounted
  <2> QED
    BY <2>3, <2>4, <2>5
<1>8. WireHeld(y)
  BY <1>2 DEF Core, WireHeld
<1>9. Core(lane, y, u, ran, paid)
  <2>1. y.s.buffered = x.s.buffered - (IF x.op[c].frame /\ ~p.frame THEN 1 ELSE 0)
    BY <1>2, <1>3 DEF Freed
  <2>2. x.op[c].at # "queued" /\ (p.frame => x.op[c].frame) /\ Core(lane, x, u, ran, b)
    BY <1>3 DEF lane
  <2> QED
    BY <1>2, <1>3, <1>5, <1>6, <1>7, <1>8, <2>1, <2>2, StepCore
<1>10. ASSUME ~x.s.ended PROVE Flow(lane, y, u, Creates) /\ Kept(y, st)
  <2>1. Flow(lane, x, u, Creates \ {c}) /\ Kept(x, st)
    BY <1>10 DEF lane
  <2>2. \A d \in Creates : /\ y.op[d].ending # "none" => y.op[d].at \in {"await", "left"}
                           /\ y.op[d].sent /\ y.op[d].ending # "none" => u[d] = "finished"
    BY <1>3, <1>4, <2>1 DEF Flow
  <2>3. ASSUME NEW e \in Creates, NEW d \in Creates PROVE Behind(lane, y, e, d)
    <3>1. CASE e = c \/ d = c
      BY <1>3, <1>4, <3>1 DEF Behind
    <3>2. CASE e # c /\ d # c
      <4>1. Behind(lane, x, e, d)
        BY <2>1, <3>2 DEF Flow
      <4> QED
        BY <1>4, <3>2, <4>1 DEF Behind
    <3> QED
      BY <3>1, <3>2
  <2> QED
    BY <1>2, <2>1, <2>2, <2>3 DEF Flow, Kept
<1>11. ASSUME x.s.ended PROVE AllEnded(y)
  BY <1>3, <1>4, <1>11 DEF AllEnded
<1> QED
  BY <1>2, <1>9, <1>10, <1>11 DEF Held, lane, y

LEMMA DispatchKeeps == \A c \in Creates : SessionInv /\ Dispatch(c) => SessionInv'
<1> SUFFICES ASSUME SessionInv, NEW c \in Creates, Dispatch(c) PROVE SessionInv'
  OBVIOUS
<1> DEFINE o == op[c]
           y == [Now EXCEPT !.op[c].at = "admitting"]
<1>1. /\ o.at = "waiting" /\ UNCHANGED <<up, executed, late, bill, stored, told>>
      /\ \/ (s.ended \/ o.ending # "none") /\ Becomes(Drop(Now, c))
         \/ ~s.ended /\ o.ending = "none" /\ Becomes(y)
  BY DEF Dispatch, Drop
<1>2. /\ Now.s = s /\ Now.op = op /\ op \in [Creates -> Ops]
      /\ Core(script.lane, Now, up, executed, bill)
      /\ o \in Ops /\ OpHeld(c, script.lane[c], o, up[c], executed, bill[c])
  BY NowIs
<1>3. CASE (s.ended \/ o.ending # "none") /\ Becomes(Drop(Now, c))
  <2>1. s.ended
    BY <1>1, <1>3, RunningHas
  <2>2. LaneOf(c) = script.lane[c] /\ LaneOf(c) \in Lanes
    BY <1>1, <1>2, LaneIs DEF OpHeld, PlaceHeld
  <2>3. SameBut(c, up, executed, bill, up, executed, bill)
    BY DEF SameBut
  <2>4. AllEnded(Now)
    BY <1>2, <2>1 DEF SessionInv, Held
  <2>5. Held(script.lane, Drop(Now, c), up, executed, bill, stored)
    BY <1>1, <1>2, <2>1, <2>2, <2>3, <2>4, DropHeld
  <2> QED
    BY <1>1, <1>3, <2>5, BecameInside
<1>4. CASE ~s.ended /\ o.ending = "none" /\ Becomes(y)
  <2> DEFINE p == PlacedAs(o, "admitting", FALSE)
  <2>1. o.admitted = FALSE /\ o.settle = "none"
    BY <1>1, <1>2 DEF OpHeld, PlaceHeld, Ops
  <2>2. y = [s |-> s, op |-> [op EXCEPT ![c] = PlacedAs(o, "admitting", o.admitted)]]
    BY PlacedIs
  <2>3. y = [s |-> s, op |-> [op EXCEPT ![c] = p]]
    BY <2>1, <2>2
  <2>4. OnwardWell(o)
    BY <1>2, <2>1, OnwardOps
  <2>5. p = PlacedAs(o, "admitting", "admitting" # "admitting")
    OBVIOUS
  <2>6. p \in Ops /\ Onward(o, p) /\ p.at = "admitting" /\ p.settle = "none" /\ p.ending = "none"
    BY <1>4, <2>4, <2>5 DEF OnwardWell
  <2> HIDE DEF p, y
  <2>7. /\ s = [s EXCEPT !.chain = s.chain, !.upstream = s.upstream]
        /\ s.chain \in Seq(Creates) /\ s.upstream \in {"none", "connecting", "open", "failed"}
    BY ChainIs
  <2>8. Moved(y, c, p)
    BY <2>3, <2>6, <2>7, MovedIs
  <2>9. Fit(c, p)
    BY <1>1, <2>1, <2>6, OnwardFits
  <2>10. Orderly(c, p, y)
    BY <1>1, <1>4, <2>1, <2>6, <2>8, OnwardOrderly
  <2>11. Held(script.lane, y, up, executed, bill, stored)
    BY <1>4, <2>8, <2>9, <2>10, MovedHeld
  <2> QED
    BY <1>1, <1>4, <2>11, BecameInside
<1> QED
  BY <1>1, <1>3, <1>4

LEMMA ClosedSession ==
    ASSUME NEW x \in Pair, ~x.s.ended
    PROVE  /\ Close(x).s.ended = TRUE /\ Close(x).s.active = x.s.active
           /\ Close(x).s.settling = x.s.settling /\ Close(x).s.dispatched = x.s.dispatched
<1> DEFINE q == [l \in Lanes |-> <<>>]
           n == x.s.buffered - Cardinality(Waiting(x))
           t == [x.s EXCEPT !.ended = TRUE, !.lanes = q, !.buffered = n]
           f == [c \in Creates |-> ClosedOp(x, c)]
           y == Close(x)
<1>1. y = [s |-> t, op |-> f]
  BY CloseIs
<1>2. x.s \in Session
  BY PairIs
<1> HIDE DEF q, n
<1>3. t.ended = TRUE /\ t.active = x.s.active /\ t.settling = x.s.settling /\ t.dispatched = x.s.dispatched
  BY <1>2 DEF Session
<1> HIDE DEF t, f, y
<1>4. y.s = t
  BY <1>1
<1> QED
  BY <1>3, <1>4 DEF y

LEMMA AdmitFailsKeeps == \A c \in Creates : SessionInv /\ AdmitFails(c) => SessionInv'
<1> SUFFICES ASSUME SessionInv, NEW c \in Creates, AdmitFails(c) PROVE SessionInv'
  OBVIOUS
<1> DEFINE lane == script.lane
           o == op[c]
           p == FinishOp(o, "error")
           x == Finish(Now, c, "error")
<1>1. o.at = "admitting" /\ UNCHANGED <<up, executed, late, stored, told>>
  BY DEF AdmitFails
<1>2. PICK accounted \in BOOLEAN : bill' = [bill EXCEPT ![c] = IF accounted THEN Append(@, "free") ELSE @]
  BY DEF AdmitFails
<1>3. PICK y \in Notice(x) : Becomes(Discard(y, c))
  BY DEF AdmitFails
<1>4. /\ Now \in Pair /\ Now.s = s /\ Now.op = op /\ op \in [Creates -> Ops]
      /\ Core(lane, Now, up, executed, bill)
      /\ o \in Ops /\ OpHeld(c, lane[c], o, up[c], executed, bill[c])
  BY NowIs
<1>5. Live(o) /\ ~o.sent /\ ~o.admitted /\ o.settle = "none" /\ bill[c] = <<>>
  BY <1>1, <1>4 DEF OpHeld, PlaceHeld, BillHeld, Live
<1>6. LaneOf(c) = lane[c] /\ LaneOf(c) \in Lanes
  BY <1>1, <1>4, LaneIs DEF OpHeld, PlaceHeld
<1>7. /\ bill' \in [Creates -> Seq({"free", "billed"})] /\ bill'[c] \in {bill[c], <<"free">>}
      /\ \A d \in Creates \ {c} : bill'[d] = bill[d]
  <2>1. bill \in [Creates -> Seq({"free", "billed"})]
    BY DEF SessionInv, OutsideHeld
  <2> DEFINE w == IF accounted THEN Append(bill[c], "free") ELSE bill[c]
  <2>2. w \in {bill[c], <<"free">>} /\ w \in Seq({"free", "billed"})
    <3>1. Append(<<>>, "free") = <<"free">> /\ <<"free">> \in Seq({"free", "billed"})
          /\ bill[c] \in Seq({"free", "billed"})
      BY <2>1
    <3>2. w = <<"free">> \/ w = bill[c]
      BY <1>5, <3>1
    <3> HIDE DEF w
    <3> QED
      BY <3>1, <3>2
  <2>3. bill' = [bill EXCEPT ![c] = w]
    BY <1>2
  <2> HIDE DEF w
  <2> QED
    BY <2>1, <2>2, <2>3
<1>8. x = [s |-> s, op |-> [op EXCEPT ![c] = p]] /\ x \in Pair /\ p \in Ops
  BY <1>4, FinishIs
<1>9. /\ OpHeld(c, lane[c], p, up[c], executed, bill[c]) /\ SameStanding(o, p)
  <2> HIDE DEF o
  <2> QED
    BY <1>4, <1>5, FinishOpHeld
<1>10. p.at = o.at /\ p.admitted = o.admitted /\ p.sent = o.sent
  <2> DEFINE a == IF o.ending = "none" THEN "error" ELSE o.ending
  <2>1. p = [o EXCEPT !.ending = a, !.settle = "none"]
    BY <1>5 DEF FinishOp
  <2> HIDE DEF a, o, p
  <2> QED
    BY <1>4, <2>1 DEF Ops
<1> HIDE DEF p, x
<1>11. x.s = s /\ x.op = [op EXCEPT ![c] = p] /\ x.op[c] = p /\ \A d \in Creates \ {c} : x.op[d] = op[d]
  BY <1>4, <1>8
<1>12. SameBut(c, up, executed, bill, up, executed, bill) /\ SameBut(c, up, executed, bill, up, executed, bill')
  BY <1>7 DEF SameBut
<1>13. Core(lane, x, up, executed, bill)
  <2>1. SameLanes(Now, x) /\ WireHeld(x) /\ x.op = [Now.op EXCEPT ![c] = p] /\ SameStanding(Now.op[c], p)
    BY <1>4, <1>9, <1>11 DEF SameLanes, Core, WireHeld
  <2> QED
    BY <1>4, <1>8, <1>9, <1>12, <2>1, OneOpCore
<1>14. x.s.ended => AllEnded(x)
  BY <1>4, <1>5, <1>10, <1>11 DEF SessionInv, Held, AllEnded
<1>15. ~x.s.ended => Flow(lane, x, up, Creates \ {c}) /\ Kept(x, stored)
  <2> SUFFICES ASSUME ~x.s.ended PROVE Flow(lane, x, up, Creates \ {c}) /\ Kept(x, stored)
    OBVIOUS
  <2>1. Flow(lane, Now, up, Creates) /\ Kept(Now, stored)
    BY <1>4, <1>11 DEF SessionInv, Held
  <2>2. \A e, d \in Creates \ {c} : Behind(lane, x, e, d)
    <3> TAKE e, d \in Creates \ {c}
    <3>1. Behind(lane, Now, e, d)
      BY <2>1 DEF Flow
    <3> QED
      BY <1>4, <1>11, <3>1 DEF Behind
  <2> QED
    BY <1>4, <1>11, <2>1, <2>2 DEF Flow, Kept
<1>16. Held(lane, Drop(y, c), up, executed, bill', stored)
  <2>1. CASE y = x
    <3>1. x.op[c].at \in {"waiting", "admitting"}
      BY <1>1, <1>10, <1>11
    <3> QED
      BY <1>6, <1>7, <1>12, <1>13, <1>14, <1>15, <2>1, <3>1, DropHeld
  <2>2. CASE y = Close(x) /\ y # x
    <3>1. ~x.s.ended
      BY <2>2 DEF Close
    <3>2. Held(lane, y, up, executed, bill, stored)
      BY <1>13, <1>14, <2>2, CloseHeld
    <3>3. y.s.ended
      BY <1>8, <2>2, <3>1, ClosedSession
    <3>4. y.op[c].at = "admitting"
      <4>1. y.op[c] = ClosedOp(x, c)
        BY <2>2, <3>1, CloseOpIs
      <4>2. c \notin Waiting(x)
        <5>1. x.op[c].at # "queued"
          BY <1>1, <1>10, <1>11
        <5>2. c \in Waiting(x) => x.op[c].at = "queued"
          BY <1>13, WaitingAre
        <5> QED
          BY <5>1, <5>2
      <4>3. ClosedOp(x, c) = p \/ ClosedOp(x, c) = FinishOp(p, "closed")
        BY <1>11, <4>2 DEF ClosedOp
      <4>4. FinishOp(p, "closed").at = p.at
        <5> DEFINE a == IF p.ending = "none" THEN "closed" ELSE p.ending
                   w == IF p.admitted THEN "publishing" ELSE "none"
        <5>1. FinishOp(p, "closed") = p \/ FinishOp(p, "closed") = [p EXCEPT !.ending = a, !.settle = w]
          BY DEF FinishOp
        <5> HIDE DEF a, w
        <5> QED
          BY <1>8, <5>1 DEF Ops
      <4> QED
        BY <1>1, <1>10, <4>1, <4>3, <4>4
    <3>5. Core(lane, y, up, executed, bill) /\ AllEnded(y)
      BY <3>2, <3>3 DEF Held
    <3> QED
      BY <1>6, <1>7, <1>12, <3>3, <3>4, <3>5, DropHeld
  <2> QED
    BY <1>3, <2>1, <2>2 DEF Notice
<1>17. Discard(y, c) = Schedule(Drop(y, c))
  BY DEF Discard, Drop
<1>18. Held(lane, Discard(y, c), up, executed, bill', stored)
  BY <1>16, <1>17, ScheduleHeld
<1>19. Held(script.lane, Discard(y, c), up', executed', bill', stored')
  BY <1>1, <1>18
<1>20. OutsideHeld'
  BY <1>1, <1>7 DEF SessionInv, OutsideHeld
<1> QED
  BY <1>3, <1>19, <1>20, Became

-----------------------------------------------------------------------------
(* Sequences that lose one element.                                        *)
LEMMA OneMore ==
    ASSUME NEW i \in Nat, NEW n \in Nat, i <= n
    PROVE  /\ n - (i + 1) + 1 = n - i /\ (~(i + 1 <= n) => n - i = 0)
           /\ \A j \in 1..(n - i) : (i + 1) + j - 1 = j + i
OBVIOUS

LEMMA RemoveAtIs ==
    ASSUME NEW S, NEW q \in Seq(S), NEW i \in 1..Len(q)
    PROVE  LET r == RemoveAt(q, i)
           IN  /\ r \in Seq(S) /\ Len(r) = Len(q) - 1
               /\ \A j \in DOMAIN r : /\ j < i => j \in DOMAIN q /\ r[j] = q[j]
                                      /\ j >= i => j + 1 \in DOMAIN q /\ r[j] = q[j + 1]
               /\ \A k \in DOMAIN q : k # i => \E j \in DOMAIN r : r[j] = q[k]
<1> DEFINE a == SubSeq(q, 1, i - 1)
           b == SubSeq(q, i + 1, Len(q))
           r == RemoveAt(q, i)
<1>1. Len(q) \in Nat /\ i \in Nat /\ 1 <= i /\ i <= Len(q) /\ DOMAIN q = 1..Len(q)
  OBVIOUS
<1>2. a \in Seq(S) /\ Len(a) = i - 1 /\ \A j \in 1..(i - 1) : a[j] = q[j]
  BY <1>1
<1>3. b \in Seq(S) /\ Len(b) = Len(q) - i /\ \A j \in 1..(Len(q) - i) : b[j] = q[j + i]
  <2> DEFINE m == i + 1
             n == Len(q)
  <2>1. m \in Int /\ n \in Int /\ \A j \in m..n : q[j] \in S
    BY <1>1
  <2>5. n \in Nat /\ i \in Nat /\ i <= n /\ m = i + 1
    BY <1>1
  <2>4. b = SubSeq(q, m, n)
    OBVIOUS
  <2> HIDE DEF m, n, b
  <2>2. /\ SubSeq(q, m, n) \in Seq(S)
        /\ Len(SubSeq(q, m, n)) = IF m <= n THEN n - m + 1 ELSE 0
        /\ \A j \in 1..(n - m + 1) : SubSeq(q, m, n)[j] = q[m + j - 1]
    BY <2>1, SubSeqProperties
  <2>3. n - m + 1 = n - i /\ (~(m <= n) => n - i = 0)
    BY <2>5, OneMore
  <2>6. b \in Seq(S) /\ Len(b) = n - i
    BY <2>2, <2>3, <2>4
  <2>7. ASSUME NEW j \in 1..(n - i) PROVE b[j] = q[j + i]
    <3>1. m + j - 1 = j + i
      BY <2>5, OneMore
    <3>2. b[j] = q[m + j - 1]
      BY <2>2, <2>3, <2>4
    <3> QED
      BY <3>1, <3>2
  <2> QED
    BY <2>6, <2>7 DEF n
<1>4. r = a \o b
  BY DEF RemoveAt
<1> HIDE DEF a, b, r
<1>5. r \in Seq(S) /\ Len(r) = Len(q) - 1 /\ DOMAIN r = 1..(Len(q) - 1)
  <2>1. a \in Seq(S) /\ b \in Seq(S) /\ Len(a) = i - 1 /\ Len(b) = Len(q) - i
    BY <1>2, <1>3
  <2>2. r \in Seq(S) /\ Len(r) = Len(a) + Len(b)
    BY <1>4, <2>1, ConcatProperties
  <2>4. Len(r) = Len(q) - 1
    BY <1>1, <2>1, <2>2
  <2> QED
    BY <2>2, <2>4
<1>6. \A j \in 1..(Len(q) - 1) : r[j] = IF j <= i - 1 THEN a[j] ELSE b[j - (i - 1)]
  BY <1>1, <1>2, <1>3, <1>4
<1>7. \A j \in DOMAIN r : /\ j < i => j \in DOMAIN q /\ r[j] = q[j]
                          /\ j >= i => j + 1 \in DOMAIN q /\ r[j] = q[j + 1]
  <2> TAKE j \in DOMAIN r
  <2>1. j \in 1..(Len(q) - 1)
    BY <1>5
  <2>2. CASE j < i
    BY <1>1, <1>2, <1>6, <2>1, <2>2
  <2>3. CASE j >= i
    <3>1. j - (i - 1) \in 1..(Len(q) - i) /\ (j - (i - 1)) + i = j + 1
      BY <1>1, <2>1, <2>3
    <3>2. r[j] = b[j - (i - 1)]
      BY <1>1, <1>6, <2>1, <2>3
    <3>3. b[j - (i - 1)] = q[j + 1]
      BY <1>3, <3>1
    <3> QED
      BY <1>1, <2>1, <2>3, <3>2, <3>3
  <2> QED
    BY <1>1, <2>1, <2>2, <2>3
<1>8. \A k \in DOMAIN q : k # i => \E j \in DOMAIN r : r[j] = q[k]
  <2> SUFFICES ASSUME NEW k \in DOMAIN q, k # i PROVE \E j \in DOMAIN r : r[j] = q[k]
    OBVIOUS
  <2>1. k \in 1..Len(q)
    BY <1>1
  <2>2. CASE k < i
    <3>1. k \in DOMAIN r
      BY <1>1, <1>5, <2>1, <2>2
    <3> QED
      BY <1>7, <2>2, <3>1
  <2>3. CASE k > i
    <3>1. k - 1 \in DOMAIN r /\ k - 1 >= i /\ (k - 1) + 1 = k
      BY <1>1, <1>5, <2>1, <2>3
    <3>2. r[k - 1] = q[(k - 1) + 1]
      BY <1>7, <3>1
    <3> QED
      BY <3>1, <3>2
  <2> QED
    BY <1>1, <2>1, <2>2, <2>3
<1> QED
  BY <1>5, <1>7, <1>8 DEF r

LEMMA RemoveFirstIs ==
    ASSUME NEW S, NEW q \in Seq(S), NEW e,
           \E i \in DOMAIN q : q[i] = e, \A i, j \in DOMAIN q : q[i] = q[j] => i = j
    PROVE  LET r == RemoveFirst(q, e)
           IN  /\ r \in Seq(S) /\ Len(r) = Len(q) - 1
               /\ \A j \in DOMAIN r : r[j] # e /\ \E k \in DOMAIN q : r[j] = q[k]
               /\ \A k \in DOMAIN q : q[k] # e => \E j \in DOMAIN r : r[j] = q[k]
               /\ \A i, j \in DOMAIN r : r[i] = r[j] => i = j
<1> DEFINE I == {i \in 1..Len(q) : q[i] = e}
           n == Min(I)
           r == RemoveAt(q, n)
<1>1. I # {} /\ I \in SUBSET Nat /\ DOMAIN q = 1..Len(q) /\ Len(q) \in Nat
  OBVIOUS
<1>2. \E x \in I : \A y \in I : x <= y
  BY <1>1, SetHasFirst
<1>3. n \in I
  BY <1>2 DEF Min
<1>4. RemoveFirst(q, e) = r
  BY <1>1 DEF RemoveFirst, SelectInSeq
<1>5. n \in 1..Len(q) /\ q[n] = e
  BY <1>3
<1> HIDE DEF n
<1>6. /\ r \in Seq(S) /\ Len(r) = Len(q) - 1
      /\ \A j \in DOMAIN r : /\ j < n => j \in DOMAIN q /\ r[j] = q[j]
                             /\ j >= n => j + 1 \in DOMAIN q /\ r[j] = q[j + 1]
      /\ \A k \in DOMAIN q : k # n => \E j \in DOMAIN r : r[j] = q[k]
  BY <1>5, RemoveAtIs
<1> HIDE DEF r
<1>7. DOMAIN r = 1..Len(r) /\ \A j \in DOMAIN r : j \in Nat
  BY <1>1, <1>6
<1>8. ASSUME NEW j \in DOMAIN r PROVE r[j] # e /\ \E k \in DOMAIN q : r[j] = q[k]
  <2>1. CASE j < n
    BY <1>1, <1>5, <1>6, <1>7, <2>1
  <2>2. CASE j >= n
    <3>1. j + 1 \in DOMAIN q /\ r[j] = q[j + 1] /\ j + 1 # n
      BY <1>1, <1>5, <1>6, <1>7, <2>2
    <3> QED
      BY <1>1, <1>5, <3>1
  <2> QED
    BY <1>1, <1>5, <1>7, <2>1, <2>2
<1>9. ASSUME NEW i \in DOMAIN r, NEW j \in DOMAIN r, r[i] = r[j] PROVE i = j
  <2>1. i \in Nat /\ j \in Nat /\ n \in Nat
    BY <1>5, <1>7
  <2>2. CASE i < n /\ j < n
    BY <1>6, <1>9, <2>2
  <2>3. CASE i < n /\ j >= n
    <3>1. i = j + 1
      BY <1>6, <1>9, <2>3
    <3> QED
      BY <2>1, <2>3, <3>1
  <2>4. CASE i >= n /\ j < n
    <3>1. i + 1 = j
      BY <1>6, <1>9, <2>4
    <3> QED
      BY <2>1, <2>4, <3>1
  <2>5. CASE i >= n /\ j >= n
    <3>1. i + 1 = j + 1
      BY <1>6, <1>9, <2>5
    <3> QED
      BY <2>1, <3>1
  <2> QED
    BY <2>1, <2>2, <2>3, <2>4, <2>5
<1>10. \A k \in DOMAIN q : q[k] # e => \E j \in DOMAIN r : r[j] = q[k]
  BY <1>5, <1>6
<1> QED
  BY <1>4, <1>6, <1>8, <1>9, <1>10

-----------------------------------------------------------------------------
(* finish: the lane is vacated and the settlement is written.              *)
WritingAs(o) == [o EXCEPT !.settle = "writing"]
Begin(c) == Vacate([Now EXCEPT !.s.settling = Append(@, c), !.op[c].settle = "writing"], c)
Begun(c, y) ==
    /\ y \in Pair /\ y.op = [op EXCEPT ![c] = WritingAs(op[c])] /\ WritingAs(op[c]) \in Ops
    /\ y.s.lanes = s.lanes /\ y.s.settling = Append(s.settling, c) /\ y.s.wire = s.wire
    /\ y.s.ended = s.ended /\ y.s.dispatched = s.dispatched /\ y.s.buffered = s.buffered
    /\ y.s.active = VacatedAs(Now, c)
LEMMA BeginIs ==
    ASSUME SessionInv, NEW c \in Creates, LaneOf(c) \in Lanes
    PROVE  Begun(c, Begin(c))
<1> DEFINE o == op[c]
           p == WritingAs(o)
           q == Append(s.settling, c)
           x == [Now EXCEPT !.s.settling = Append(@, c), !.op[c].settle = "writing"]
           t == [s EXCEPT !.settling = q]
           f == [op EXCEPT ![c] = p]
           y == Begin(c)
<1>1. Now \in Pair /\ Now.s = s /\ Now.op = op /\ o \in Ops /\ s \in Session /\ op \in [Creates -> Ops]
  BY NowIs
<1>2. x = [s |-> t, op |-> f]
  <2> DEFINE z == [Now EXCEPT !.s.settling = Append(@, c)]
  <2>1. z = [s |-> t, op |-> op]
    BY DEF Now
  <2>2. x = [z EXCEPT !.op[c].settle = "writing"]
    OBVIOUS
  <2> HIDE DEF z, t, x
  <2>3. x = [s |-> t, op |-> [op EXCEPT ![c] = [o EXCEPT !.settle = "writing"]]]
    BY <2>1, <2>2
  <2> QED
    BY <2>3 DEF WritingAs
<1>3. p \in Ops
  BY <1>1 DEF WritingAs, Ops
<1>4. q \in Seq(Creates)
  BY <1>1 DEF Session
<1>5. y = Vacate(x, c)
  BY DEF Begin
<1> HIDE DEF x, p, q, y, o
<1>6. /\ t \in Session /\ t.lanes = s.lanes /\ t.settling = q /\ t.wire = s.wire /\ t.ended = s.ended
      /\ t.dispatched = s.dispatched /\ t.buffered = s.buffered /\ t.active = s.active
  BY <1>1, <1>4 DEF Session
<1>7. f \in [Creates -> Ops]
  BY <1>1, <1>3
<1> HIDE DEF t, f
<1>8. x \in Pair /\ x.s = t /\ x.op = f
  BY <1>2, <1>6, <1>7 DEF Pair
<1>9. y \in Pair /\ y.op = x.op /\ y.s = [x.s EXCEPT !.active = VacatedAs(x, c)]
  BY <1>5, <1>8, VacateIs
<1>10. VacatedAs(x, c) = VacatedAs(Now, c)
  BY <1>1, <1>6, <1>8 DEF VacatedAs
<1> DEFINE a == VacatedAs(Now, c)
<1> HIDE DEF a
<1>11. y.s = [t EXCEPT !.active = a]
  BY <1>8, <1>9, <1>10 DEF a
<1>12. /\ y.s.lanes = t.lanes /\ y.s.settling = t.settling /\ y.s.wire = t.wire
       /\ y.s.ended = t.ended /\ y.s.dispatched = t.dispatched
       /\ y.s.buffered = t.buffered /\ y.s.active = a
  BY <1>6, <1>11 DEF Session
<1> QED
  BY <1>3, <1>6, <1>8, <1>9, <1>12 DEF Begun, y, a, q, f, p, o

BilledAs(o) == IF Billable(o) THEN "billed" ELSE "free"
WritingWell(c, l, o, u, ran, b) ==
    LET p == WritingAs(o)
    IN  /\ OpHeld(c, l, p, u, ran, <<BilledAs(o)>>) /\ ~Live(p) /\ Live(o) /\ p.frame = o.frame
        /\ p.settle = "writing" /\ p.ending = o.ending /\ p.at = o.at /\ p.sent = o.sent
        /\ l \in Lanes /\ b = <<>> /\ o.at # "queued" /\ o.ending # "none"
LEMMA WritingOp ==
    ASSUME NEW c \in Creates, NEW l, NEW o \in Ops, NEW u, NEW ran, NEW b,
           OpHeld(c, l, o, u, ran, b), o.settle = "publishing"
    PROVE  WritingWell(c, l, o, u, ran, b)
<1> DEFINE p == WritingAs(o)
           k == <<BilledAs(o)>>
<1>1. /\ p.at = o.at /\ p.admitted = o.admitted /\ p.sent = o.sent /\ p.started = o.started
      /\ p.response = o.response /\ p.frame = o.frame /\ p.lease = o.lease
      /\ p.ending = o.ending /\ p.settle = "writing"
  BY DEF Ops, WritingAs
<1> HIDE DEF p
<1>2. o.admitted /\ o.ending # "none" /\ b = <<>> /\ o.at \notin {"new", "queued"} /\ l \in Lanes
  BY DEF OpHeld, PlaceHeld, BillHeld
<1>3. PlaceHeld(l, p)
  BY <1>1, <1>2 DEF OpHeld, PlaceHeld
<1>4. AnswerHeld(c, p, u, ran)
  BY <1>1 DEF OpHeld, AnswerHeld
<1>5. BillHeld(c, p, ran, k)
  <2>1. CASE Billable(o)
    <3>1. k = <<"billed">>
      BY <2>1 DEF BilledAs
    <3>2. <<"billed">> # <<"free">>
      OBVIOUS
    <3> QED
      BY <1>1, <3>1, <3>2 DEF BillHeld
  <2>2. CASE ~Billable(o)
    <3>1. k = <<"free">>
      BY <2>2 DEF BilledAs
    <3>2. c \notin ran /\ (o.sent => o.ending = "error")
      BY <1>2, <2>2 DEF Billable, OpHeld, AnswerHeld
    <3> HIDE DEF k
    <3> QED
      BY <1>1, <3>1, <3>2 DEF BillHeld
  <2> QED
    BY <2>1, <2>2
<1>6. ~Live(p) /\ Live(o)
  BY <1>1, <1>2 DEF Live
<1> HIDE DEF k
<1> QED
  BY <1>1, <1>2, <1>3, <1>4, <1>5, <1>6 DEF OpHeld, WritingWell, p, k

LEMMA BeginHeld ==
    ASSUME SessionInv, NEW c \in Creates, op[c].settle = "publishing"
    PROVE  Held(script.lane, Begin(c), up, executed, [bill EXCEPT ![c] = <<BilledAs(op[c])>>], stored)
<1> DEFINE lane == script.lane
           l == script.lane[c]
           o == op[c]
           p == WritingAs(o)
           y == Begin(c)
           paid == [bill EXCEPT ![c] = <<BilledAs(o)>>]
           q == Append(s.settling, c)
<1>1. /\ Now \in Pair /\ Now.s = s /\ Now.op = op /\ s \in Session /\ op \in [Creates -> Ops]
      /\ Core(lane, Now, up, executed, bill)
      /\ o \in Ops /\ OpHeld(c, l, o, up[c], executed, bill[c])
  BY NowIs
<1>2. /\ OpHeld(c, l, p, up[c], executed, <<BilledAs(o)>>) /\ ~Live(p) /\ Live(o) /\ p.frame = o.frame
      /\ p.settle = "writing" /\ p.ending = o.ending /\ p.at = o.at /\ p.sent = o.sent
      /\ l \in Lanes /\ o.at # "queued" /\ o.ending # "none"
  <2> HIDE DEF o, l
  <2>1. WritingWell(c, l, o, up[c], executed, bill[c])
    BY <1>1, WritingOp DEF o
  <2> QED
    BY <2>1 DEF WritingWell
<1>3. LaneOf(c) = l
  BY <1>2, LaneIs
<1>4. /\ y \in Pair /\ y.op = [op EXCEPT ![c] = p] /\ p \in Ops
      /\ y.s.lanes = s.lanes /\ y.s.settling = q /\ y.s.wire = s.wire
      /\ y.s.ended = s.ended /\ y.s.dispatched = s.dispatched /\ y.s.buffered = s.buffered
      /\ y.s.active = VacatedAs(Now, c)
  <2>1. Begun(c, y)
    BY <1>2, <1>3, BeginIs
  <2> QED
    BY <2>1 DEF Begun
<1>5. SameBut(c, up, executed, bill, up, executed, paid) /\ paid[c] = <<BilledAs(o)>>
  <2> DEFINE k == <<BilledAs(o)>>
  <2> HIDE DEF k
  <2>1. bill \in [Creates -> Seq({"free", "billed"})]
    BY DEF SessionInv, OutsideHeld
  <2> QED
    BY <2>1 DEF SameBut, k
<1> HIDE DEF y, p, paid, o, l, lane
<1>6. y.op[c] = p /\ \A d \in Creates \ {c} : y.op[d] = op[d]
  BY <1>1, <1>4
<1>7. LanesHeld(lane, y)
  <2>1. ActiveStep(lane, Now, y, c, p) /\ lane[c] \in Lanes
    BY <1>2, <1>3, <1>4 DEF ActiveStep, VacatedAs, lane, l
  <2>2. y.op = [Now.op EXCEPT ![c] = p] /\ y \in Pair
    BY <1>1, <1>4
  <2>3. Expected(lane, y)
    <3> SUFFICES ASSUME NEW d \in Creates, y.op[d].sent, y.op[d].settle # "done" PROVE s.dispatched[lane[d]] = d
      BY <1>4 DEF Expected
    <3>1. op[d].sent /\ op[d].settle # "done"
      BY <1>2, <1>6 DEF o
    <3> QED
      BY <1>1, <3>1 DEF Core, LanesHeld
  <2> QED
    BY <1>1, <2>1, <2>2, <2>3, StepLanes
<1>8. s.settling \in Seq(Creates) /\ Len(s.settling) \in Nat
  BY <1>1 DEF Session
<1>9. SettlingHeld(y)
  <2> DEFINE n == Len(s.settling)
  <2>1. /\ q \in Seq(Creates) /\ DOMAIN q = 1..(n + 1) /\ DOMAIN s.settling = 1..n /\ n \in Nat
        /\ q[n + 1] = c /\ \A i \in 1..n : q[i] = s.settling[i] /\ s.settling[i] \in Creates
    BY <1>8
  <2>2. \A i \in 1..n : s.settling[i] # c /\ op[s.settling[i]].settle = "writing"
    BY <1>1, <2>1 DEF Core, SettlingHeld, o
  <2>3. \A i \in 1..(n + 1) : i \in 1..n \/ i = n + 1
    BY <2>1
  <2> HIDE DEF n, q
  <2>4. \A i \in DOMAIN q : y.op[q[i]].settle = "writing"
    BY <1>2, <1>6, <2>1, <2>2, <2>3
  <2>5. \A d \in Creates : y.op[d].settle = "writing" => \E i \in DOMAIN q : q[i] = d
    <3> SUFFICES ASSUME NEW d \in Creates, y.op[d].settle = "writing" PROVE \E i \in DOMAIN q : q[i] = d
      OBVIOUS
    <3>1. CASE d = c
      <4>1. n + 1 \in DOMAIN q
        BY <2>1
      <4> QED
        BY <2>1, <3>1, <4>1
    <3>2. CASE d # c
      <4>1. PICK i \in 1..n : s.settling[i] = d
        BY <1>1, <1>6, <2>1, <3>2 DEF Core, SettlingHeld
      <4>2. i \in DOMAIN q
        BY <2>1
      <4> QED
        BY <2>1, <4>1, <4>2
    <3> QED
      BY <3>1, <3>2
  <2>6. \A i, j \in DOMAIN q : q[i] = q[j] => i = j
    <3> SUFFICES ASSUME NEW i \in DOMAIN q, NEW j \in DOMAIN q, q[i] = q[j] PROVE i = j
      OBVIOUS
    <3>1. CASE i \in 1..n /\ j \in 1..n
      BY <1>1, <2>1, <3>1 DEF Core, SettlingHeld
    <3> QED
      BY <2>1, <2>2, <2>3, <3>1
  <2> QED
    BY <1>4, <2>4, <2>5, <2>6 DEF SettlingHeld
<1>10. Busy(y) <= ActiveLimit
  <2>1. s.active \in [Lanes -> Creates \cup {NoCreate}] /\ s.active[l] = c
    BY <1>1, <1>2 DEF Session, Core, LanesHeld, o, l, lane
  <2>2. \A k \in Lanes : s.active[k] = c => k = l
    BY <1>1, <2>1, SessionAssumption DEF Core, LanesHeld, l, lane
  <2>3. y.s.active = [s.active EXCEPT ![l] = NoCreate]
    BY <1>1, <1>3, <1>4, <2>1 DEF VacatedAs
  <2>4. c \in Actives(Now) /\ Actives(y) = Actives(Now) \ {c}
    <3>1. c # NoCreate
      BY SessionAssumption
    <3>2. Actives(Now) = {s.active[k] : k \in Lanes} \ {NoCreate}
      BY <1>1 DEF Actives
    <3>3. \A k \in Lanes : y.s.active[k] = IF k = l THEN NoCreate ELSE s.active[k]
      BY <2>1, <2>3
    <3>4. Actives(y) \subseteq Actives(Now) \ {c}
      BY <2>2, <3>2, <3>3 DEF Actives
    <3>5. Actives(Now) \ {c} \subseteq Actives(y)
      <4> SUFFICES ASSUME NEW d \in Actives(Now) \ {c} PROVE d \in Actives(y)
        OBVIOUS
      <4>1. PICK k \in Lanes : d = s.active[k] /\ d # NoCreate
        BY <3>2
      <4>2. k # l
        BY <2>1, <4>1
      <4> QED
        BY <3>3, <4>1, <4>2 DEF Actives
    <3> QED
      BY <1>2, <2>1, <3>1, <3>2, <3>4, <3>5
  <2>5. /\ IsFiniteSet(Actives(Now)) /\ Cardinality(Actives(Now)) \in Nat
        /\ Busy(Now) = Cardinality(Actives(Now)) + Len(s.settling)
        /\ Busy(y) = Cardinality(Actives(y)) + Len(q)
    BY <1>1, <1>4, BusyIs
  <2>6. Cardinality(Actives(y)) = Cardinality(Actives(Now)) - 1
    BY <2>4, <2>5, FS_RemoveElement
  <2>7. Len(q) = Len(s.settling) + 1
    BY <1>8
  <2>8. Busy(Now) <= ActiveLimit /\ ActiveLimit \in Nat
    BY <1>1, SessionAssumption DEF Core, BytesCounted
  <2> HIDE DEF q
  <2> QED
    BY <1>8, <2>5, <2>6, <2>7, <2>8
<1>11. WireHeld(y)
  BY <1>1, <1>4 DEF Core, WireHeld
<1>12. Core(lane, y, up, executed, paid)
  <2>1. /\ y \in Pair /\ p \in Ops /\ y.op = [Now.op EXCEPT ![c] = p] /\ y.s.lanes = Now.s.lanes
        /\ Now.op[c].at # "queued" /\ (p.frame => Now.op[c].frame)
    BY <1>1, <1>2, <1>4 DEF o
  <2>2. y.s.buffered = Now.s.buffered - (IF Now.op[c].frame /\ ~p.frame THEN 1 ELSE 0)
    <3>1. s.buffered \in Int
      BY <1>1 DEF Session
    <3> QED
      BY <1>1, <1>2, <1>4, <3>1 DEF o
  <2>3. OpHeld(c, lane[c], p, up[c], executed, paid[c])
    BY <1>2, <1>5 DEF l, lane
  <2> QED
    BY <1>1, <1>5, <1>7, <1>9, <1>10, <1>11, <2>1, <2>2, <2>3, StepCore
<1>13. ASSUME ~s.ended PROVE Flow(lane, y, up, Creates) /\ Kept(y, stored)
  <2>1. Flow(lane, Now, up, Creates) /\ Kept(Now, stored)
    BY <1>1, <1>13 DEF SessionInv, Held, lane
  <2>2. \A d \in Creates : /\ y.op[d].ending # "none" => y.op[d].at \in {"await", "left"}
                           /\ y.op[d].sent /\ y.op[d].ending # "none" => up[d] = "finished"
    BY <1>1, <1>2, <1>6, <2>1 DEF Flow, o
  <2>3. ASSUME NEW e \in Creates, e # c, lane[e] = l PROVE op[e].settle # "writing" /\ ~Live(op[e])
    <3>1. op[e].settle # "writing"
      <4>1. Behind(lane, Now, e, c)
        BY <2>1 DEF Flow
      <4> QED
        BY <1>1, <1>2, <2>3, <4>1 DEF Behind, o, l, lane
    <3>2. ~Live(op[e])
      <4>1. Live(op[e]) => s.active[lane[e]] = e
        BY <1>1 DEF Core, LanesHeld
      <4>2. s.active[lane[c]] = c
        BY <1>1, <1>2 DEF Core, LanesHeld, o
      <4> QED
        BY <2>3, <4>1, <4>2 DEF l, lane
    <3> QED
      BY <3>1, <3>2
  <2>4. ASSUME NEW e \in Creates, NEW d \in Creates PROVE Behind(lane, y, e, d)
    <3>1. CASE e = c /\ d # c
      BY <1>6, <2>3, <3>1 DEF Behind, l, lane
    <3>2. CASE d = c /\ e # c
      BY <1>6, <2>3, <3>2 DEF Behind, l, lane
    <3>3. CASE e # c /\ d # c
      <4>1. Behind(lane, Now, e, d)
        BY <2>1 DEF Flow
      <4> QED
        BY <1>1, <1>6, <3>3, <4>1 DEF Behind
    <3>4. CASE e = d
      BY <3>4 DEF Behind
    <3> QED
      BY <3>1, <3>2, <3>3, <3>4
  <2> QED
    BY <1>1, <1>4, <2>1, <2>2, <2>4 DEF Flow, Kept
<1>14. ASSUME s.ended PROVE AllEnded(y)
  <2>1. AllEnded(Now)
    BY <1>1, <1>14 DEF SessionInv, Held
  <2> QED
    BY <1>1, <1>2, <1>6, <2>1 DEF AllEnded, o
<1> QED
  BY <1>4, <1>12, <1>13, <1>14 DEF Held, lane, y, paid, o

LEMMA SettleStartsKeeps == \A c \in Creates : SessionInv /\ SettleStarts(c) => SessionInv'
<1> SUFFICES ASSUME SessionInv, NEW c \in Creates, SettleStarts(c) PROVE SessionInv'
  OBVIOUS
<1> DEFINE paid == [bill EXCEPT ![c] = <<BilledAs(op[c])>>]
<1>1. /\ op[c].settle = "publishing" /\ Becomes(Schedule(Begin(c)))
      /\ bill' = [bill EXCEPT ![c] = Append(bill[c], BilledAs(op[c]))]
      /\ UNCHANGED <<up, executed, late, stored, told>>
  BY DEF SettleStarts, Begin, BilledAs
<1>2. bill' = paid /\ paid \in [Creates -> Seq({"free", "billed"})]
  <2> DEFINE k == BilledAs(op[c])
  <2>1. k \in {"free", "billed"}
    BY DEF BilledAs
  <2>2. bill[c] = <<>>
    <3>1. OpHeld(c, script.lane[c], op[c], up[c], executed, bill[c])
      BY NowIs
    <3> QED
      BY <1>1, <3>1 DEF OpHeld, BillHeld, PlaceHeld
  <2>3. bill \in [Creates -> Seq({"free", "billed"})]
    BY DEF SessionInv, OutsideHeld
  <2> HIDE DEF k
  <2>4. Append(<<>>, k) = <<k>> /\ <<k>> \in Seq({"free", "billed"})
    BY <2>1
  <2>5. bill' = [bill EXCEPT ![c] = <<k>>]
    BY <1>1, <2>2, <2>4 DEF k
  <2>6. [bill EXCEPT ![c] = <<k>>] \in [Creates -> Seq({"free", "billed"})]
    BY <2>3, <2>4
  <2> QED
    BY <2>5, <2>6 DEF k
<1>3. Held(script.lane, Begin(c), up, executed, paid, stored)
  BY <1>1, BeginHeld
<1> HIDE DEF paid
<1>4. Held(script.lane, Schedule(Begin(c)), up, executed, paid, stored)
  BY <1>3, ScheduleHeld
<1>5. Held(script.lane, Schedule(Begin(c)), up', executed', bill', stored')
  BY <1>1, <1>2, <1>4
<1>6. OutsideHeld'
  BY <1>1, <1>2 DEF SessionInv, OutsideHeld
<1> QED
  BY <1>1, <1>5, <1>6, Became

-----------------------------------------------------------------------------
(* finish: the settlement is written.                                      *)
EndedAs(o) == [o EXCEPT !.frame = FALSE, !.lease = FALSE, !.settle = "done"]
DismissedAs(x, c) == [x.s.dispatched EXCEPT ![LaneOf(c)] = IF x.s.dispatched[LaneOf(c)] = c THEN NoCreate ELSE @]
End(x, c) ==
    Vacate([Retire(x, c) EXCEPT
              !.op[c].settle = "done", !.s.settling = RemoveFirst(@, c),
              !.s.dispatched[LaneOf(c)] = IF @ = c THEN NoCreate ELSE @], c)
Concluded(x, c, y) ==
    /\ y \in Pair /\ y.op = [x.op EXCEPT ![c] = EndedAs(x.op[c])] /\ EndedAs(x.op[c]) \in Ops
    /\ y.s.lanes = x.s.lanes /\ y.s.settling = RemoveFirst(x.s.settling, c) /\ y.s.wire = x.s.wire
    /\ y.s.ended = x.s.ended /\ y.s.dispatched = DismissedAs(x, c)
    /\ y.s.buffered = x.s.buffered - Freed(x.op[c])
    /\ y.s.active = VacatedAs(x, c)
LEMMA EndIs ==
    ASSUME NEW x \in Pair, NEW c \in Creates, LaneOf(c) \in Lanes,
           RemoveFirst(x.s.settling, c) \in Seq(Creates)
    PROVE  Concluded(x, c, End(x, c))
<1> DEFINE o == x.op[c]
           x1 == Retire(x, c)
           r == RetiredAs(o)
           p == EndedAs(o)
           n == x.s.buffered - Freed(o)
           q == RemoveFirst(x.s.settling, c)
           g == DismissedAs(x, c)
           l == LaneOf(c)
           x2 == [x1 EXCEPT !.op[c].settle = "done", !.s.settling = RemoveFirst(@, c),
                            !.s.dispatched[l] = IF @ = c THEN NoCreate ELSE @]
           t == [[x1.s EXCEPT !.settling = q] EXCEPT !.dispatched = g]
           f == [x.op EXCEPT ![c] = p]
           y == End(x, c)
<1>1. x.s \in Session /\ x.op \in [Creates -> Ops] /\ o \in Ops
  BY PairIs
<1>2. x1 \in Pair /\ x1.op = [x.op EXCEPT ![c] = r] /\ x1.s = [x.s EXCEPT !.buffered = n]
  BY RetireIs
<1>3. r \in Ops /\ [r EXCEPT !.settle = "done"] = p /\ p \in Ops
  <2> HIDE DEF o
  <2> QED
    BY <1>1 DEF RetiredAs, EndedAs, Ops
<1>4. g \in [Lanes -> Creates \cup {NoCreate}]
  <2>1. x.s.dispatched \in [Lanes -> Creates \cup {NoCreate}]
    BY <1>1 DEF Session
  <2> QED
    BY <2>1 DEF DismissedAs
<1>5. y = Vacate(x2, c)
  BY DEF End
<1> HIDE DEF x1, r, n, p, o, q
<1>6. /\ x1.s \in Session /\ x1.s.lanes = x.s.lanes /\ x1.s.settling = x.s.settling /\ x1.s.wire = x.s.wire
      /\ x1.s.ended = x.s.ended /\ x1.s.dispatched = x.s.dispatched
      /\ x1.s.buffered = n /\ x1.s.active = x.s.active
  <2>1. x1.s \in Session
    BY <1>2, PairIs
  <2> QED
    BY <1>1, <1>2, <2>1 DEF Session
<1>7. x1.op[c] = r
  BY <1>1, <1>2
<1>8. x2 = [s |-> t, op |-> f]
  <2> DEFINE z1 == [x1 EXCEPT !.op[c].settle = "done"]
             z2 == [z1 EXCEPT !.s.settling = RemoveFirst(@, c)]
  <2>1. x2 = [z2 EXCEPT !.s.dispatched[l] = IF @ = c THEN NoCreate ELSE @]
    OBVIOUS
  <2>2. z1 = [s |-> x1.s, op |-> [x1.op EXCEPT ![c] = [r EXCEPT !.settle = "done"]]]
    BY <1>2, <1>7 DEF Pair
  <2>3. [x1.op EXCEPT ![c] = [r EXCEPT !.settle = "done"]] = f
    <3>1. [x1.op EXCEPT ![c] = p] = f
      BY <1>1, <1>2
    <3> QED
      BY <1>3, <3>1
  <2>4. z1 = [s |-> x1.s, op |-> f]
    BY <2>2, <2>3
  <2>5. z2 = [z1 EXCEPT !.s = [z1.s EXCEPT !.settling = RemoveFirst(z1.s.settling, c)]]
    OBVIOUS
  <2> HIDE DEF z1, z2, f, x2
  <2>6. z1.s = x1.s /\ RemoveFirst(z1.s.settling, c) = q
    BY <1>6, <2>4 DEF q
  <2>7. z2 = [s |-> [x1.s EXCEPT !.settling = q], op |-> f]
    BY <2>4, <2>5, <2>6
  <2> DEFINE h == [z2.s.dispatched EXCEPT ![l] = IF z2.s.dispatched[l] = c THEN NoCreate ELSE @]
  <2>8. x2 = [z2 EXCEPT !.s = [z2.s EXCEPT !.dispatched = h]]
    BY <2>1
  <2>9. z2.s.dispatched = x.s.dispatched
    BY <1>6, <2>7 DEF Session
  <2>10. h = g
    BY <2>9 DEF DismissedAs
  <2> HIDE DEF h, g
  <2> QED
    BY <2>7, <2>8, <2>10
<1> HIDE DEF x2, y, g
<1>9. /\ t \in Session /\ t.lanes = x.s.lanes /\ t.settling = q /\ t.wire = x.s.wire /\ t.ended = x.s.ended
      /\ t.dispatched = g /\ t.buffered = n /\ t.active = x.s.active
  <2>1. q \in Seq(Creates)
    BY DEF q
  <2> QED
    BY <1>4, <1>6, <2>1 DEF Session
<1>10. f \in [Creates -> Ops]
  BY <1>1, <1>3
<1> HIDE DEF t, f
<1>11. x2 \in Pair /\ x2.s = t /\ x2.op = f
  BY <1>8, <1>9, <1>10 DEF Pair
<1>12. y \in Pair /\ y.op = x2.op /\ y.s = [x2.s EXCEPT !.active = VacatedAs(x2, c)]
  BY <1>5, <1>11, VacateIs
<1>13. VacatedAs(x2, c) = VacatedAs(x, c)
  BY <1>9, <1>11 DEF VacatedAs
<1> DEFINE a == VacatedAs(x, c)
<1> HIDE DEF a
<1>14. y.s = [t EXCEPT !.active = a]
  BY <1>11, <1>12, <1>13 DEF a
<1>15. /\ y.s.lanes = t.lanes /\ y.s.settling = t.settling /\ y.s.wire = t.wire
       /\ y.s.ended = t.ended /\ y.s.dispatched = t.dispatched
       /\ y.s.buffered = t.buffered /\ y.s.active = a
  BY <1>9, <1>14 DEF Session
<1> QED
  BY <1>3, <1>9, <1>11, <1>12, <1>15 DEF Concluded, y, a, q, f, p, o, n, g

EndedWell(c, l, o, u, ran, b) ==
    LET p == EndedAs(o)
    IN  /\ OpHeld(c, l, p, u, ran, b) /\ ~Live(p) /\ ~p.frame
        /\ p.settle = "done" /\ p.ending = o.ending /\ p.at = o.at /\ p.sent = o.sent
        /\ l \in Lanes /\ o.at # "queued"
LEMMA EndedOp ==
    ASSUME NEW c \in Creates, NEW l, NEW o \in Ops, NEW u, NEW ran, NEW b,
           OpHeld(c, l, o, u, ran, b), o.settle = "writing"
    PROVE  EndedWell(c, l, o, u, ran, b)
<1> DEFINE p == EndedAs(o)
<1>1. /\ p.at = o.at /\ p.admitted = o.admitted /\ p.sent = o.sent /\ p.started = o.started
      /\ p.response = o.response /\ p.frame = FALSE /\ p.lease = FALSE
      /\ p.ending = o.ending /\ p.settle = "done"
  BY DEF Ops, EndedAs
<1> HIDE DEF p
<1>2. o.admitted /\ o.at \notin {"new", "queued"} /\ l \in Lanes
  BY DEF OpHeld, PlaceHeld
<1>3. PlaceHeld(l, p)
  BY <1>1, <1>2 DEF OpHeld, PlaceHeld
<1>4. AnswerHeld(c, p, u, ran)
  BY <1>1 DEF OpHeld, AnswerHeld
<1>5. BillHeld(c, p, ran, b)
  BY <1>1 DEF OpHeld, BillHeld
<1>6. ~Live(p)
  BY <1>1 DEF Live
<1> QED
  BY <1>1, <1>2, <1>3, <1>4, <1>5, <1>6 DEF OpHeld, EndedWell, p

LEMMA EndHeld ==
    ASSUME NEW x, NEW u, NEW ran, NEW b, NEW st, NEW c \in Creates,
           Held(script.lane, x, u, ran, b, st), LaneOf(c) = script.lane[c], x.op[c].settle = "writing"
    PROVE  Held(script.lane, End(x, c), u, ran, b, st)
<1> DEFINE lane == script.lane
           l == script.lane[c]
           o == x.op[c]
           p == EndedAs(o)
           y == End(x, c)
           q == x.s.settling
           r == RemoveFirst(q, c)
<1>1. /\ x \in Pair /\ x.s \in Session /\ x.op \in [Creates -> Ops] /\ o \in Ops
      /\ Core(lane, x, u, ran, b) /\ OpHeld(c, l, o, u[c], ran, b[c])
  BY PairIs DEF Held, Core
<1>2. /\ OpHeld(c, l, p, u[c], ran, b[c]) /\ ~Live(p) /\ ~p.frame
      /\ p.settle = "done" /\ p.ending = o.ending /\ p.at = o.at /\ p.sent = o.sent
      /\ l \in Lanes /\ o.at # "queued"
  <2> HIDE DEF o, l
  <2>1. o.settle = "writing"
    BY DEF o
  <2>2. EndedWell(c, l, o, u[c], ran, b[c])
    BY <1>1, <2>1, EndedOp
  <2> QED
    BY <2>2 DEF EndedWell
<1>3. /\ r \in Seq(Creates) /\ Len(r) = Len(q) - 1
      /\ \A j \in DOMAIN r : r[j] # c /\ \E k \in DOMAIN q : r[j] = q[k]
      /\ \A k \in DOMAIN q : q[k] # c => \E j \in DOMAIN r : r[j] = q[k]
      /\ \A i, j \in DOMAIN r : r[i] = r[j] => i = j
  <2>1. q \in Seq(Creates)
    BY <1>1 DEF Session
  <2>2. (\E i \in DOMAIN q : q[i] = c) /\ \A i, j \in DOMAIN q : q[i] = q[j] => i = j
    BY <1>1 DEF Core, SettlingHeld
  <2> HIDE DEF q
  <2> QED
    BY <2>1, <2>2, RemoveFirstIs
<1>4. /\ y \in Pair /\ y.op = [x.op EXCEPT ![c] = p] /\ p \in Ops
      /\ y.s.lanes = x.s.lanes /\ y.s.settling = r /\ y.s.wire = x.s.wire
      /\ y.s.ended = x.s.ended /\ y.s.dispatched = DismissedAs(x, c)
      /\ y.s.buffered = x.s.buffered - Freed(o) /\ y.s.active = VacatedAs(x, c)
  <2>1. Concluded(x, c, y)
    BY <1>1, <1>2, <1>3, EndIs
  <2> QED
    BY <2>1 DEF Concluded
<1> HIDE DEF y, p, r, q, lane, l
<1>5. y.op[c] = p /\ \A d \in Creates \ {c} : y.op[d] = x.op[d]
  BY <1>1, <1>4
<1>6. LanesHeld(lane, y)
  <2>1. ActiveStep(lane, x, y, c, p) /\ lane[c] \in Lanes
    BY <1>2, <1>4 DEF ActiveStep, VacatedAs, lane, l
  <2>2. Expected(lane, y)
    <3> SUFFICES ASSUME NEW d \in Creates, y.op[d].sent, y.op[d].settle # "done"
                 PROVE  y.s.dispatched[lane[d]] = d
      BY DEF Expected
    <3>1. d # c /\ x.op[d].sent /\ x.op[d].settle # "done"
      BY <1>2, <1>5
    <3>2. x.s.dispatched[lane[d]] = d
      BY <1>1, <3>1 DEF Core, LanesHeld
    <3>3. lane[d] \in Lanes
      BY <1>1, <3>1 DEF Core, OpHeld, PlaceHeld
    <3>4. x.s.dispatched \in [Lanes -> Creates \cup {NoCreate}]
      BY <1>1 DEF Session
    <3> QED
      BY <1>4, <3>1, <3>2, <3>3, <3>4 DEF DismissedAs
  <2> QED
    BY <1>1, <1>4, <2>1, <2>2, StepLanes
<1>7. SettlingHeld(y)
  <2>1. \A i \in DOMAIN q : q[i] \in Creates /\ x.op[q[i]].settle = "writing"
    BY <1>1 DEF Core, SettlingHeld, Session, q
  <2>2. \A d \in Creates : x.op[d].settle = "writing" => \E i \in DOMAIN q : q[i] = d
    BY <1>1 DEF Core, SettlingHeld, q
  <2>3. \A j \in DOMAIN r : y.op[r[j]].settle = "writing"
    BY <1>3, <1>5, <2>1
  <2>4. \A d \in Creates : y.op[d].settle = "writing" => \E j \in DOMAIN r : r[j] = d
    BY <1>2, <1>3, <1>5, <2>2
  <2> QED
    BY <1>3, <1>4, <2>3, <2>4 DEF SettlingHeld
<1>8. Busy(y) <= ActiveLimit
  <2>1. x.s.active \in [Lanes -> Creates \cup {NoCreate}]
    BY <1>1 DEF Session
  <2>2. Actives(y) \subseteq Actives(x)
    BY <1>4, <2>1 DEF Actives, VacatedAs
  <2>3. /\ IsFiniteSet(Actives(x)) /\ Cardinality(Actives(x)) \in Nat /\ Len(q) \in Nat
        /\ Busy(x) = Cardinality(Actives(x)) + Len(q)
        /\ Busy(y) = Cardinality(Actives(y)) + Len(r) /\ Cardinality(Actives(y)) \in Nat
    BY <1>1, <1>4, BusyIs DEF q
  <2>4. Cardinality(Actives(y)) <= Cardinality(Actives(x))
    BY <2>2, <2>3, FS_Subset
  <2>5. Busy(x) <= ActiveLimit /\ ActiveLimit \in Nat
    BY <1>1, SessionAssumption DEF Core, BytesCounted
  <2>6. Len(r) = Len(q) - 1
    BY <1>3
  <2> QED
    BY <2>3, <2>4, <2>5, <2>6
<1>9. WireHeld(y)
  BY <1>1, <1>4 DEF Core, WireHeld
<1>10. Core(lane, y, u, ran, b)
  <2>1. y.s.buffered = x.s.buffered - (IF x.op[c].frame /\ ~p.frame THEN 1 ELSE 0)
    BY <1>2, <1>4 DEF Freed
  <2>2. x.op[c].at # "queued" /\ (p.frame => x.op[c].frame) /\ OpHeld(c, lane[c], p, u[c], ran, b[c])
    BY <1>2 DEF lane, l
  <2>3. SameBut(c, u, ran, b, u, ran, b)
    BY DEF SameBut
  <2> QED
    BY <1>1, <1>4, <1>6, <1>7, <1>8, <1>9, <2>1, <2>2, <2>3, StepCore
<1>11. ASSUME ~x.s.ended PROVE Flow(lane, y, u, Creates) /\ Kept(y, st)
  <2>1. Flow(lane, x, u, Creates) /\ Kept(x, st)
    BY <1>11 DEF Held, lane
  <2>2. \A d \in Creates : /\ y.op[d].ending # "none" => y.op[d].at \in {"await", "left"}
                           /\ y.op[d].sent /\ y.op[d].ending # "none" => u[d] = "finished"
    BY <1>2, <1>5, <2>1 DEF Flow
  <2>3. ASSUME NEW e \in Creates, NEW d \in Creates PROVE Behind(lane, y, e, d)
    <3>1. CASE e = c \/ d = c
      BY <1>2, <1>5, <3>1 DEF Behind
    <3>2. CASE e # c /\ d # c
      <4>1. Behind(lane, x, e, d)
        BY <2>1 DEF Flow
      <4> QED
        BY <1>5, <3>2, <4>1 DEF Behind
    <3> QED
      BY <3>1, <3>2
  <2> QED
    BY <1>4, <2>1, <2>2, <2>3 DEF Flow, Kept
<1>12. ASSUME x.s.ended PROVE AllEnded(y)
  <2>1. AllEnded(x)
    BY <1>12 DEF Held
  <2> QED
    BY <1>2, <1>5, <2>1 DEF AllEnded
<1> QED
  BY <1>4, <1>10, <1>11, <1>12 DEF Held, lane, y

LEMMA SettleEndsKeeps == \A c \in Creates : SessionInv /\ SettleEnds(c) => SessionInv'
<1> SUFFICES ASSUME SessionInv, NEW c \in Creates, SettleEnds(c) PROVE SessionInv'
  OBVIOUS
<1>1. op[c].settle = "writing" /\ UNCHANGED <<up, executed, late, bill, stored, told>>
  BY DEF SettleEnds
<1>2. PICK x \in Notice(Now) : Becomes(Schedule(End(x, c)))
  BY DEF SettleEnds, End
<1>3. Held(script.lane, Now, up, executed, bill, stored) /\ Now.op = op
  BY NowIs DEF SessionInv
<1>4. Held(script.lane, x, up, executed, bill, stored)
  BY <1>3, NoticeHeld
<1>5. x.op[c].settle = "writing"
  <2>1. CASE x = Now
    BY <1>1, <1>3, <2>1
  <2>2. CASE x = Close(Now) /\ x # Now
    <3>1. ~Now.s.ended
      BY <2>2 DEF Close
    <3>2. x.op[c] = ClosedOp(Now, c)
      BY <2>2, <3>1, CloseOpIs, NowIs
    <3>3. c \notin Waiting(Now)
      <4>1. c \in Waiting(Now) => op[c].at = "queued"
        BY <1>3, WaitingAre, NowIs
      <4>2. OpHeld(c, script.lane[c], op[c], up[c], executed, bill[c])
        BY NowIs
      <4> QED
        BY <1>1, <4>1, <4>2 DEF OpHeld, PlaceHeld
    <3> QED
      BY <1>1, <1>3, <3>2, <3>3 DEF ClosedOp, FinishOp
  <2> QED
    BY <1>2, <2>1, <2>2 DEF Notice
<1>6. Held(script.lane, End(x, c), up, executed, bill, stored)
  BY <1>4, <1>5, EndHeld, LaneIs
<1>7. Held(script.lane, Schedule(End(x, c)), up, executed, bill, stored)
  BY <1>6, ScheduleHeld
<1> QED
  BY <1>1, <1>2, <1>7, BecameInside

-----------------------------------------------------------------------------
(* The frames on their way to the client.                                  *)
Rewired(x, w) == [s |-> [x.s EXCEPT !.wire = w], op |-> x.op]
Wired(x, w, y) == y \in Pair /\ SameLanes(x, y) /\ y.op = x.op /\ y.s.ended = x.s.ended /\ y.s.wire = w
LEMMA RewiredIs ==
    ASSUME NEW x \in Pair, NEW w \in Seq(Frames)
    PROVE  Wired(x, w, Rewired(x, w))
<1> DEFINE t == [x.s EXCEPT !.wire = w]
           y == Rewired(x, w)
<1>1. x.s \in Session /\ x.op \in [Creates -> Ops]
  BY PairIs
<1>2. /\ t \in Session /\ t.lanes = x.s.lanes /\ t.active = x.s.active /\ t.settling = x.s.settling
      /\ t.dispatched = x.s.dispatched /\ t.buffered = x.s.buffered /\ t.ended = x.s.ended /\ t.wire = w
  BY <1>1 DEF Session
<1>3. y = [s |-> t, op |-> x.op]
  BY DEF Rewired
<1> HIDE DEF t, y
<1>4. y \in Pair /\ y.s = t /\ y.op = x.op
  BY <1>1, <1>2, <1>3 DEF Pair
<1> QED
  BY <1>2, <1>4 DEF Wired, SameLanes, y

LEMMA WiredCore ==
    ASSUME NEW lane, NEW x, NEW y, NEW w, NEW u, NEW ran, NEW b,
           Core(lane, x, u, ran, b), Wired(x, w, y), WireHeld(y)
    PROVE  Core(lane, y, u, ran, b)
<1>1. Busy(y) = Busy(x)
  BY DEF Wired, SameLanes, Busy, Actives
<1> QED
  BY <1>1 DEF Wired, Core, SameLanes, QueuesHeld, LanesHeld, SettlingHeld, BytesCounted

LEMMA WiredHeld ==
    ASSUME NEW lane, NEW x, NEW y, NEW w, NEW u, NEW ran, NEW b, NEW st, NEW to,
           Held(lane, x, u, ran, b, st), Wired(x, w, y), WireHeld(y), ~x.s.ended => Kept(y, to)
    PROVE  Held(lane, y, u, ran, b, to)
<1>1. Core(lane, y, u, ran, b)
  BY WiredCore DEF Held
<1>2. ~y.s.ended => Flow(lane, y, u, Creates) /\ Kept(y, to)
  BY DEF Held, Flow, Behind, Wired
<1>3. y.s.ended => AllEnded(y)
  BY DEF Held, AllEnded, Wired
<1> QED
  BY <1>1, <1>2, <1>3 DEF Held

(* publish: one more frame, not yet bound, or the end of the session.      *)
FrameOf(c, kind) == [op |-> c, kind |-> kind, bound |-> c = NoCreate, out |-> FALSE]
LEMMA FrameIs ==
    ASSUME NEW c \in Creates \cup {NoCreate}, NEW kind \in Kinds
    PROVE  /\ FrameOf(c, kind) \in Frames /\ FrameOf(c, kind).op = c /\ FrameOf(c, kind).kind = kind
           /\ FrameOf(c, kind).bound <=> c = NoCreate
<1> DEFINE h == c = NoCreate
           no == FALSE
           f == FrameOf(c, kind)
<1>1. h \in BOOLEAN /\ no \in BOOLEAN
  OBVIOUS
<1>2. f = [op |-> c, kind |-> kind, bound |-> h, out |-> no]
  BY DEF FrameOf
<1> HIDE DEF h, no, f
<1>3. f \in Frames /\ f.op = c /\ f.kind = kind /\ f.bound = h
  BY <1>1, <1>2 DEF Frames
<1> QED
  BY <1>3 DEF f, h

LEMMA PublishIs ==
    ASSUME NEW x \in Pair, NEW c, NEW kind
    PROVE  Publish(x, c, kind) = IF Len(x.s.wire) >= BufferLimit THEN Close(x)
                                 ELSE Rewired(x, Append(x.s.wire, FrameOf(c, kind)))
<1> DEFINE w == Append(x.s.wire, FrameOf(c, kind))
<1>1. Publish(x, c, kind) = IF Len(x.s.wire) >= BufferLimit THEN Close(x)
                            ELSE [x EXCEPT !.s = [x.s EXCEPT !.wire = w]]
  BY DEF Publish, FrameOf
<1> HIDE DEF w
<1>2. [x EXCEPT !.s = [x.s EXCEPT !.wire = w]] = [s |-> [x.s EXCEPT !.wire = w], op |-> x.op]
  BY DEF Pair
<1> QED
  BY <1>1, <1>2 DEF Rewired, w

LEMMA PublishHeld ==
    ASSUME NEW lane, NEW x, NEW u, NEW ran, NEW b, NEW st, Held(lane, x, u, ran, b, st),
           NEW c \in Creates \cup {NoCreate}, NEW kind \in Kinds, kind = "terminal" => c # NoCreate
    PROVE  Held(lane, Publish(x, c, kind), u, ran, b, st)
<1> DEFINE f == FrameOf(c, kind)
           q == x.s.wire
           w == Append(q, f)
           y == Rewired(x, w)
<1>1. x \in Pair /\ x.s \in Session
  BY PairIs DEF Held, Core
<1>2. f \in Frames /\ f.op = c /\ f.kind = kind /\ (f.bound <=> c = NoCreate)
  BY FrameIs
<1> HIDE DEF f
<1>3. q \in Seq(Frames)
  BY <1>1 DEF Session
<1>4. w \in Seq(Frames) /\ \A i \in DOMAIN w : w[i] = f \/ (i \in DOMAIN q /\ w[i] = q[i])
  BY <1>2, <1>3
<1> HIDE DEF w
<1>5. Wired(x, w, y)
  BY <1>1, <1>4, RewiredIs
<1> HIDE DEF y
<1>6. WireHeld(y)
  BY <1>2, <1>4, <1>5 DEF Held, Core, WireHeld, Wired
<1>7. ~x.s.ended => Kept(y, st)
  BY <1>2, <1>4, <1>5 DEF Held, Kept, Wired
<1>8. Held(lane, y, u, ran, b, st)
  BY <1>5, <1>6, <1>7, WiredHeld
<1>9. Held(lane, Close(x), u, ran, b, st)
  BY NoticeHeld
<1>10. Publish(x, c, kind) = Close(x) \/ Publish(x, c, kind) = y
  BY <1>1, PublishIs DEF y, w, f
<1> QED
  BY <1>8, <1>9, <1>10

LEMMA InterruptAckKeeps == \A c \in Creates : SessionInv /\ InterruptAck(c) => SessionInv'
<1> SUFFICES ASSUME SessionInv, NEW c \in Creates, InterruptAck(c) PROVE SessionInv'
  OBVIOUS
<1>1. /\ Becomes(Publish(Now, NoCreate, "ack")) /\ UNCHANGED <<up, executed, bill, stored, told>>
      /\ late < MaxLate /\ late' = late + 1
  BY DEF InterruptAck
<1>2. Held(script.lane, Publish(Now, NoCreate, "ack"), up, executed, bill, stored)
  BY PublishHeld DEF SessionInv, Kinds
<1>3. OutsideHeld'
  <2>1. late' \in 0..MaxLate
    BY <1>1, SessionAssumption DEF SessionInv, OutsideHeld
  <2> QED
    BY <1>1, <2>1 DEF SessionInv, OutsideHeld
<1>4. Held(script.lane, Publish(Now, NoCreate, "ack"), up', executed', bill', stored')
  BY <1>1, <1>2
<1> QED
  BY <1>1, <1>3, <1>4, Became

(* A frame that was bound or delivered is noted or gone.                   *)
Replaced(i, g, w) ==
    /\ w \in Seq(Frames)
    /\ \A j \in DOMAIN w : w[j] = g \/ \E k \in DOMAIN s.wire : w[j] = s.wire[k]
LEMMA SettledIs ==
    ASSUME SessionInv, NEW i \in DOMAIN s.wire, NEW g \in Frames
    PROVE  Replaced(i, g, Settled(i, g))
<1> DEFINE q == s.wire
<1>1. q \in Seq(Frames)
  BY NowIs DEF Session
<1>2. i \in 1..Len(q) /\ DOMAIN q = 1..Len(q) /\ Len(q) \in Nat
  BY <1>1
<1>3. CASE g.bound /\ g.out
  <2> DEFINE w == RemoveAt(q, i)
  <2>1. Settled(i, g) = w
    BY <1>3 DEF Settled
  <2> HIDE DEF q
  <2>2. /\ w \in Seq(Frames)
        /\ \A j \in DOMAIN w : /\ j < i => j \in DOMAIN q /\ w[j] = q[j]
                               /\ j >= i => j + 1 \in DOMAIN q /\ w[j] = q[j + 1]
    BY <1>1, <1>2, RemoveAtIs
  <2> HIDE DEF w
  <2>3. \A j \in DOMAIN w : j \in Nat
    BY <2>2
  <2>4. \A j \in DOMAIN w : \E k \in DOMAIN q : w[j] = q[k]
    BY <1>2, <2>2, <2>3
  <2> QED
    BY <2>1, <2>2, <2>4 DEF Replaced, q
<1>4. CASE ~(g.bound /\ g.out)
  <2> DEFINE w == [q EXCEPT ![i] = g]
  <2>1. Settled(i, g) = w
    BY <1>4 DEF Settled
  <2> HIDE DEF q
  <2>2. w \in Seq(Frames) /\ \A j \in DOMAIN w : w[j] = g \/ (j \in DOMAIN q /\ w[j] = q[j])
    BY <1>1, <1>2
  <2> HIDE DEF w
  <2> QED
    BY <2>1, <2>2 DEF Replaced, q
<1> QED
  BY <1>3, <1>4

LEMMA NotedWire ==
    ASSUME SessionInv, NEW i \in DOMAIN s.wire, NEW g \in Frames, NEW to,
           g.kind = s.wire[i].kind, g.op = s.wire[i].op,
           ~s.ended => stored \subseteq to /\ (g.kind = "terminal" /\ g.bound => g.op \in to)
    PROVE  LET y == Rewired(Now, Settled(i, g))
           IN  Held(script.lane, y, up, executed, bill, to)
<1> DEFINE w == Settled(i, g)
           y == Rewired(Now, w)
<1>1. Now \in Pair /\ Now.s = s /\ Held(script.lane, Now, up, executed, bill, stored)
  BY NowIs DEF SessionInv
<1>2. Replaced(i, g, w)
  BY SettledIs
<1> HIDE DEF w
<1>3. Wired(Now, w, y)
  BY <1>1, <1>2, RewiredIs DEF Replaced
<1> HIDE DEF y
<1>4. \A k \in DOMAIN s.wire : s.wire[k].kind = "terminal" => s.wire[k].op \in Creates
  BY <1>1 DEF Held, Core, WireHeld
<1>5. WireHeld(y)
  BY <1>2, <1>3, <1>4 DEF Replaced, Wired, WireHeld
<1>6. ~Now.s.ended => Kept(y, to)
  <2> SUFFICES ASSUME ~s.ended PROVE Kept(y, to)
    BY <1>1
  <2>1. \A k \in DOMAIN s.wire : s.wire[k].kind = "terminal" /\ s.wire[k].bound => s.wire[k].op \in to
    BY <1>1 DEF Held, Kept
  <2> QED
    BY <1>2, <1>3, <2>1 DEF Replaced, Wired, Kept
<1>7. Held(script.lane, y, up, executed, bill, to)
  BY <1>1, <1>3, <1>5, <1>6, WiredHeld
<1> QED
  BY <1>7 DEF y, w

LEMMA WireNoted ==
    ASSUME SessionInv, NEW w
    PROVE  [Now EXCEPT !.s.wire = w] = Rewired(Now, w)
BY DEF Now, Rewired

BoundAs(f) == [f EXCEPT !.bound = TRUE]
OutAs(f) == [f EXCEPT !.out = TRUE]
LEMMA FrameSteps ==
    ASSUME SessionInv, NEW i \in DOMAIN s.wire
    PROVE  LET f == s.wire[i]
           IN  /\ f \in Frames /\ (f.kind = "terminal" => f.op \in Creates)
               /\ BoundAs(f) \in Frames /\ BoundAs(f).kind = f.kind /\ BoundAs(f).op = f.op
               /\ OutAs(f) \in Frames /\ OutAs(f).kind = f.kind /\ OutAs(f).op = f.op
               /\ OutAs(f).bound = f.bound
<1> DEFINE f == s.wire[i]
<1>1. f \in Frames
  BY NowIs DEF Session
<1>2. f.kind = "terminal" => f.op \in Creates
  BY NowIs DEF Core, WireHeld
<1> HIDE DEF f
<1>3. BoundAs(f) \in Frames /\ BoundAs(f).kind = f.kind /\ BoundAs(f).op = f.op
  BY <1>1 DEF BoundAs, Frames
<1>4. OutAs(f) \in Frames /\ OutAs(f).kind = f.kind /\ OutAs(f).op = f.op /\ OutAs(f).bound = f.bound
  BY <1>1 DEF OutAs, Frames
<1> QED
  BY <1>1, <1>2, <1>3, <1>4 DEF f

LEMMA BindKeeps == SessionInv => \A i \in DOMAIN s.wire : Bind(i) => SessionInv'
<1> SUFFICES ASSUME SessionInv, NEW i \in DOMAIN s.wire, Bind(i) PROVE SessionInv'
  OBVIOUS
<1> DEFINE f == s.wire[i]
           g == BoundAs(f)
           y == Rewired(Now, Settled(i, g))
<1>1. [Now EXCEPT !.s.wire = Settled(i, [f EXCEPT !.bound = TRUE])] = y
  <2>1. [Now EXCEPT !.s.wire = Settled(i, g)] = Rewired(Now, Settled(i, g))
    BY WireNoted
  <2> QED
    BY <2>1 DEF BoundAs
<1>2. /\ UNCHANGED <<up, executed, late, bill, told>>
      /\ \/ /\ Becomes(y)
            /\ stored' = IF s.ended \/ f.kind # "terminal" THEN stored ELSE stored \cup {f.op}
         \/ ~s.ended /\ Becomes(Close(y)) /\ UNCHANGED stored
  BY <1>1 DEF Bind
<1>3. f \in Frames /\ (f.kind = "terminal" => f.op \in Creates) /\ g \in Frames /\ g.kind = f.kind /\ g.op = f.op
  BY FrameSteps
<1> HIDE DEF g
<1>4. ASSUME NEW to, ~s.ended => stored \subseteq to /\ (g.kind = "terminal" => g.op \in to)
      PROVE  Held(script.lane, y, up, executed, bill, to)
  BY <1>3, <1>4, NotedWire
<1> HIDE DEF y
<1>5. CASE Becomes(y) /\ stored' = IF s.ended \/ f.kind # "terminal" THEN stored ELSE stored \cup {f.op}
  <2>1. ~s.ended => stored \subseteq stored' /\ (g.kind = "terminal" => g.op \in stored')
    BY <1>3, <1>5
  <2>2. Held(script.lane, y, up, executed, bill, stored')
    BY <1>4, <2>1
  <2>3. OutsideHeld'
    <3>1. stored \subseteq Creates /\ told \subseteq stored
      BY DEF SessionInv, OutsideHeld
    <3>2. stored' \subseteq Creates /\ stored \subseteq stored'
      BY <1>3, <1>5, <3>1
    <3> QED
      BY <1>2, <3>1, <3>2 DEF SessionInv, OutsideHeld
  <2>4. Held(script.lane, y, up', executed', bill', stored')
    BY <1>2, <2>2
  <2> QED
    BY <1>5, <2>3, <2>4, Became
<1>6. CASE ~s.ended /\ Becomes(Close(y)) /\ UNCHANGED stored
  <2> DEFINE to == stored \cup {f.op}
  <2>1. Held(script.lane, y, up, executed, bill, to)
    BY <1>3, <1>4
  <2>2. Held(script.lane, Close(y), up, executed, bill, stored)
    BY <2>1, CloseHeld DEF Held
  <2> QED
    BY <1>2, <1>6, <2>2, BecameInside
<1> QED
  BY <1>2, <1>5, <1>6

LEMMA DeliverKeeps == SessionInv => \A i \in DOMAIN s.wire : Deliver(i) => SessionInv'
<1> SUFFICES ASSUME SessionInv, NEW i \in DOMAIN s.wire, Deliver(i) PROVE SessionInv'
  OBVIOUS
<1> DEFINE f == s.wire[i]
           g == OutAs(f)
           y == Rewired(Now, Settled(i, g))
<1>1. [Now EXCEPT !.s.wire = Settled(i, [f EXCEPT !.out = TRUE])] = y
  <2>1. [Now EXCEPT !.s.wire = Settled(i, g)] = Rewired(Now, Settled(i, g))
    BY WireNoted
  <2> QED
    BY <2>1 DEF OutAs
<1>2. /\ UNCHANGED <<up, executed, late, bill, stored>> /\ DeliverReady(f)
      /\ \/ /\ Becomes(y)
            /\ told' = IF s.ended \/ f.kind # "terminal" THEN told ELSE told \cup {f.op}
         \/ ~s.ended /\ Becomes(Close(y)) /\ UNCHANGED told
  BY <1>1 DEF Deliver
<1>3. /\ f \in Frames /\ (f.kind = "terminal" => f.op \in Creates)
      /\ g \in Frames /\ g.kind = f.kind /\ g.op = f.op /\ g.bound = f.bound
  BY FrameSteps
<1>4. ~s.ended /\ f.kind = "terminal" /\ f.bound => f.op \in stored
  BY NowIs DEF SessionInv, Held, Kept
<1> HIDE DEF g
<1>5. Held(script.lane, y, up, executed, bill, stored)
  BY <1>3, <1>4, NotedWire
<1> HIDE DEF y
<1>6. CASE Becomes(y) /\ told' = IF s.ended \/ f.kind # "terminal" THEN told ELSE told \cup {f.op}
  <2>1. told' \subseteq stored
    BY <1>2, <1>4, <1>6 DEF DeliverReady, SessionInv, OutsideHeld
  <2>2. OutsideHeld'
    BY <1>2, <2>1 DEF SessionInv, OutsideHeld
  <2>3. Held(script.lane, y, up', executed', bill', stored')
    BY <1>2, <1>5
  <2> QED
    BY <1>6, <2>2, <2>3, Became
<1>7. CASE ~s.ended /\ Becomes(Close(y)) /\ UNCHANGED told
  <2>1. Held(script.lane, Close(y), up, executed, bill, stored)
    BY <1>5, NoticeHeld
  <2> QED
    BY <1>2, <1>7, <2>1, BecameInside
<1> QED
  BY <1>2, <1>6, <1>7

-----------------------------------------------------------------------------
(* What upstream says of a create that the session does not take note of,  *)
(* or closes over.                                                         *)
LEMMA UpNoted ==
    ASSUME SessionInv, NEW c \in Creates, NEW v, NEW went,
           up[c] # "idle", \A d \in Creates \ {c} : v[d] = up[d],
           v[c] # "idle", up[c] = "finished" => v[c] = "finished",
           \/ went = executed
           \/ went = executed \cup {c} /\ s.ended /\ up[c] # "finished"
    PROVE  Held(script.lane, Now, v, went, bill, stored)
<1> DEFINE o == op[c]
           l == script.lane[c]
<1>1. /\ Now \in Pair /\ Now.s = s /\ Now.op = op /\ op \in [Creates -> Ops]
      /\ Held(script.lane, Now, up, executed, bill, stored)
      /\ Core(script.lane, Now, up, executed, bill)
      /\ o \in Ops /\ OpHeld(c, l, o, up[c], executed, bill[c])
  BY NowIs DEF SessionInv
<1>2. o.sent
  BY <1>1 DEF OpHeld, AnswerHeld
<1>3. s.ended => o.ending # "none"
  BY <1>1, <1>2 DEF Held, AllEnded
<1> HIDE DEF o, l
<1>4. OpHeld(c, l, o, v[c], went, bill[c])
  <2>1. AnswerHeld(c, o, v[c], went)
    BY <1>1, <1>2, <1>3 DEF OpHeld, AnswerHeld
  <2>2. BillHeld(c, o, went, bill[c])
    BY <1>1, <1>2, <1>3 DEF OpHeld, AnswerHeld, BillHeld
  <2> QED
    BY <1>1, <2>1, <2>2 DEF OpHeld
<1>5. SameBut(c, up, executed, bill, v, went, bill)
  BY DEF SameBut
<1>6. SameStanding(o, o) /\ op = [op EXCEPT ![c] = o]
  BY <1>1 DEF SameStanding, o
<1>7. SameLanes(Now, Now) /\ WireHeld(Now) /\ (~Now.s.ended => Kept(Now, stored))
  BY <1>1 DEF SameLanes, Held, Core
<1>8. ~Now.s.ended => /\ o.ending # "none" => o.at \in {"await", "left"}
                      /\ o.sent /\ o.ending # "none" => v[c] = "finished"
                      /\ \A e \in Creates : Behind(script.lane, Now, e, c)
  BY <1>1 DEF Held, Flow, o
<1>9. Now.op = [Now.op EXCEPT ![c] = o] /\ SameStanding(Now.op[c], o)
      /\ OpHeld(c, script.lane[c], o, v[c], went, bill[c])
  BY <1>1, <1>4, <1>6 DEF o, l
<1> QED
  BY <1>1, <1>3, <1>5, <1>7, <1>8, <1>9, OneOpHeld

(* The operation a frame is attributed to.                                 *)
HeardAs(o, r, k, e, w) == [o EXCEPT !.response = r, !.started = k, !.ending = e, !.settle = w]
HeardWell(o, r, k, e, w) ==
    LET p == HeardAs(o, r, k, e, w)
    IN  /\ p \in Ops /\ p.response = r /\ p.started = k /\ p.ending = e /\ p.settle = w
        /\ p.at = o.at /\ p.admitted = o.admitted /\ p.sent = o.sent
        /\ p.prev = o.prev /\ p.frame = o.frame /\ p.lease = o.lease
LEMMA HeardOps ==
    ASSUME NEW o \in Ops, NEW r \in Creates \cup {NoCreate}, NEW k \in BOOLEAN,
           NEW e \in {"none", "terminal", "error"}, NEW w \in {"none", "publishing"}
    PROVE  HeardWell(o, r, k, e, w)
BY DEF HeardAs, Ops, HeardWell

(* What upstream may say of an operation, and what becomes of that one.    *)
Word(kind) ==
    IF kind = "error" THEN "error" ELSE IF kind = "terminal" THEN "terminal" ELSE "none"
Ending(kind) == IF kind \in {"terminal", "error"} THEN "publishing" ELSE "none"
Spoken(o, c, kind) ==
    IF kind = "error" THEN HeardAs(o, o.response, o.started, "error", "publishing")
    ELSE HeardAs(o, c, o.started \/ kind = "created", Word(kind), Ending(kind))
Frozen(kind, v) == kind \in {"terminal", "error"} => v = "finished"
SpokenWell(c, l, o, u, v, ran, went, b, kind) ==
    LET p == Spoken(o, c, kind)
    IN  /\ p \in Ops /\ OpHeld(c, l, p, v, went, b) /\ SameStanding(o, p)
        /\ p.sent /\ p.at = "left" /\ p.settle # "writing" /\ p.ending = Word(kind)
LEMMA SpokenOp ==
    ASSUME NEW c \in Creates, NEW l, NEW o \in Ops, NEW u, NEW v, NEW ran, NEW went, NEW b,
           NEW kind \in {"created", "metadata", "delta", "terminal", "error"},
           OpHeld(c, l, o, u, ran, b), o.sent, o.ending = "none", v # "idle",
           Frozen(kind, v), went = IF kind = "created" THEN ran \cup {c} ELSE ran
    PROVE  SpokenWell(c, l, o, u, v, ran, went, b, kind)
<1> DEFINE r == IF kind = "error" THEN o.response ELSE c
           k == IF kind = "error" THEN o.started ELSE o.started \/ kind = "created"
           p == Spoken(o, c, kind)
<1>1. r \in {NoCreate, c} /\ k \in BOOLEAN /\ (o.started => k) /\ (kind = "created" => k)
  BY DEF OpHeld, AnswerHeld, Ops
<1>2. p = HeardAs(o, r, k, Word(kind), Ending(kind))
  BY DEF Spoken, Word, Ending
<1>3. Word(kind) \in {"none", "terminal", "error"} /\ Ending(kind) \in {"none", "publishing"}
  BY DEF Word, Ending
<1> HIDE DEF r, k, p
<1>4. /\ p \in Ops /\ p.response = r /\ p.started = k /\ p.ending = Word(kind) /\ p.settle = Ending(kind)
      /\ p.at = o.at /\ p.admitted = o.admitted /\ p.sent = o.sent
      /\ p.frame = o.frame /\ p.lease = o.lease
  <2>1. HeardWell(o, r, k, Word(kind), Ending(kind))
    BY <1>1, <1>3, HeardOps
  <2> QED
    BY <1>2, <2>1 DEF HeardWell
<1>5. o.admitted /\ o.at = "left" /\ o.settle = "none" /\ b = <<>> /\ l \in Lanes
  BY DEF OpHeld, PlaceHeld, BillHeld
<1>6. Word(kind) # "none" <=> Ending(kind) # "none"
  BY DEF Word, Ending
<1>7. PlaceHeld(l, p)
  BY <1>4, <1>5, <1>6 DEF OpHeld, PlaceHeld
<1>8. AnswerHeld(c, p, v, went)
  <2>1. p.sent
    BY <1>4
  <2>2. p.ending \in {"terminal", "error"} => v = "finished"
    BY <1>4 DEF Frozen, Word
  <2>3. c \in went /\ ~p.started => p.ending \notin {"none", "error"}
    BY <1>1, <1>4 DEF OpHeld, AnswerHeld
  <2> QED
    BY <1>1, <1>4, <2>1, <2>2, <2>3 DEF AnswerHeld
<1>9. BillHeld(c, p, went, b)
  BY <1>5 DEF BillHeld
<1>10. SameStanding(o, p) /\ p.settle # "writing"
  BY <1>3, <1>4, <1>5 DEF SameStanding, Live
<1> QED
  BY <1>4, <1>5, <1>7, <1>8, <1>9, <1>10 DEF OpHeld, SpokenWell, p

LikeNow(t) ==
    /\ t \in Session /\ t.lanes = s.lanes /\ t.active = s.active /\ t.settling = s.settling
    /\ t.dispatched = s.dispatched /\ t.buffered = s.buffered /\ t.ended = s.ended /\ t.wire = s.wire
LEMMA WithIs ==
    ASSUME SessionInv, NEW c \in Creates, NEW p \in Ops, NEW t, LikeNow(t)
    PROVE  Moved(With(c, t, p), c, p) /\ With(c, t, p).s = t
<1> DEFINE f == [op EXCEPT ![c] = p]
           y == With(c, t, p)
<1>1. op \in [Creates -> Ops] /\ Now.s = s
  BY NowIs
<1>2. f \in [Creates -> Ops]
  BY <1>1
<1>3. y = [s |-> t, op |-> f]
  BY DEF With
<1> HIDE DEF f, y
<1>4. y \in Pair /\ y.s = t /\ y.op = f
  BY <1>2, <1>3 DEF Pair, LikeNow
<1> QED
  BY <1>1, <1>4 DEF LikeNow, Moved, SameLanes, y, f

LEMMA SpokenHeld ==
    ASSUME SessionInv, ~s.ended, NEW c \in Creates, op[c].sent, op[c].ending = "none",
           NEW kind \in {"created", "metadata", "delta", "terminal", "error"}, NEW v, NEW went,
           \A d \in Creates \ {c} : v[d] = up[d], v[c] # "idle", Frozen(kind, v[c]),
           went = IF kind = "created" THEN executed \cup {c} ELSE executed,
           NEW t, LikeNow(t)
    PROVE  Held(script.lane, With(c, t, Spoken(op[c], c, kind)), v, went, bill, stored)
<1> DEFINE o == op[c]
           l == script.lane[c]
           p == Spoken(o, c, kind)
           y == With(c, t, p)
           a == v[c]
           b == bill[c]
<1>1. /\ Now \in Pair /\ Now.s = s /\ Now.op = op /\ op \in [Creates -> Ops]
      /\ Held(script.lane, Now, up, executed, bill, stored)
      /\ o \in Ops /\ OpHeld(c, l, o, up[c], executed, b)
  BY NowIs DEF SessionInv
<1>2. /\ p \in Ops /\ OpHeld(c, l, p, a, went, b) /\ SameStanding(o, p)
      /\ p.sent /\ p.at = "left" /\ p.settle # "writing" /\ p.ending = Word(kind)
  <2>1. o.sent /\ o.ending = "none" /\ a # "idle" /\ Frozen(kind, a)
    OBVIOUS
  <2> HIDE DEF o, l, a, b
  <2>2. SpokenWell(c, l, o, up[c], a, executed, went, b, kind)
    BY <1>1, <2>1, SpokenOp
  <2> QED
    BY <2>2 DEF SpokenWell
<1>3. o.at = "left" /\ Live(o)
  BY <1>1 DEF OpHeld, PlaceHeld, Live
<1> HIDE DEF p
<1>4. Moved(y, c, p)
  BY <1>2, WithIs
<1> HIDE DEF y, o
<1>5. /\ y \in Pair /\ y.op = [Now.op EXCEPT ![c] = p] /\ SameLanes(Now, y)
      /\ y.s.ended = Now.s.ended /\ y.s.wire = s.wire /\ y.op[c] = p
      /\ \A d \in Creates \ {c} : y.op[d] = op[d]
  BY <1>1, <1>4 DEF Moved
<1>6. WireHeld(y) /\ Kept(y, stored)
  BY <1>1, <1>5 DEF Held, Core, WireHeld, Kept
<1>7. SameBut(c, up, executed, bill, v, went, bill)
  BY DEF SameBut
<1>8. \A e \in Creates : Behind(script.lane, y, e, c)
  <2> TAKE e \in Creates
  <2>1. Behind(script.lane, Now, e, c)
    BY <1>1 DEF Held, Flow
  <2> QED
    BY <1>1, <1>3, <1>5, <2>1 DEF Behind, o
<1>9. p.ending # "none" => v[c] = "finished"
  BY <1>2 DEF Word, Frozen
<1>10. SameStanding(Now.op[c], p) /\ OpHeld(c, script.lane[c], p, v[c], went, bill[c])
  BY <1>1, <1>2 DEF o
<1>11. Held(script.lane, y, v, went, bill, stored)
  BY <1>1, <1>2, <1>5, <1>6, <1>7, <1>8, <1>9, <1>10, OneOpHeld
<1> QED
  BY <1>11 DEF y, p, o

(* The two parts of a closed session.                                      *)
ShutAs(t, n) == [t EXCEPT !.ended = TRUE, !.lanes = [l \in Lanes |-> <<>>], !.buffered = t.buffered - n]
ShutOps(x) == [c \in Creates |-> ClosedOp(x, c)]
LEMMA ShutIs ==
    ASSUME NEW x, ~x.s.ended
    PROVE  Close(x) = [s |-> ShutAs(x.s, Cardinality(Waiting(x))), op |-> ShutOps(x)]
BY CloseIs DEF ShutAs, ShutOps

(* claim, publish and finish come to the same as finish and publish.       *)
LEMMA FinishPublished ==
    ASSUME SessionInv, ~s.ended, NEW c \in Creates, NEW p \in Ops, NEW t, LikeNow(t), NEW kind,
           p.settle = "none", p.admitted, p.ending # "none", Live(op[c])
    PROVE  Finish(Publish(With(c, t, p), c, kind), c, kind)
             = Publish(With(c, t, FinishOp(p, kind)), c, kind)
<1> DEFINE r == FinishOp(p, kind)
           x == With(c, t, p)
           z == With(c, t, r)
<1>1. r = [p EXCEPT !.settle = "publishing"]
  <2> DEFINE e == p.ending
  <2>1. r = [p EXCEPT !.ending = e, !.settle = "publishing"]
    BY DEF FinishOp
  <2>2. [p EXCEPT !.ending = e, !.settle = "publishing"] = [p EXCEPT !.settle = "publishing"]
    BY DEF Ops
  <2> QED
    BY <2>1, <2>2
<1>2. FinishOp(p, "closed") = r
  <2> DEFINE e == p.ending
  <2>1. FinishOp(p, "closed") = [p EXCEPT !.ending = e, !.settle = "publishing"]
    BY DEF FinishOp
  <2>2. [p EXCEPT !.ending = e, !.settle = "publishing"] = [p EXCEPT !.settle = "publishing"]
    BY DEF Ops
  <2> QED
    BY <2>1, <2>2, <1>1
<1> HIDE DEF r
<1>3. r \in Ops /\ r.settle = "publishing"
  BY <1>1 DEF Ops
<1>4. FinishOp(r, kind) = r /\ FinishOp(r, "closed") = r
  BY <1>3 DEF FinishOp
<1>5. /\ x.s = t /\ x \in Pair /\ x.op = [op EXCEPT ![c] = p] /\ op \in [Creates -> Ops]
      /\ z.s = t /\ z \in Pair /\ z.op = [op EXCEPT ![c] = r]
  <2>1. Moved(x, c, p) /\ x.s = t
    BY WithIs
  <2>2. Moved(z, c, r) /\ z.s = t
    BY <1>3, WithIs
  <2>3. op \in [Creates -> Ops]
    BY NowIs
  <2> HIDE DEF x, z
  <2> QED
    BY <2>1, <2>2, <2>3 DEF Moved
<1>6. x.op[c] = p /\ z.op[c] = r /\ \A d \in Creates \ {c} : z.op[d] = x.op[d]
  BY <1>5
<1> HIDE DEF x, z
<1>7. CASE Len(t.wire) >= BufferLimit
  <2>1. Publish(x, c, kind) = Close(x) /\ Publish(z, c, kind) = Close(z)
    BY <1>5, <1>7, PublishIs
  <2>2. ~x.s.ended /\ ~z.s.ended
    BY <1>5 DEF LikeNow
  <2> DEFINE k == ShutAs(t, Cardinality(Waiting(x)))
  <2>3. Waiting(x) = Waiting(z) /\ Doomed(x) = Doomed(z)
    BY <1>5 DEF Waiting, Doomed, Actives
  <2>4. Close(x) = [s |-> k, op |-> ShutOps(x)]
    BY <1>5, <2>2, ShutIs
  <2>5. Close(z) = [s |-> k, op |-> ShutOps(z)]
    BY <1>5, <2>2, <2>3, ShutIs
  <2>6. c \notin Waiting(x) /\ c \in Doomed(x)
    <3>1. /\ c \in Waiting(Now) => op[c].at = "queued"
          /\ c \in Actives(Now) /\ Now.s = s /\ OpHeld(c, script.lane[c], op[c], up[c], executed, bill[c])
      BY WaitingAre, NowIs
    <3>2. op[c].at # "queued"
      BY <3>1 DEF Live, OpHeld, PlaceHeld
    <3>3. Waiting(x) = Waiting(Now) /\ Actives(x) = Actives(Now)
      BY <1>5, <3>1 DEF LikeNow, Waiting, Actives
    <3> QED
      BY <3>1, <3>2, <3>3 DEF Doomed
  <2>7. ClosedOp(x, c) = r /\ ClosedOp(z, c) = r
    BY <1>2, <1>4, <1>6, <2>3, <2>6 DEF ClosedOp
  <2>8. \A d \in Creates : ClosedOp(x, d) = ClosedOp(z, d)
    <3> TAKE d \in Creates
    <3>1. CASE d = c
      BY <2>7, <3>1
    <3>2. CASE d # c
      BY <1>6, <2>3, <3>2 DEF ClosedOp
    <3> QED
      BY <3>1, <3>2
  <2> DEFINE f == ShutOps(x)
  <2>9. ShutOps(z) = f
    BY <2>8 DEF ShutOps
  <2>10. f[c] = r /\ [f EXCEPT ![c] = r] = f
    BY <2>7 DEF ShutOps
  <2> HIDE DEF f, k
  <2>11. Finish([s |-> k, op |-> f], c, kind) = [s |-> k, op |-> [f EXCEPT ![c] = FinishOp(f[c], kind)]]
    BY DEF Finish
  <2>12. Finish([s |-> k, op |-> f], c, kind) = [s |-> k, op |-> f]
    BY <1>4, <2>10, <2>11
  <2> QED
    BY <2>1, <2>4, <2>5, <2>9, <2>12 DEF f, x, z, r
<1>8. CASE ~(Len(t.wire) >= BufferLimit)
  <2> DEFINE w == Append(t.wire, FrameOf(c, kind))
             k == [t EXCEPT !.wire = w]
  <2>1. Publish(x, c, kind) = Rewired(x, w) /\ Publish(z, c, kind) = Rewired(z, w)
    BY <1>5, <1>8, PublishIs
  <2> HIDE DEF w
  <2>2. Rewired(x, w) = With(c, k, p) /\ Rewired(z, w) = With(c, k, r)
    BY <1>5 DEF Rewired, With
  <2> HIDE DEF k
  <2>3. Finish(With(c, k, p), c, kind) = With(c, k, r)
    BY FinishedIs DEF r
  <2> QED
    BY <2>1, <2>2, <2>3 DEF x, z, r
<1> QED
  BY <1>7, <1>8

(* The pairs that a frame of an operation passes through.                  *)
NamedAs(o, r, k) == [o EXCEPT !.response = r, !.started = k]
ClaimedAs(o, e) == [o EXCEPT !.ending = e]
Naming(x, c, r, h) == [x EXCEPT !.op[c].response = r, !.op[c].started = @ \/ h]
Claiming(x, c, e) == [x EXCEPT !.op[c].ending = e]
Marking(x, l, r) == [x EXCEPT !.s.terminals[l] = r]
Marked(t, l, r) == [t EXCEPT !.terminals[l] = r]
LEMMA AttributedForm ==
    ASSUME NEW x, NEW l, NEW kind, NEW r
    PROVE  LET c == x.s.dispatched[l]
               y == IF r = NoCreate THEN x ELSE Naming(x, c, r, kind = "created")
               z == IF kind = "terminal" THEN Marking(y, l, r) ELSE y
           IN  Attributed(x, l, kind, r)
                 = IF c = NoCreate THEN Publish(x, NoCreate, kind)
                   ELSE IF kind \in {"terminal", "error"}
                   THEN Finish(Publish(Claiming(z, c, kind), c, kind), c, kind)
                   ELSE Publish(z, c, kind)
BY Zenon DEF Attributed, Naming, Claiming, Marking

LEMMA WithEnding ==
    ASSUME SessionInv, NEW c \in Creates, NEW t, NEW p, NEW e
    PROVE  Claiming(With(c, t, p), c, e) = With(c, t, ClaimedAs(p, e))
<1> DEFINE f == [op EXCEPT ![c] = p]
           r == ClaimedAs(p, e)
<1>1. op \in [Creates -> Ops]
  BY NowIs
<1>2. f[c] = p /\ [f EXCEPT ![c] = r] = [op EXCEPT ![c] = r]
  <2> HIDE DEF r
  <2> QED
    BY <1>1
<1>3. [[s |-> t, op |-> f] EXCEPT !.op[c].ending = e] = [s |-> t, op |-> [f EXCEPT ![c] = ClaimedAs(f[c], e)]]
  <2> HIDE DEF f
  <2> QED
    BY DEF ClaimedAs
<1>4. [f EXCEPT ![c] = ClaimedAs(f[c], e)] = [op EXCEPT ![c] = r]
  <2> HIDE DEF f
  <2>1. ClaimedAs(f[c], e) = r
    BY <1>2
  <2> HIDE DEF r
  <2> QED
    BY <1>2, <2>1
<1> HIDE DEF r
<1> QED
  BY <1>3, <1>4 DEF With, Claiming, f, r

LEMMA WithTerminal ==
    ASSUME NEW c, NEW t, NEW p, NEW l, NEW r
    PROVE  Marking(With(c, t, p), l, r) = With(c, Marked(t, l, r), p)
<1> DEFINE f == [op EXCEPT ![c] = p]
<1> HIDE DEF f
<1>1. [[s |-> t, op |-> f] EXCEPT !.s.terminals[l] = r] = [s |-> [t EXCEPT !.terminals[l] = r], op |-> f]
  OBVIOUS
<1> QED
  BY <1>1 DEF With, Marking, Marked, f

LEMMA NowNamed ==
    ASSUME SessionInv, NEW c \in Creates, NEW r, NEW h \in BOOLEAN
    PROVE  /\ Now = With(c, s, op[c])
           /\ Naming(Now, c, r, h) = With(c, s, NamedAs(op[c], r, op[c].started \/ h))
<1> DEFINE o == op[c]
           k == o.started \/ h
           p == [o EXCEPT !.response = r]
           z == [Now EXCEPT !.op[c].response = r]
           w == [Now EXCEPT !.op[c].response = r, !.op[c].started = @ \/ h]
           g == [op EXCEPT ![c] = p]
<1>1. op \in [Creates -> Ops] /\ o \in Ops
  BY NowIs
<1>2. [op EXCEPT ![c] = o] = op
  BY <1>1
<1>3. Now = With(c, s, o)
  BY <1>2 DEF Now, With
<1>4. z = [s |-> s, op |-> g]
  BY DEF Now
<1>5. g[c] = p
  BY <1>1
<1>6. p.started = o.started
  BY <1>1 DEF Ops
<1>7. w = [z EXCEPT !.op[c].started = z.op[c].started \/ h]
  OBVIOUS
<1> HIDE DEF z, g, w, p
<1>8. z.op[c].started \/ h <=> k
  BY <1>4, <1>5, <1>6
<1> DEFINE m == z.op[c].started \/ h
<1>9. m \in BOOLEAN /\ k \in BOOLEAN /\ (m <=> k)
  BY <1>8
<1>10. w = [z EXCEPT !.op[c].started = m]
  BY <1>7
<1> HIDE DEF m, k
<1>11. w = [z EXCEPT !.op[c].started = k]
  <2>1. m = k
    BY <1>9
  <2> QED
    BY <1>10, <2>1
<1>12. w = [s |-> s, op |-> [g EXCEPT ![c] = [p EXCEPT !.started = k]]]
  BY <1>4, <1>5, <1>11
<1> DEFINE q == [p EXCEPT !.started = k]
<1>13. q = NamedAs(o, r, k)
  BY DEF p, NamedAs
<1>14. [g EXCEPT ![c] = q] = [op EXCEPT ![c] = q]
  <2> HIDE DEF q
  <2> QED
    BY <1>1 DEF g
<1>15. w = With(c, s, q)
  BY <1>12, <1>14 DEF With
<1> QED
  BY <1>3, <1>13, <1>15 DEF w, k, Naming

LEMMA AttributedIs ==
    ASSUME SessionInv, ~s.ended, NEW c \in Creates, op[c].sent, op[c].ending = "none",
           s.dispatched[LaneOf(c)] = c,
           NEW kind \in {"created", "metadata", "delta", "terminal", "error"}
    PROVE  \E t : /\ LikeNow(t)
                  /\ Attributed(Now, LaneOf(c), kind, IF kind = "error" THEN NoCreate ELSE c)
                       = Publish(With(c, t, Spoken(op[c], c, kind)), c, kind)
<1> DEFINE o == op[c]
           l == LaneOf(c)
           r == IF kind = "error" THEN NoCreate ELSE c
           h == kind = "created"
           k == o.started \/ h
           y == IF r = NoCreate THEN Now
                ELSE Naming(Now, c, r, kind = "created")
           z == IF kind = "terminal" THEN Marking(y, l, r) ELSE y
           t == IF kind = "terminal" THEN Marked(s, l, c) ELSE s
           n == IF kind = "error" THEN o ELSE NamedAs(o, c, k)
           e == ClaimedAs(n, kind)
           p == Spoken(o, c, kind)
<1>1. /\ o \in Ops /\ OpHeld(c, script.lane[c], o, up[c], executed, bill[c]) /\ s \in Session
      /\ Now.s = s /\ c # NoCreate
  BY NowIs, SessionAssumption
<1>2. o.admitted /\ o.at = "left" /\ o.settle = "none" /\ l \in Lanes /\ Live(o)
  <2>1. o.admitted /\ o.at = "left" /\ o.settle = "none" /\ script.lane[c] \in Lanes
    BY <1>1 DEF OpHeld, PlaceHeld
  <2> QED
    BY <2>1, LaneIs DEF Live
<1>3. LikeNow(t)
  <2>1. s.terminals \in [Lanes -> Creates \cup {NoCreate}]
    BY <1>1 DEF Session
  <2> DEFINE g == [s.terminals EXCEPT ![l] = c]
  <2>2. g \in [Lanes -> Creates \cup {NoCreate}]
    BY <2>1
  <2>3. t = s \/ t = [s EXCEPT !.terminals = g]
    BY DEF Marked
  <2> HIDE DEF t, g
  <2> QED
    BY <1>1, <2>2, <2>3 DEF LikeNow, Session
<1>4. h \in BOOLEAN /\ k \in BOOLEAN
  OBVIOUS
<1>5. y = With(c, s, n)
  <2>1. Now = With(c, s, o)
    BY NowNamed
  <2>2. Naming(Now, c, c, h) = With(c, s, NamedAs(o, c, k))
    <3> HIDE DEF h
    <3> QED
      BY <1>4, NowNamed DEF k
  <2>3. CASE kind = "error"
    BY <2>1, <2>3
  <2>4. CASE kind # "error"
    <3>1. y = Naming(Now, c, c, h)
      BY <1>1, <2>4
    <3> QED
      BY <2>2, <2>4, <3>1
  <2> QED
    BY <2>3, <2>4
<1>6. z = With(c, t, n)
  <2>1. CASE kind = "terminal"
    <3>1. z = Marking(y, l, c) /\ t = Marked(s, l, c)
      BY <2>1
    <3> HIDE DEF y, z, n, t
    <3>2. z = Marking(With(c, s, n), l, c)
      BY <1>5, <3>1
    <3> QED
      BY <3>1, <3>2, WithTerminal
  <2>2. CASE kind # "terminal"
    BY <1>5, <2>2
  <2> QED
    BY <2>1, <2>2
<1>7. Attributed(Now, l, kind, r)
        = IF kind \in {"terminal", "error"}
          THEN Finish(Publish(Claiming(z, c, kind), c, kind), c, kind)
          ELSE Publish(z, c, kind)
  <2>1. Now.s.dispatched[l] = c
    BY <1>1
  <2> HIDE DEF r, l
  <2> QED
    BY <1>1, <2>1, AttributedForm
<1> HIDE DEF y, z, t
<1>8. Claiming(z, c, kind) = With(c, t, e)
  <2>1. z = With(c, t, n)
    BY <1>6
  <2> HIDE DEF n
  <2> QED
    BY <2>1, WithEnding
<1>9. CASE kind \in {"terminal", "error"}
  <2>1. e \in Ops /\ e.settle = "none" /\ e.admitted /\ e.ending # "none" /\ FinishOp(e, kind) = p
    <3> HIDE DEF o, k
    <3>1. CASE kind = "error"
      <4> DEFINE m == ClaimedAs(o, "error")
      <4>1. m \in Ops /\ m.settle = "none" /\ m.admitted /\ m.ending = "error"
        BY <1>1, <1>2 DEF ClaimedAs, Ops
      <4>2. FinishOp(m, "error") = [m EXCEPT !.ending = "error", !.settle = "publishing"]
        BY <4>1 DEF FinishOp
      <4>3. [m EXCEPT !.ending = "error", !.settle = "publishing"] = HeardAs(o, o.response, o.started, "error", "publishing")
        BY <1>1 DEF ClaimedAs, HeardAs, Ops
      <4>4. e = m /\ p = HeardAs(o, o.response, o.started, "error", "publishing")
        BY <3>1 DEF Spoken
      <4> HIDE DEF m, e, p
      <4> QED
        BY <3>1, <4>1, <4>2, <4>3, <4>4
    <3>2. CASE kind = "terminal"
      <4> DEFINE m == ClaimedAs(NamedAs(o, c, k), "terminal")
      <4>1. m \in Ops /\ m.settle = "none" /\ m.admitted /\ m.ending = "terminal"
        BY <1>1, <1>2, <1>4 DEF ClaimedAs, NamedAs, Ops
      <4>2. FinishOp(m, "terminal") = [m EXCEPT !.ending = "terminal", !.settle = "publishing"]
        BY <4>1 DEF FinishOp
      <4>3. [m EXCEPT !.ending = "terminal", !.settle = "publishing"] = HeardAs(o, c, k, "terminal", "publishing")
        BY <1>1 DEF ClaimedAs, NamedAs, HeardAs, Ops
      <4>4. e = m /\ p = HeardAs(o, c, k, "terminal", "publishing")
        BY <3>2 DEF Spoken, Word, Ending, k, o
      <4> HIDE DEF m, e, p
      <4> QED
        BY <3>2, <4>1, <4>2, <4>3, <4>4
    <3> QED
      BY <1>9, <3>1, <3>2
  <2> HIDE DEF e, p, r
  <2>2. Finish(Publish(With(c, t, e), c, kind), c, kind) = Publish(With(c, t, FinishOp(e, kind)), c, kind)
    BY <1>2, <1>3, <2>1, FinishPublished
  <2>3. Attributed(Now, l, kind, r) = Publish(With(c, t, p), c, kind)
    BY <1>7, <1>8, <1>9, <2>1, <2>2
  <2> QED
    BY <1>3, <2>3 DEF r, p
<1>10. CASE kind \notin {"terminal", "error"}
  <2>1. n = p
    <3>1. p = HeardAs(o, c, k, "none", "none") /\ n = NamedAs(o, c, k)
      BY <1>10 DEF Spoken, Word, Ending
    <3> HIDE DEF o, k, n, p
    <3>2. HeardAs(o, c, k, "none", "none") = NamedAs(o, c, k)
      <4>1. o.ending = "none" /\ o.settle = "none"
        BY <1>2 DEF o
      <4> QED
        BY <1>1, <4>1 DEF HeardAs, NamedAs, Ops
    <3> QED
      BY <3>1, <3>2
  <2> HIDE DEF n, p, r
  <2>2. Attributed(Now, l, kind, r) = Publish(With(c, t, p), c, kind)
    BY <1>6, <1>7, <1>10, <2>1
  <2> QED
    BY <1>3, <2>2 DEF r, p
<1> QED
  BY <1>9, <1>10

LEMMA UpstreamKeeps == \A c \in Creates : SessionInv /\ Upstream(c) => SessionInv'
<1> SUFFICES ASSUME SessionInv, NEW c \in Creates, Upstream(c) PROVE SessionInv'
  OBVIOUS
<1> DEFINE o == op[c]
           l == LaneOf(c)
<1>1. PICK kind \in {"created", "metadata", "delta", "terminal", "error"} :
        /\ UpstreamMessage(l, kind, IF kind = "error" THEN NoCreate ELSE c)
        /\ CASE up[c] = "asked" -> kind \in {"created", "metadata", "error"}
             [] up[c] = "running" -> kind \in {"delta", "terminal", "error"}
             [] up[c] = "finished" -> kind \in {"delta", "terminal"} /\ late < MaxLate /\ ~script.calm
        /\ up' = [up EXCEPT ![c] = CASE kind = "created" -> "running"
                                     [] kind \in {"terminal", "error"} -> "finished"
                                     [] OTHER -> @]
        /\ executed' = IF kind = "created" THEN executed \cup {c} ELSE executed
        /\ late' = IF up[c] = "finished" THEN late + 1 ELSE late
  BY DEF Upstream
<1> DEFINE r == IF kind = "error" THEN NoCreate ELSE c
<1>2. up[c] # "idle" /\ UNCHANGED <<bill, stored, told>>
  BY DEF Upstream
<1>3. /\ Now \in Pair /\ Now.s = s /\ Now.op = op /\ s \in Session /\ op \in [Creates -> Ops]
      /\ Held(script.lane, Now, up, executed, bill, stored)
      /\ Core(script.lane, Now, up, executed, bill)
      /\ o \in Ops /\ OpHeld(c, script.lane[c], o, up[c], executed, bill[c]) /\ c # NoCreate
  BY NowIs, SessionAssumption DEF SessionInv
<1>4. /\ up \in [Creates -> {"idle", "asked", "running", "finished"}]
      /\ late \in 0..MaxLate /\ MaxLate \in Nat /\ executed \subseteq Creates
  BY SessionAssumption DEF SessionInv, OutsideHeld
<1>5. /\ kind = "created" => up[c] = "asked"
      /\ up[c] = "finished" => kind \in {"delta", "terminal"} /\ late < MaxLate
      /\ up[c] \in {"asked", "running", "finished"}
  BY <1>1, <1>2, <1>4
<1>6. /\ \A d \in Creates \ {c} : up'[d] = up[d]
      /\ up'[c] = IF kind = "created" THEN "running"
                  ELSE IF kind \in {"terminal", "error"} THEN "finished" ELSE up[c]
      /\ up' \in [Creates -> {"idle", "asked", "running", "finished"}]
  <2> DEFINE w == CASE kind = "created" -> "running"
                    [] kind \in {"terminal", "error"} -> "finished"
                    [] OTHER -> up[c]
  <2>1. w = IF kind = "created" THEN "running"
            ELSE IF kind \in {"terminal", "error"} THEN "finished" ELSE up[c]
    OBVIOUS
  <2>2. up' = [up EXCEPT ![c] = w]
    BY <1>1
  <2> HIDE DEF w
  <2>3. w \in {"idle", "asked", "running", "finished"}
    BY <1>4, <2>1
  <2> QED
    BY <1>4, <2>1, <2>2, <2>3
<1>7. OutsideHeld'
  <2>1. late' \in 0..MaxLate
    BY <1>1, <1>4, <1>5
  <2>2. executed' \subseteq Creates
    BY <1>1, <1>4
  <2> QED
    BY <1>2, <1>6, <2>1, <2>2 DEF SessionInv, OutsideHeld
<1>8. /\ o.sent /\ o.admitted /\ o.response \in {NoCreate, c} /\ script.lane[c] \in Lanes
      /\ l = script.lane[c] /\ (o.settle = "done" => o.ending # "none")
  <2>1. o.sent /\ o.admitted /\ o.response \in {NoCreate, c} /\ script.lane[c] \in Lanes
        /\ (o.settle = "done" => o.ending # "none")
    BY <1>2, <1>3 DEF OpHeld, PlaceHeld, AnswerHeld
  <2> QED
    BY <2>1, LaneIs
<1>9. o.settle # "done" => s.dispatched[l] = c
  BY <1>3, <1>8 DEF Core, LanesHeld
<1>10. ~s.ended /\ o.ending # "none" => up[c] = "finished"
  BY <1>8, RunningHas
<1>11. ~s.ended /\ kind = "created" => s.dispatched[l] = c /\ o.ending = "none"
  BY <1>5, <1>8, <1>9, <1>10
<1>12. up'[c] # "idle" /\ (up[c] = "finished" => up'[c] = "finished") /\ Frozen(kind, up'[c])
  BY <1>5, <1>6 DEF Frozen
<1>13. ASSUME kind = "created" => s.ended
       PROVE  Held(script.lane, Now, up', executed', bill, stored)
  <2> DEFINE v == up'
             went == executed'
  <2>1. went = executed \/ (went = executed \cup {c} /\ s.ended /\ up[c] # "finished")
    BY <1>1, <1>5, <1>13
  <2>2. /\ \A d \in Creates \ {c} : v[d] = up[d]
        /\ v[c] # "idle" /\ (up[c] = "finished" => v[c] = "finished")
    BY <1>6, <1>12
  <2> HIDE DEF v, went
  <2>3. Held(script.lane, Now, v, went, bill, stored)
    BY <1>2, <2>1, <2>2, UpNoted
  <2> QED
    BY <2>3 DEF v, went
<1>14. ASSUME kind = "created" => s.ended, NEW y \in {Now, Close(Now)}, Becomes(y) PROVE SessionInv'
  <2>1. Held(script.lane, y, up', executed', bill, stored)
    <3> DEFINE v == up'
               went == executed'
    <3>1. Held(script.lane, Now, v, went, bill, stored)
      BY <1>13, <1>14
    <3> HIDE DEF v, went
    <3>2. Held(script.lane, y, v, went, bill, stored)
      BY <1>14, <3>1, NoticeHeld
    <3> QED
      BY <3>2 DEF v, went
  <2>2. Held(script.lane, y, up', executed', bill', stored')
    BY <1>2, <2>1
  <2> QED
    BY <1>7, <1>14, <2>2, Became
<1>15. UNCHANGED <<script, s, op>> => Becomes(Now)
  BY <1>3 DEF Becomes
<1>16. \/ s.ended /\ UNCHANGED <<script, s, op>>
       \/ ~s.ended /\ Ignored(l, kind, r) /\ UNCHANGED <<script, s, op>>
       \/ ~s.ended /\ kind = "error" /\ Becomes(Close(Now))
       \/ ~s.ended /\ ~Ignored(l, kind, r) /\ Foreign(l, kind, r) /\ Becomes(Close(Now))
       \/ ~s.ended /\ ~Ignored(l, kind, r) /\ ~Foreign(l, kind, r) /\ Becomes(Attributed(Now, l, kind, r))
  BY <1>1 DEF UpstreamMessage
<1>17. CASE s.ended /\ UNCHANGED <<script, s, op>>
  BY <1>14, <1>15, <1>17
<1>18. CASE ~s.ended /\ Ignored(l, kind, r) /\ UNCHANGED <<script, s, op>>
  <2>1. kind # "created"
    BY <1>3, <1>11, <1>18 DEF Ignored
  <2> QED
    BY <1>14, <1>15, <1>18, <2>1
<1>19. CASE ~s.ended /\ kind = "error" /\ Becomes(Close(Now))
  BY <1>14, <1>19
<1>20. CASE ~s.ended /\ ~Ignored(l, kind, r) /\ Foreign(l, kind, r) /\ Becomes(Close(Now))
  <2>1. kind # "created"
    BY <1>3, <1>8, <1>11, <1>20 DEF Foreign
  <2> QED
    BY <1>14, <1>20, <2>1
<1>21. CASE ~s.ended /\ ~Ignored(l, kind, r) /\ ~Foreign(l, kind, r) /\ Becomes(Attributed(Now, l, kind, r))
  <2>1. s.dispatched[l] = c /\ o.ending = "none"
    <3>1. CASE o.settle # "done"
      BY <1>3, <1>9, <1>21, <3>1 DEF Ignored
    <3>2. CASE o.settle = "done"
      <4>1. o.ending # "none" /\ up[c] = "finished" /\ kind \in {"delta", "terminal"} /\ r = c
        BY <1>5, <1>8, <1>10, <1>21, <3>2
      <4> DEFINE d == s.dispatched[l]
      <4>2. d \in Creates \cup {NoCreate}
        BY <1>3, <1>8 DEF Session
      <4>3. d # NoCreate
        BY <1>3, <1>21, <4>1 DEF Foreign
      <4>4. d # c
        BY <1>3, <1>21, <4>1 DEF Ignored
      <4>5. op[d].response \in {NoCreate, d}
        BY <4>2, <4>3, NowIs DEF OpHeld, AnswerHeld
      <4> QED
        BY <1>3, <1>21, <4>1, <4>3, <4>4, <4>5 DEF Foreign
    <3> QED
      BY <3>1, <3>2
  <2> DEFINE v == up'
             went == executed'
             p == Spoken(o, c, kind)
  <2>2. PICK t : LikeNow(t) /\ Attributed(Now, l, kind, r) = Publish(With(c, t, p), c, kind)
    BY <1>8, <1>21, <2>1, AttributedIs
  <2>3. Held(script.lane, With(c, t, p), v, went, bill, stored)
    <3>1. /\ \A d \in Creates \ {c} : v[d] = up[d] 
          /\ v[c] # "idle" /\ Frozen(kind, v[c])
          /\ went = IF kind = "created" THEN executed \cup {c} ELSE executed
      BY <1>1, <1>6, <1>12
    <3> HIDE DEF v, went
    <3> QED
      BY <1>8, <1>21, <2>1, <2>2, <3>1, SpokenHeld
  <2>4. Held(script.lane, Publish(With(c, t, p), c, kind), v, went, bill, stored)
    <3> HIDE DEF v, went, p
    <3>1. c \in Creates \cup {NoCreate} /\ kind \in Kinds
      BY DEF Kinds
    <3> QED
      BY <1>3, <2>3, <3>1, PublishHeld
  <2>5. Held(script.lane, Attributed(Now, l, kind, r), up', executed', bill', stored')
    BY <1>2, <2>2, <2>4
  <2> QED
    BY <1>7, <1>21, <2>5, Became
<1> QED
  BY <1>16, <1>17, <1>18, <1>19, <1>20, <1>21

-----------------------------------------------------------------------------
(* The invariant of sessions, and what it says.                            *)
LEMMA NewSessionHeld == SessionInit => SessionInv
<1> SUFFICES ASSUME SessionInit PROVE SessionInv
  OBVIOUS
<1> DEFINE lane == script.lane
<1>1. script \in Scripts /\ executed = {} /\ late = 0 /\ stored = {} /\ told = {}
      /\ bill = [c \in Creates |-> <<>>] /\ up = [c \in Creates |-> "idle"]
      /\ op = [c \in Creates |-> NewOp]
  BY DEF SessionInit
<1>2. /\ s.lanes = [l \in Lanes |-> <<>>] /\ s.active = [l \in Lanes |-> NoCreate]
      /\ s.settling = <<>> /\ s.ended = FALSE /\ s.wire = <<>> /\ s.buffered = 0
  BY DEF SessionInit
<1>3. s \in Session
  <2> DEFINE e == [l \in Lanes |-> <<>>]
             n == [l \in Lanes |-> NoCreate]
  <2>1. e \in [Lanes -> Seq(Creates)] /\ n \in [Lanes -> Creates \cup {NoCreate}]
    OBVIOUS
  <2>2. s = [lanes |-> e, order |-> <<>>, active |-> n, settling |-> <<>>, dispatched |-> n,
             terminals |-> n, chain |-> <<>>, upstream |-> "none", ended |-> FALSE,
             wire |-> <<>>, buffered |-> 0, interrupts |-> {}, interruptCount |-> 0]
    BY DEF SessionInit
  <2>3. <<>> \in Seq(Lanes) /\ <<>> \in Seq(Creates) /\ <<>> \in Seq(Frames) /\ 0 \in 0..InterruptLimit
    BY SessionAssumption
  <2> HIDE DEF e, n
  <2> QED
    BY <2>1, <2>2, <2>3 DEF Session
<1>4. NewOp \in Ops
  BY DEF NewOp, Ops
<1>5. Now \in Pair /\ Now.s = s /\ Now.op = op
  BY <1>1, <1>3, <1>4 DEF Now, Pair
<1>6. \A c \in Creates : op[c] = NewOp /\ up[c] = "idle" /\ bill[c] = <<>>
  BY <1>1
<1>7. ASSUME NEW c \in Creates PROVE OpHeld(c, lane[c], op[c], up[c], executed, bill[c]) /\ ~Live(op[c])
                                     /\ ~op[c].frame /\ ~op[c].sent
                                     /\ op[c].settle = "none" /\ op[c].ending = "none"
  <2> DEFINE o == op[c]
  <2>1. o = NewOp
    BY <1>6
  <2>2. /\ o.at = "new" /\ ~o.admitted /\ ~o.sent /\ ~o.started /\ o.response = NoCreate
        /\ o.ending = "none" /\ o.settle = "none" /\ o.prev = NoCreate /\ ~o.frame /\ ~o.lease
    BY <2>1 DEF NewOp
  <2> HIDE DEF o
  <2>3. PlaceHeld(lane[c], o) /\ ~Live(o)
    BY <2>2 DEF PlaceHeld, Live
  <2>4. AnswerHeld(c, o, up[c], executed)
    BY <1>1, <1>6, <2>2 DEF AnswerHeld
  <2>5. BillHeld(c, o, executed, bill[c])
    BY <1>6, <2>2 DEF BillHeld
  <2> QED
    BY <2>2, <2>3, <2>4, <2>5 DEF OpHeld, o
<1> HIDE DEF lane
<1>8. QueuesHeld(lane, Now)
  BY <1>2, <1>5 DEF QueuesHeld
<1>9. LanesHeld(lane, Now)
  BY <1>2, <1>5, <1>7 DEF LanesHeld
<1>10. SettlingHeld(Now)
  BY <1>2, <1>5, <1>7 DEF SettlingHeld
<1>11. BytesCounted(Now)
  <2>1. {c \in Creates : Now.op[c].frame} = {}
    BY <1>5, <1>7
  <2>2. Actives(Now) = {}
    BY <1>2, <1>5 DEF Actives
  <2>3. Busy(Now) = 0
    BY <1>2, <1>5, <2>2, FS_EmptySet DEF Busy
  <2>4. Cardinality({}) = 0 /\ 0 <= ActiveLimit
    BY FS_EmptySet, SessionAssumption
  <2>5. Now.s.buffered = 0
    BY <1>2, <1>5
  <2> QED
    BY <2>1, <2>3, <2>4, <2>5 DEF BytesCounted
<1>12. WireHeld(Now) /\ Kept(Now, stored)
  BY <1>2, <1>5 DEF WireHeld, Kept
<1>13. Core(lane, Now, up, executed, bill)
  BY <1>5, <1>7, <1>8, <1>9, <1>10, <1>11, <1>12 DEF Core
<1>14. Flow(lane, Now, up, Creates)
  BY <1>5, <1>7 DEF Flow, Behind
<1>15. Held(lane, Now, up, executed, bill, stored)
  BY <1>2, <1>5, <1>12, <1>13, <1>14 DEF Held
<1>16. OutsideHeld
  <2>1. bill \in [Creates -> Seq({"free", "billed"})]
    BY <1>1
  <2> QED
    BY <1>1, <2>1, SessionAssumption DEF OutsideHeld
<1> QED
  BY <1>1, <1>15, <1>16 DEF SessionInv, lane

LEMMA SessionHolds == SessionSpec => []SessionInv
<1>1. SessionInit => SessionInv
  BY NewSessionHeld
<1>2. SessionInv /\ [SessionNext]_sessionVars => SessionInv'
  <2> SUFFICES ASSUME SessionInv, [SessionNext]_sessionVars PROVE SessionInv'
    OBVIOUS
  <2>1. CASE Disconnect
    BY <2>1, DisconnectKeeps
  <2>2. CASE Connected
    BY <2>2, ConnectedKeeps
  <2>3. CASE Wire
    <3>1. PICK i \in DOMAIN s.wire : Bind(i) \/ Deliver(i)
      BY <2>3 DEF Wire
    <3> QED
      BY <3>1, BindKeeps, DeliverKeeps
  <2>4. ASSUME NEW c \in Creates, Receive(c) PROVE SessionInv'
    BY <2>4, ReceiveKeeps
  <2>5. ASSUME NEW c \in Creates, Interrupt(c) PROVE SessionInv'
    BY <2>5, InterruptKeeps
  <2>6. ASSUME NEW c \in Creates, Upstream(c) PROVE SessionInv'
    BY <2>6, UpstreamKeeps
  <2>7. ASSUME NEW c \in Creates, InterruptAck(c) PROVE SessionInv'
    BY <2>7, InterruptAckKeeps
  <2>8. ASSUME NEW c \in Creates, Dispatch(c) PROVE SessionInv'
    BY <2>8, DispatchKeeps
  <2>9. ASSUME NEW c \in Creates, Admitted(c) PROVE SessionInv'
    BY <2>9, AdmittedKeeps
  <2>10. ASSUME NEW c \in Creates, AdmitFails(c) PROVE SessionInv'
    BY <2>10, AdmitFailsKeeps
  <2>11. ASSUME NEW c \in Creates, ConnectFails(c) PROVE SessionInv'
    BY <2>11, ConnectFailsKeeps
  <2>12. ASSUME NEW c \in Creates, ConnectReturns(c) PROVE SessionInv'
    BY <2>12, ConnectReturnsKeeps
  <2>13. ASSUME NEW c \in Creates, SendOperation(c) PROVE SessionInv'
    BY <2>13, SendOperationKeeps
  <2>14. ASSUME NEW c \in Creates, SettleStarts(c) PROVE SessionInv'
    BY <2>14, SettleStartsKeeps
  <2>15. ASSUME NEW c \in Creates, SettleEnds(c) PROVE SessionInv'
    BY <2>15, SettleEndsKeeps
  <2>16. ASSUME NEW c \in Creates, AwaitReturns(c) PROVE SessionInv'
    BY <2>16, AwaitReturnsKeeps
  <2>17. ASSUME NEW c \in Creates, Timeout(c) PROVE SessionInv'
    BY <2>17, TimeoutKeeps
  <2>18. CASE UNCHANGED sessionVars
    <3>1. script' = script /\ s' = s /\ op' = op /\ up' = up /\ executed' = executed /\ late' = late
          /\ bill' = bill /\ stored' = stored /\ told' = told
      BY <2>18 DEF sessionVars
    <3>2. Now' = Now
      BY <3>1 DEF Now
    <3> QED
      BY <3>1, <3>2 DEF SessionInv, OutsideHeld
  <2>19. CASE SessionNext
    <3>1. \/ Disconnect \/ Connected \/ Wire
          \/ \E c \in Creates :
               \/ Receive(c) \/ Interrupt(c) \/ Upstream(c) \/ InterruptAck(c) \/ Timeout(c)
               \/ Dispatch(c) \/ Admitted(c) \/ AdmitFails(c)
               \/ ConnectFails(c) \/ ConnectReturns(c) \/ SendOperation(c)
               \/ SettleStarts(c) \/ SettleEnds(c) \/ AwaitReturns(c)
      BY <2>19 DEF SessionNext, SessionStep
    <3> QED
      BY <2>1, <2>2, <2>3, <2>4, <2>5, <2>6, <2>7, <2>8, <2>9, <2>10, <2>11, <2>12, <2>13,
         <2>14, <2>15, <2>16, <2>17, <3>1
  <2> QED
    BY <2>18, <2>19
<1> QED
  BY <1>1, <1>2, PTL DEF SessionSpec

(* Each create is settled at most once and never sent for nothing, and the *)
(* bytes, slots and leases that are counted are those operations hold      *)
(* (ResponsesWebSocketSession.finish, retire, releaseFrame, schedule).     *)
THEOREM CreatesAreSettled == SessionSpec => []CreatesSettle
<1>1. SessionInv => CreatesSettle
  <2> SUFFICES ASSUME SessionInv PROVE CreatesSettle
    OBVIOUS
  <2>1. /\ Now \in Pair /\ Now.s = s /\ Now.op = op /\ s \in Session /\ op \in [Creates -> Ops]
        /\ Core(script.lane, Now, up, executed, bill)
        /\ \A c \in Creates : OpHeld(c, script.lane[c], op[c], up[c], executed, bill[c])
    BY NowIs
  <2>2. SettledOnce
    <3> SUFFICES ASSUME NEW c \in Creates
                 PROVE  Len(bill[c]) <= 1 /\ (bill[c] = <<"free">> => c \notin executed)
      BY DEF SettledOnce
    <3> DEFINE b == bill[c]
    <3>1. b \in {<<>>, <<"free">>, <<"billed">>} /\ (b = <<"free">> => c \notin executed)
      BY <2>1 DEF OpHeld, BillHeld
    <3>2. Len(<<>>) = 0 /\ Len(<<"free">>) = 1 /\ Len(<<"billed">>) = 1
      OBVIOUS
    <3> HIDE DEF b
    <3>4. Len(b) = 0 \/ Len(b) = 1
      <4>1. b = <<>> \/ b = <<"free">> \/ b = <<"billed">>
        BY <3>1
      <4>2. CASE b = <<>>
        BY <3>2, <4>2, Zenon
      <4>3. CASE b = <<"free">>
        BY <3>2, <4>3, Zenon
      <4>4. CASE b = <<"billed">>
        BY <3>2, <4>4, Zenon
      <4> QED
        BY <4>1, <4>2, <4>3, <4>4
    <3> DEFINE n == Len(b)
    <3>5. n = 0 \/ n = 1
      BY <3>4
    <3> HIDE DEF n
    <3>6. n <= 1
      BY <3>5
    <3>3. Len(b) <= 1
      BY <3>6 DEF n
    <3> QED
      BY <3>1, <3>3 DEF b
  <2>3. BuffersExact
    <3>1. s.buffered = Cardinality({c \in Creates : op[c].frame}) /\ Busy(Now) <= ActiveLimit
      BY <2>1 DEF Core, BytesCounted
    <3>2. \A c \in Creates : op[c].frame => op[c].lease
      BY <2>1 DEF OpHeld, PlaceHeld
    <3> QED
      BY <3>1, <3>2 DEF BuffersExact
  <2>4. s.buffered \in Nat
    <3>1. IsFiniteSet({c \in Creates : op[c].frame})
      BY SessionAssumption, FS_Subset
    <3> QED
      BY <2>3, <3>1, FS_CardinalityType DEF BuffersExact
  <2>5. SessionTypeOK
    <3>1. /\ s.lanes \in [Lanes -> Seq(Creates)] /\ s.order \in Seq(Lanes)
          /\ s.active \in [Lanes -> Creates \cup {NoCreate}]
          /\ s.dispatched \in [Lanes -> Creates \cup {NoCreate}]
          /\ s.terminals \in [Lanes -> Creates \cup {NoCreate}]
          /\ s.settling \in Seq(Creates) /\ s.chain \in Seq(Creates)
          /\ s.upstream \in {"none", "connecting", "open", "failed"} /\ s.ended \in BOOLEAN
          /\ s.wire \in Seq(Frames) /\ s.interrupts \subseteq Creates
          /\ s.interruptCount \in 0..InterruptLimit
      BY <2>1 DEF Session
    <3>2. /\ script \in Scripts /\ late \in 0..MaxLate
          /\ up \in [Creates -> {"idle", "asked", "running", "finished"}]
          /\ executed \cup stored \cup told \subseteq Creates
          /\ bill \in [Creates -> Seq({"free", "billed"})]
      BY DEF SessionInv, OutsideHeld
    <3> QED
      BY <2>1, <2>4, <3>1, <3>2 DEF SessionTypeOK
  <2> QED
    BY <2>2, <2>3, <2>5 DEF CreatesSettle
<1> QED
  BY <1>1, SessionHolds, PTL

(* A lane runs one turn at a time upstream, every frame belongs to the     *)
(* turn it names, and a client is told of an end only when it can continue *)
(* from it (ResponsesWebSocketSession.sendOperation, upstreamMessage,      *)
(* publish).                                                               *)
THEOREM LanesAreKept == SessionSpec => []LaneKept
<1>1. SessionInv => LaneKept
  <2> SUFFICES ASSUME SessionInv PROVE LaneKept
    OBVIOUS
  <2>1. /\ Now.s = s /\ Now.op = op /\ Core(script.lane, Now, up, executed, bill)
        /\ \A c \in Creates : OpHeld(c, script.lane[c], op[c], up[c], executed, bill[c])
    BY NowIs
  <2>2. NoOverlap
    <3> SUFFICES ASSUME NEW c \in Creates, NEW d \in Creates, c # d, LaneOf(c) = LaneOf(d),
                        op[c].sent, op[d].sent, op[c].settle # "done", op[d].settle # "done"
                 PROVE  FALSE
      BY DEF NoOverlap
    <3>1. s.dispatched[script.lane[c]] = c /\ s.dispatched[script.lane[d]] = d
      BY <2>1 DEF Core, LanesHeld
    <3> QED
      BY <3>1, LaneIs
  <2>3. OwnFrames
    BY <2>1 DEF OwnFrames, OpHeld, AnswerHeld
  <2>4. ToldIsStored
    BY DEF SessionInv, OutsideHeld, ToldIsStored
  <2> QED
    BY <2>2, <2>3, <2>4 DEF LaneKept
<1> QED
  BY <1>1, SessionHolds, PTL
=============================================================================
