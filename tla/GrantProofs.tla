--------------------------- MODULE GrantProofs ----------------------------
(***************************************************************************)
(* Theorems about grants.  The credential owners and their attachment      *)
(* index, for any number of grants, providers, generations and mishaps: a  *)
(* pool never exceeds its capacity, and the index never disagrees with its *)
(* owners in a way they cannot repair.  The feedback about a grant, for    *)
(* any number of isolates, quota windows, revisions and observations.      *)
(***************************************************************************)
EXTENDS GrantAttachments, GrantRuntime, FiniteSetTheorems, TLAPS

(***************************************************************************)
(* Entries of the index.  A row kept for a proposal remembers what it      *)
(* replaced, which was never an active row: Kept(r) is the row that stays  *)
(* if the proposal is put back.                                            *)
(***************************************************************************)
Kept(r) == IF r.status \notin Proposals THEN r
           ELSE IF r.previous = "none" THEN NoMember
           ELSE [status |-> r.previous, previous |-> "none"]

WellRow(r) ==
  /\ r \in Members \cup {NoMember}
  /\ r.previous \in IF r.status \in Proposals THEN {"none", "paused", "reauth_required"}
                    ELSE {"none"}

Well(e) == /\ e \in Entries
           /\ e.revision = 0 => ~Pending(e)
           /\ \A p \in Providers : WellRow(e.member[p])

Seating == {"legacy", "active", "pending"}

LEMMA KeptRow ==
  ASSUME NEW r, WellRow(r)
  PROVE  /\ WellRow(Kept(r)) /\ Kept(r).status \notin Proposals /\ Kept(Kept(r)) = Kept(r)
         /\ Kept(r).previous = "none" /\ (r.status \notin Proposals => Kept(r) = r)
         /\ Kept(r).status \in Seating => Kept(r) = r
  BY DEF WellRow, Kept, Members, NoMember, Proposals, RowStatuses, Seating

LEMMA RestoredEntry ==
  ASSUME NEW e, Well(e)
  PROVE  /\ Well(Restored(e)) /\ ~Pending(Restored(e))
         /\ Restored(e).generation = e.generation /\ Restored(e).revision = e.revision
         /\ Restored(e).shown = e.shown
         /\ \A p \in Providers : Restored(e).member[p] = Kept(e.member[p])
<1> DEFINE rows == [p \in Providers |-> Kept(e.member[p])]
<1>1. e \in Entries /\ \A p \in Providers : WellRow(e.member[p])
  BY DEF Well
<1>2. \A p \in Providers : WellRow(Kept(e.member[p])) /\ Kept(e.member[p]).status \notin Proposals
  BY <1>1, KeptRow
<1>3. Restored(e) = [e EXCEPT !.member = rows]
  BY <1>1 DEF Restored, Kept, Entries
<1>4. rows \in [Providers -> Members \cup {NoMember}]
  BY <1>2 DEF WellRow
<1>5. \A p \in Providers : rows[p] = Kept(e.member[p])
  OBVIOUS
<1> HIDE DEF rows
<1>6. /\ Restored(e) \in Entries /\ Restored(e).member = rows
      /\ Restored(e).generation = e.generation /\ Restored(e).revision = e.revision
      /\ Restored(e).shown = e.shown
  BY <1>1, <1>3, <1>4 DEF Entries
<1>7. ~Pending(Restored(e))
  BY <1>2, <1>5, <1>6 DEF Pending
<1> QED
  BY <1>2, <1>5, <1>6, <1>7 DEF Well

LEMMA AdmittedEntry ==
  ASSUME NEW e, Well(e), NEW q, q.provider \in Providers,
         q.status \in OwnerStatuses \ {"revoked"}
  PROVE  /\ Well(Admitted(e, q)) /\ Admitted(e, q).generation = e.generation
         /\ Admitted(e, q).revision = e.revision + 1 /\ Admitted(e, q).shown = e.shown
         /\ \A p \in Providers :
              /\ Kept(Admitted(e, q).member[p]) = Kept(e.member[p])
              /\ p # q.provider => Admitted(e, q).member[p] = e.member[p]
         /\ Admitted(e, q).member[q.provider] # NoMember
         /\ q.status = "active" => Admitted(e, q).member[q.provider].status \in Seating
         /\ ~(NeedsRow(e, q) /\ q.status = "active") =>
              (Admitted(e, q).member[q.provider].status \in Seating =>
                 e.member[q.provider].status \in Seating)
         /\ (e.member[q.provider].previous = "none"
               /\ e.member[q.provider].status \in {"none", "legacy"} \cup Proposals) =>
              (Admitted(e, q).member[q.provider].previous = "none"
               /\ Admitted(e, q).member[q.provider].status \in {"none", "legacy"} \cup Proposals)
<1> DEFINE m == e.member[q.provider]
           row == [status |-> IF q.status = "active" THEN "pending" ELSE "pending_inactive",
                   previous |-> IF m.status \in Proposals \cup {"none"} THEN m.previous
                                ELSE m.status]
           new == IF NeedsRow(e, q) THEN row ELSE m
           rows == [e.member EXCEPT ![q.provider] = new]
           g == [e EXCEPT !.member = rows]
           f == [g EXCEPT !.revision = e.revision + 1]
<1>1. e \in Entries /\ e.revision \in Nat /\ e.member \in [Providers -> Members \cup {NoMember}]
  BY DEF Well, Entries
<1>2. WellRow(m)
  BY DEF Well
<1>3. Admitted(e, q) = f
  BY <1>1 DEF Admitted, Entries
<1>4. ~NeedsRow(e, q) =>
        m # NoMember /\ (q.status = "active" => m.status \in Seating)
  BY DEF NeedsRow, Seating
<1>5. NeedsRow(e, q) =>
        m = NoMember \/ (q.status = "active" /\ m.status \notin Seating)
  BY DEF NeedsRow, Seating
<1>6. /\ WellRow(new) /\ Kept(new) = Kept(m) /\ new # NoMember
      /\ q.status = "active" => new.status \in Seating
      /\ ~(NeedsRow(e, q) /\ q.status = "active") => (new.status \in Seating => m.status \in Seating)
      /\ (m.previous = "none" /\ m.status \in {"none", "legacy"} \cup Proposals) =>
           (new.previous = "none" /\ new.status \in {"none", "legacy"} \cup Proposals)
  <2>1. CASE NeedsRow(e, q)
    BY <1>2, <1>5, <2>1 DEF WellRow, Kept, Members, NoMember, Proposals, RowStatuses, Seating,
      OwnerStatuses
  <2>2. CASE ~NeedsRow(e, q)
    BY <1>2, <1>4, <2>2
  <2> QED
    BY <2>1, <2>2
<1> HIDE DEF new, m
<1>0. /\ rows \in [Providers -> Members \cup {NoMember}] /\ rows[q.provider] = new
      /\ \A p \in Providers \ {q.provider} : rows[p] = e.member[p]
  BY <1>1, <1>6 DEF WellRow
<1> HIDE DEF rows
<1>7. /\ f \in Entries /\ f.generation = e.generation /\ f.revision = e.revision + 1
      /\ f.shown = e.shown /\ f.member[q.provider] = new
      /\ \A p \in Providers \ {q.provider} : f.member[p] = e.member[p]
  <2>1. /\ g \in Entries /\ g.generation = e.generation /\ g.shown = e.shown
        /\ g.member = rows /\ g.revision \in Nat
    BY <1>0, <1>1 DEF Entries
  <2> HIDE DEF g
  <2>2. /\ f \in Entries /\ f.generation = g.generation /\ f.shown = g.shown
        /\ f.member = g.member /\ f.revision = e.revision + 1
    BY <1>1, <2>1 DEF Entries
  <2> QED
    BY <1>0, <1>1, <2>1, <2>2
<1>8. m = e.member[q.provider]
  BY DEF m
<1> HIDE DEF f
<1>9. Well(f)
  BY <1>1, <1>6, <1>7 DEF Well
<1> QED
  BY <1>3, <1>6, <1>7, <1>8, <1>9

LEMMA PreparedEntry ==
  ASSUME NEW e, Well(e), NEW q
  PROVE  /\ Well(Prepared(e, q)) /\ Prepared(e, q).generation = e.generation
         /\ Prepared(e, q).revision = e.revision
         /\ \A p \in Providers :
              /\ Prepared(e, q).member[p] \in {e.member[p], Kept(e.member[p])}
              /\ WellRow(Prepared(e, q).member[p])
              /\ ~Pending(Prepared(e, q)) => Prepared(e, q).member[p] = Kept(e.member[p])
         /\ q.generation = e.generation => ~Pending(Prepared(e, q))
         /\ ~Returned(e, q) => Prepared(e, q) = e
<1>1. CASE Returned(e, q)
  BY <1>1, RestoredEntry DEF Prepared, Well
<1>2. CASE ~Returned(e, q)
  <2>1. Prepared(e, q) = e
    BY <1>2 DEF Prepared
  <2>2. \A p \in Providers : ~Pending(e) => Kept(e.member[p]) = e.member[p]
    BY KeptRow DEF Pending, Well
  <2>3. q.generation = e.generation => ~Pending(e)
    BY <1>2 DEF Returned
  <2> QED
    BY <2>1, <2>2, <2>3 DEF Well
<1> QED
  BY <1>1, <1>2

(* A publication of a known generation only puts proposals back; one of a  *)
(* new generation leaves the row of its owner and nothing else, where its  *)
(* pool has one.                                                           *)
Answers(q) == q.provider \in Providers /\ q.status \in OwnerStatuses /\ q.generation \in Nat

LEMMA PublishedAgain ==
  ASSUME NEW e, Well(e), NEW q, Answers(q), PublishAccepted(e, q),
         q.generation = e.generation
  PROVE  LET f == Published(e, q) IN
         /\ Well(f) /\ ~Pending(f) /\ f.generation = q.generation /\ f.shown = q.status
         /\ f.revision >= e.revision
         /\ \A p \in Providers : f.member[p] = Kept(e.member[p])
<1> DEFINE g == Prepared(e, q)
           n == IF Returned(e, q) THEN 1 ELSE 0
           h == [g EXCEPT !.revision = g.revision + n]
           f == [h EXCEPT !.shown = q.status]
<1>1. /\ Well(g) /\ ~Pending(g) /\ g.generation = e.generation /\ g.revision = e.revision
      /\ \A p \in Providers : g.member[p] = Kept(e.member[p])
  BY PreparedEntry
<1>2. Replay(e, q)
  BY <1>1 DEF Replay
<1>3. e.revision \in Nat /\ n \in {0, 1}
  BY DEF Well, Entries
<1>4. Published(e, q) = [g EXCEPT !.revision = @ + n, !.shown = q.status]
  BY <1>2 DEF Published
<1> HIDE DEF g, n
<1>5. /\ h \in Entries /\ h.generation = g.generation /\ h.shown = g.shown /\ h.member = g.member
      /\ h.revision = g.revision + n
  BY <1>1, <1>3 DEF Entries, Well
<1>6. Published(e, q) = f
  BY <1>1, <1>4 DEF Entries, Well
<1> HIDE DEF h
<1>7. /\ f \in Entries /\ f.generation = h.generation /\ f.shown = q.status /\ f.member = h.member
      /\ f.revision = h.revision
  BY <1>5 DEF Entries, Answers
<1> HIDE DEF f
<1>8. f.revision >= e.revision /\ ~Pending(f)
  BY <1>1, <1>3, <1>5, <1>7 DEF Pending
<1>9. Well(f)
  BY <1>1, <1>5, <1>7, <1>8 DEF Well
<1> QED
  BY <1>1, <1>5, <1>6, <1>7, <1>8, <1>9

LEMMA PublishedNew ==
  ASSUME NEW e, Well(e), NEW q, Answers(q), PublishAccepted(e, q),
         q.generation # e.generation
  PROVE  LET f == Published(e, q) g == Prepared(e, q) IN
         /\ Well(f) /\ ~Pending(f) /\ f.generation = q.generation /\ f.shown = q.status
         /\ f.revision = e.revision + 1
         /\ \A p \in Providers :
              \/ f.member[p] = NoMember
              \/ /\ q.status # "revoked" /\ g.member[q.provider] # NoMember
                 /\ p = q.provider /\ f.member[p] = [status |-> q.status, previous |-> "none"]
              \/ /\ q.status # "revoked" /\ g.member[q.provider] = NoMember
                 /\ f.member[p] = g.member[p] /\ g.member[p].status \notin Proposals
         /\ q.status # "revoked" /\ g.member[q.provider] # NoMember =>
              f.member[q.provider] = [status |-> q.status, previous |-> "none"]
         /\ q.status = "active" /\ g.member[q.provider] # NoMember =>
              g.member[q.provider].status \in Seating
<1> DEFINE g == Prepared(e, q)
           row == [status |-> q.status, previous |-> "none"]
           rows == [p \in Providers |->
             IF q.status = "revoked" THEN NoMember
             ELSE IF g.member[q.provider] # NoMember THEN IF p = q.provider THEN row ELSE NoMember
             ELSE IF g.member[p].status \in Proposals THEN NoMember ELSE g.member[p]]
           f == [generation |-> q.generation, revision |-> e.revision + 1,
                 member |-> rows, shown |-> q.status]
<1>1. ~Replay(e, q)
  BY DEF Replay
<1>2. Published(e, q) = f
  BY <1>1 DEF Published
<1>3. q.status = "active" /\ g.member[q.provider] # NoMember => g.member[q.provider].status \in Seating
  BY <1>1 DEF PublishAccepted, Seating
<1>4. Well(g) /\ \A p \in Providers : WellRow(g.member[p])
  BY PreparedEntry
<1> HIDE DEF g
<1>5. WellRow(NoMember) /\ NoMember.status \notin Proposals
  BY DEF WellRow, NoMember, Members, Proposals, RowStatuses
<1>6. q.status # "revoked" => WellRow(row) /\ row.status \notin Proposals
  BY DEF WellRow, Members, Proposals, RowStatuses, Answers, OwnerStatuses
<1>7. \A p \in Providers : WellRow(rows[p]) /\ rows[p].status \notin Proposals
  BY <1>4, <1>5, <1>6
<1>8. \A p \in Providers :
              \/ rows[p] = NoMember
              \/ /\ q.status # "revoked" /\ g.member[q.provider] # NoMember
                 /\ p = q.provider /\ rows[p] = row
              \/ /\ q.status # "revoked" /\ g.member[q.provider] = NoMember
                 /\ rows[p] = g.member[p] /\ g.member[p].status \notin Proposals
  OBVIOUS
<1>9. q.status # "revoked" /\ g.member[q.provider] # NoMember => rows[q.provider] = row
  BY DEF Answers
<1>10. rows \in [Providers -> Members \cup {NoMember}]
  BY <1>7 DEF WellRow
<1> HIDE DEF rows
<1>11. /\ f \in Entries /\ f.generation = q.generation /\ f.revision = e.revision + 1
       /\ f.member = rows /\ f.shown = q.status /\ f.revision # 0
  BY <1>10 DEF Entries, Answers, Well
<1> HIDE DEF f
<1>12. ~Pending(f)
  BY <1>7, <1>11 DEF Pending
<1>13. Well(f)
  BY <1>7, <1>11, <1>12 DEF Well
<1> QED
  BY <1>2, <1>3, <1>8, <1>9, <1>11, <1>12, <1>13 DEF g

(***************************************************************************)
(* A call to the authority changes the entry of its key as the operators   *)
(* above say, and only an admission that finds a seat takes one.           *)
(***************************************************************************)
CallTyped(m) ==
  /\ m.key \in GrantKeys /\ m.kind \in {"publish", "cancel", "admit"} /\ m.revision \in Nat
  /\ m.kind \in {"publish", "admit"} => Answers(m)
  /\ m.kind = "admit" => m.status # "revoked"

LEMMA CancelledEntry ==
  ASSUME NEW e, Well(e)
  PROVE  LET f == Cancelled(e) IN
         /\ Well(f) /\ f.generation = e.generation /\ f.shown = e.shown
         /\ f.revision >= e.revision /\ (f # e => ~Pending(f) /\ f.revision > e.revision)
         /\ \A p \in Providers : f.member[p] \in {e.member[p], Kept(e.member[p])}
<1> DEFINE g == Restored(e)
           f == [g EXCEPT !.revision = g.revision + 1]
<1>1. /\ Well(g) /\ ~Pending(g) /\ g.generation = e.generation /\ g.shown = e.shown
      /\ g.revision = e.revision /\ \A p \in Providers : g.member[p] = Kept(e.member[p])
  BY RestoredEntry
<1>2. e.revision \in Nat
  BY DEF Well, Entries
<1>3. Cancelled(e) = e \/ Cancelled(e) = f
  BY DEF Cancelled
<1> HIDE DEF g
<1>4. /\ f \in Entries /\ f.generation = g.generation /\ f.shown = g.shown /\ f.member = g.member
      /\ f.revision = e.revision + 1
  BY <1>1, <1>2 DEF Entries, Well
<1> HIDE DEF f
<1>5. ~Pending(f) /\ Well(f)
  BY <1>1, <1>2, <1>4 DEF Pending, Well
<1> QED
  BY <1>1, <1>2, <1>3, <1>4, <1>5

LEMMA CallApplies ==
  ASSUME \A k \in GrantKeys : Well(index[k]), NEW m, CallTyped(m), Accepted(m)
  PROVE  /\ Well(Applied(m)) /\ Applied(m).revision >= index[m.key].revision
         /\ m.revision = index[m.key].revision
<1> DEFINE e == index[m.key]
<1>1. Well(e) /\ e.revision \in Nat
  BY DEF CallTyped, Well, Entries
<1>2. CASE m.kind = "publish"
  <2>1. PublishAccepted(e, m) /\ Applied(m) = Published(e, m) /\ Answers(m)
    BY <1>2 DEF Accepted, Applied, CallTyped
  <2>2. CASE m.generation = e.generation
    BY <1>1, <2>1, <2>2, PublishedAgain DEF PublishAccepted, CurrentFor
  <2>3. CASE m.generation # e.generation
    <3>1. /\ Well(Published(e, m)) /\ Published(e, m).revision = e.revision + 1
      BY <1>1, <2>1, <2>3, PublishedNew
    <3> QED
      BY <1>1, <2>1, <3>1 DEF PublishAccepted, CurrentFor
  <2> QED
    BY <2>2, <2>3
<1>3. CASE m.kind = "cancel"
  <2>1. m.revision = e.revision /\ Applied(m) = Cancelled(e)
    BY <1>3 DEF Accepted, Applied, CancelAccepted
  <2> QED
    BY <1>1, <2>1, CancelledEntry
<1>4. CASE m.kind = "admit"
  <2>1. m.revision = e.revision /\ Applied(m) = Admitted(e, m) /\ Answers(m) /\ m.status # "revoked"
    BY <1>4 DEF Accepted, Applied, AdmitAccepted, CurrentFor, CallTyped
  <2>2. Well(Admitted(e, m)) /\ Admitted(e, m).revision = e.revision + 1
    BY <1>1, <2>1, AdmittedEntry DEF Answers
  <2> QED
    BY <1>1, <2>1, <2>2
<1> QED
  BY <1>2, <1>3, <1>4 DEF CallTyped

Seat(e, p) == e.member[p].status \in Seating
Taken(m, p) == /\ m.kind = "admit" /\ p = m.provider
               /\ NeedsRow(index[m.key], m) /\ m.status = "active"

LEMMA CallSeats ==
  ASSUME \A k \in GrantKeys : Well(index[k]), NEW m, CallTyped(m), Accepted(m),
         NEW p \in Providers, Seat(Applied(m), p), ~Taken(m, p)
  PROVE  Seat(index[m.key], p)
<1> DEFINE e == index[m.key]
<1>1. Well(e) /\ WellRow(e.member[p])
  BY DEF CallTyped, Well
<1>2. Kept(e.member[p]).status \in Seating => Seat(e, p)
  BY <1>1, KeptRow DEF Seat
<1>0. NoMember.status \notin Seating
  BY DEF NoMember, Seating
<1>3. CASE m.kind = "publish"
  <2>1. PublishAccepted(e, m) /\ Applied(m) = Published(e, m) /\ Answers(m)
    BY <1>3 DEF Accepted, Applied, CallTyped
  <2>2. CASE m.generation = e.generation
    BY <1>1, <1>2, <2>1, <2>2, PublishedAgain DEF Seat
  <2>3. CASE m.generation # e.generation
    <3> DEFINE f == Published(e, m) g == Prepared(e, m)
    <3>1. Seat(g, p) => Seat(e, p)
      BY <1>1, <1>2, PreparedEntry DEF Seat
    <3>2. /\ \/ f.member[p] = NoMember
             \/ /\ g.member[m.provider] # NoMember
                /\ p = m.provider /\ f.member[p] = [status |-> m.status, previous |-> "none"]
             \/ f.member[p] = g.member[p]
          /\ m.status = "active" /\ g.member[m.provider] # NoMember =>
               g.member[m.provider].status \in Seating
      BY <1>1, <2>1, <2>3, PublishedNew
    <3> HIDE DEF f, g
    <3>3. Seat(f, p)
      BY <2>1 DEF f
    <3>4. m.status \in Seating => m.status = "active"
      BY <2>1 DEF Answers, OwnerStatuses, Seating
    <3> QED
      BY <1>0, <3>1, <3>2, <3>3, <3>4 DEF Seat
  <2> QED
    BY <2>2, <2>3
<1>4. CASE m.kind = "cancel"
  BY <1>1, <1>2, <1>4, CancelledEntry DEF Applied, Seat
<1>5. CASE m.kind = "admit"
  <2>1. Applied(m) = Admitted(e, m) /\ Answers(m) /\ m.status # "revoked"
    BY <1>5 DEF Applied, CallTyped
  <2>2. CASE p = m.provider
    BY <1>1, <1>5, <2>1, <2>2, AdmittedEntry DEF Seat, Answers, Taken
  <2>3. CASE p # m.provider
    BY <1>1, <2>1, <2>3, AdmittedEntry DEF Seat, Answers
  <2> QED
    BY <2>2, <2>3
<1> QED
  BY <1>3, <1>4, <1>5 DEF CallTyped

LEMMA CallKeepsCapacity ==
  ASSUME \A k \in GrantKeys : Well(index[k]), CapacityKept, NEW m, CallTyped(m), Accepted(m),
         NEW entries, entries = [index EXCEPT ![m.key] = Applied(m)],
         index = [k \in GrantKeys |-> index[k]]
  PROVE  \A p \in Providers : Cardinality(Seats(entries, p)) <= Capacity
<1> TAKE p \in Providers
<1> DEFINE old == Seats(index, p)
           new == Seats(entries, p)
<1>1. /\ old \subseteq GrantKeys /\ new \subseteq GrantKeys
      /\ \A k \in GrantKeys : k \in old <=> Seat(index[k], p)
      /\ \A k \in GrantKeys : k \in new <=> Seat(entries[k], p)
  BY DEF Seats, Seat, Seating
<1>2. /\ \A k \in GrantKeys \ {m.key} : entries[k] = index[k]
      /\ m.key \in GrantKeys /\ entries[m.key] = Applied(m)
  BY DEF CallTyped
<1>3. /\ IsFiniteSet(old) /\ Cardinality(old) \in Nat /\ Cardinality(old) <= Capacity
      /\ Capacity \in Nat /\ IsFiniteSet(new) /\ Cardinality(new) \in Nat
  BY <1>1, IndexType, FS_Subset, FS_CardinalityType DEF CapacityKept
<1> HIDE DEF old, new
<1>4. CASE ~Taken(m, p)
  <2>1. new \subseteq old
    BY <1>1, <1>2, <1>4, CallSeats
  <2> QED
    BY <1>3, <2>1, FS_Subset DEF new
<1>5. CASE Taken(m, p)
  <2>1. SeatFree(index, p)
    BY <1>5 DEF Taken, Accepted, AdmitAccepted
  <2>2. Cardinality(old) < Capacity
    BY <2>1 DEF SeatFree, old
  <2>3. new \subseteq old \cup {m.key}
    BY <1>1, <1>2
  <2>4. /\ IsFiniteSet(old \cup {m.key})
        /\ Cardinality(old \cup {m.key}) \in {Cardinality(old), Cardinality(old) + 1}
    BY <1>3, FS_AddElement
  <2>5. Cardinality(new) <= Cardinality(old \cup {m.key})
    BY <2>3, <2>4, FS_Subset
  <2> QED
    BY <1>3, <2>2, <2>4, <2>5 DEF new
<1> QED
  BY <1>4, <1>5

(***************************************************************************)
(* The inductive invariant, for each key on its own: its owner o, its      *)
(* entry e, its KV record v, the handler w at the head of its tail and the *)
(* calls that are still on their way.                                      *)
(*                                                                         *)
(* Matches: an entry of the generation of its owner shows what the owner   *)
(* is.  Followed: an entry behind its owner has, proposals put back, rows  *)
(* the publication of the owner may take over.  Proposed: the owner was    *)
(* committed for the proposal the entry holds, and no call on its way can  *)
(* withdraw it.                                                            *)
(***************************************************************************)
Matches(e, o) ==
  /\ e.shown = StatusOf(o)
  /\ \A p \in Providers :
       \/ Kept(e.member[p]) = NoMember /\ (o.revoked \/ p # o.provider \/ o.receipt = 0)
       \/ ~o.revoked /\ p = o.provider /\ Kept(e.member[p]).status = StatusOf(o)

Followed(e, o) ==
  /\ \A p \in Providers \ {o.provider} : Kept(e.member[p]) = NoMember
  /\ Kept(e.member[o.provider]) = NoMember => o.receipt = 0
  /\ StatusOf(o) = "active" =>
       Kept(e.member[o.provider]).status \in {"none", "active", "legacy"}
  /\ o.receipt = e.revision => ~Pending(e)

Seated(e, p, status) ==
  e.member[p] # NoMember /\ (status = "active" => e.member[p].status \in Seating)

Proposed(k, o, e, lates) ==
  /\ o.receipt = e.revision /\ e.revision > 0
  /\ Seated(e, o.provider, StatusOf(o))
  /\ \A m \in lates : m.key = k /\ m.revision = e.revision =>
       m.kind # "cancel" /\ m.generation = o.generation

Record(o) == [generation |-> o.generation, status |-> StatusOf(o)]

OwnerFits(k, o, e, v, lates) ==
  /\ o.receipt <= e.revision
  /\ k \notin Probed =>
       /\ e.generation = o.generation => Matches(e, o) /\ o.receipt < e.revision
       /\ e.generation < o.generation /\ ~o.revoked => Followed(e, o) \/ Proposed(k, o, e, lates)
       /\ ~o.dirty => e.generation = o.generation /\ v = Record(o)

(* Until an owner is committed the entry holds legacy rows and proposals.  *)
UnownedRow(r) == r.previous = "none" /\ r.status \in {"none", "legacy"} \cup Proposals

EntryFits(k, o, e, v, lates) ==
  /\ Well(e) /\ o \in Owners \cup {NoOwner} /\ v \in Shown
  /\ e.generation <= o.generation
  /\ IF o # NoOwner THEN OwnerFits(k, o, e, v, lates)
     ELSE \A p \in Providers : UnownedRow(e.member[p])

Fenced(k, e, lates) == \A m \in lates : m.key = k => m.revision < e.revision

DraftStatus(d) == StatusOf([enabled |-> d.enabled, reauth |-> d.reauth, revoked |-> FALSE])

Mutating == {"put", "replace", "install"}
AfterCall == {"use", "kv", "clean"}

WorkFits(k, w, o, e, v, lates) ==
  /\ w \in Works /\ w.seen.revision <= e.revision
  /\ w.goal \in {"use", "sync", "install"} \/ w.at \in AfterCall => o # NoOwner
  /\ w.goal \in Mutating => o.generation < MaxGrantGen /\ w.draft \in Drafts
  /\ w.goal = "replace" => o = NoOwner /\ (w.at # "read" => w.seen.generation = 0)
  /\ w.at \in {"admit", "commit"} => w.goal \in Mutating
  /\ w.at = "read" => w.goal # "none"
  /\ w.at = "call" => w.goal \in {"put", "use", "reconcile", "sync"}
  /\ w.at \in AfterCall /\ k \notin Probed => e.generation = o.generation
  /\ w.at = "clean" => v = Record(o)
  /\ w.at = "commit" =>
       /\ w.seen.revision = e.revision /\ e.revision > 0 /\ e.generation = o.generation
       /\ Fenced(k, e, lates) /\ Seated(e, w.draft.provider, DraftStatus(w.draft))

CallFits(m, o, e) ==
  /\ CallTyped(m) /\ m.revision <= e.revision
  /\ m.kind = "publish" =>
       /\ o # NoOwner /\ m.receipt \in Nat /\ m.generation \in 1..o.generation
       /\ m.key \notin Probed =>
            /\ m.generation = o.generation =>
                 m.provider = o.provider /\ m.status = StatusOf(o) /\ m.receipt = o.receipt
            /\ m.generation < o.generation /\ ~o.revoked =>
                 m.generation <= e.generation \/ m.revision < e.revision

KeyHeld(k) ==
  /\ EntryFits(k, owner[k], index[k], kv[k], late)
  /\ WorkFits(k, work[k], owner[k], index[k], kv[k], late)

AttachInv == /\ AttachTypeOK
             /\ \A k \in GrantKeys : KeyHeld(k)
             /\ \A m \in late : CallFits(m, owner[m.key], index[m.key])

-----------------------------------------------------------------------------
(* What a call does to the entry of its key.                               *)
LEMMA StatusRange ==
  ASSUME NEW o
  PROVE  /\ StatusOf(o) \in OwnerStatuses /\ (o \in Owners => (o.revoked <=> StatusOf(o) = "revoked"))
  BY DEF StatusOf, OwnerStatuses, Owners

LEMMA OwnerTyped ==
  ASSUME NEW o \in Owners \cup {NoOwner}
  PROVE  /\ o.generation \in Nat
         /\ o = NoOwner <=> o.generation = 0
         /\ o # NoOwner => o \in Owners /\ o.generation \in 1..MaxGrantGen /\ o.receipt \in Nat
                           /\ o.provider \in Providers
  BY AttachmentsType DEF Owners, NoOwner

LEMMA LaterCalls ==
  ASSUME NEW m, NEW o, NEW e, NEW f, CallFits(m, o, e), e \in Entries, f \in Entries,
         f.revision >= e.revision, f.generation >= e.generation,
         o # NoOwner => o.generation \in Nat
  PROVE  CallFits(m, o, f)
<1>1. /\ m.revision \in Nat /\ e.revision \in Nat /\ f.revision \in Nat
      /\ e.generation \in Nat /\ f.generation \in Nat
  BY DEF CallFits, CallTyped, Entries
<1>2. m.kind = "publish" => m.generation \in Nat
  BY DEF CallFits
<1> QED
  BY <1>1, <1>2 DEF CallFits

(* Putting proposals back keeps what the rows were before them.            *)
LEMMA KeptEntry ==
  ASSUME NEW e, Well(e), NEW f, NEW p \in Providers,
         f.member[p] \in {e.member[p], Kept(e.member[p])}
  PROVE  /\ Kept(f.member[p]) = Kept(e.member[p])
         /\ UnownedRow(e.member[p]) => UnownedRow(f.member[p])
<1>1. WellRow(e.member[p])
  BY DEF Well
<1>2. Kept(Kept(e.member[p])) = Kept(e.member[p])
  BY <1>1, KeptRow
<1>3. UnownedRow(e.member[p]) => UnownedRow(Kept(e.member[p]))
  BY DEF UnownedRow, Kept, NoMember
<1> QED
  BY <1>2, <1>3

(* An entry of the same generation whose rows, proposals put back, are the *)
(* same fits as before.                                                    *)
LEMMA SameRows ==
  ASSUME NEW k, NEW o, NEW e, NEW v, NEW lates, EntryFits(k, o, e, v, lates),
         NEW f, Well(f), f.generation = e.generation, f.revision >= e.revision,
         f.shown = e.shown \/ (o # NoOwner /\ (e.generation = o.generation => f.shown = StatusOf(o))),
         \A p \in Providers : Kept(f.member[p]) = Kept(e.member[p]),
         o = NoOwner => \A p \in Providers : UnownedRow(f.member[p]),
         ~Pending(f) \/ f.revision > e.revision,
         k \notin Probed /\ o # NoOwner /\ e.generation < o.generation /\ ~o.revoked =>
           ~Proposed(k, o, e, lates)
  PROVE  EntryFits(k, o, f, v, lates)
<1>1. /\ e.revision \in Nat /\ f.revision \in Nat /\ e.generation \in Nat
      /\ o \in Owners \cup {NoOwner} /\ v \in Shown /\ e.generation <= o.generation
  BY DEF EntryFits, Well, Entries
<1>2. CASE o = NoOwner
  BY <1>1, <1>2 DEF EntryFits
<1>3. CASE o # NoOwner
  <2>1. o \in Owners /\ o.receipt \in Nat /\ o.provider \in Providers /\ OwnerFits(k, o, e, v, lates)
    BY <1>1, <1>3, OwnerTyped DEF EntryFits
  <2>2. o.receipt <= f.revision
    BY <1>1, <2>1 DEF OwnerFits
  <2>3. ASSUME k \notin Probed
        PROVE  /\ f.generation = o.generation => Matches(f, o) /\ o.receipt < f.revision
               /\ f.generation < o.generation /\ ~o.revoked => Followed(f, o)
               /\ ~o.dirty => f.generation = o.generation /\ v = Record(o)
    <3>1. ASSUME f.generation = o.generation PROVE Matches(f, o) /\ o.receipt < f.revision
      <4>1. Matches(e, o) /\ o.receipt < e.revision
        BY <2>1, <2>3, <3>1 DEF OwnerFits
      <4> QED
        BY <1>1, <1>3, <2>1, <3>1, <4>1 DEF Matches
    <3>2. ASSUME f.generation < o.generation, ~o.revoked PROVE Followed(f, o)
      <4>1. Followed(e, o) /\ o.receipt <= e.revision
        BY <1>3, <2>1, <2>3, <3>2 DEF OwnerFits
      <4>2. o.receipt = f.revision => ~Pending(f)
        BY <1>1, <2>1, <4>1
      <4> QED
        BY <2>1, <4>1, <4>2 DEF Followed
    <3> QED
      BY <2>1, <2>3, <3>1, <3>2 DEF OwnerFits
  <2> QED
    BY <1>1, <1>3, <2>2, <2>3 DEF EntryFits, OwnerFits
<1> QED
  BY <1>2, <1>3

(* The publication of a new generation by its owner makes the entry match. *)
LEMMA PublishMatches ==
  ASSUME NEW k \in GrantKeys \ Probed, NEW o \in Owners, NEW e, Well(e), NEW v, NEW lates,
         OwnerFits(k, o, e, v, lates), e.generation < o.generation,
         NEW m, m.provider = o.provider, m.status = StatusOf(o), m.receipt = o.receipt,
         m.generation = o.generation, Answers(m), PublishAccepted(e, m)
  PROVE  Matches(Published(e, m), o)
<1> DEFINE f == Published(e, m) g == Prepared(e, m)
<1>1. /\ f.shown = m.status
      /\ \A p \in Providers :
              \/ f.member[p] = NoMember
              \/ /\ m.status # "revoked" /\ g.member[m.provider] # NoMember
                 /\ p = m.provider /\ f.member[p] = [status |-> m.status, previous |-> "none"]
              \/ /\ m.status # "revoked" /\ g.member[m.provider] = NoMember
                 /\ f.member[p] = g.member[p] /\ g.member[p].status \notin Proposals
      /\ m.status # "revoked" /\ g.member[m.provider] # NoMember =>
           f.member[m.provider] = [status |-> m.status, previous |-> "none"]
      /\ Well(f) /\ ~Pending(f)
  <2>1. m.generation # e.generation
    BY OwnerTyped DEF Well, Entries
  <2> QED
    BY <2>1, PublishedNew
<1>2. \A p \in Providers : Kept(f.member[p]) = f.member[p]
  BY <1>1 DEF Kept, Pending
<1>3. CASE o.revoked
  BY <1>1, <1>2, <1>3, StatusRange DEF Matches
<1>4. CASE ~o.revoked
  <2>1. m.status # "revoked" /\ m.status = StatusOf(o) /\ o.provider \in Providers
    BY <1>4, StatusRange DEF Owners
  <2>2. CASE g.member[o.provider] # NoMember
    <3>1. f.member[o.provider].status = StatusOf(o)
      BY <1>1, <2>1, <2>2
    <3>2. \A p \in Providers \ {o.provider} : f.member[p] = NoMember
      BY <1>1, <2>2
    <3> QED
      BY <1>1, <1>2, <1>4, <2>1, <3>1, <3>2 DEF Matches
  <2>3. CASE g.member[o.provider] = NoMember
    <3>1. CASE Proposed(k, o, e, lates)
      <4>1. ~Returned(e, m)
        BY <3>1, OwnerTyped DEF Proposed, Returned, Well, Entries
      <4> QED
        BY <2>3, <3>1, <4>1, PreparedEntry DEF Proposed, Seated
    <3>2. CASE Followed(e, o)
      <4>1. ~Pending(g)
        <5>1. CASE Returned(e, m)
          BY <5>1, RestoredEntry DEF Prepared
        <5>2. CASE ~Returned(e, m)
          BY <3>2, <5>2 DEF Prepared, Returned, Followed
        <5> QED
          BY <5>1, <5>2
      <4>2. \A p \in Providers : g.member[p] = Kept(e.member[p])
        BY <4>1, PreparedEntry
      <4>3. o.receipt = 0 /\ \A p \in Providers \ {o.provider} : g.member[p] = NoMember
        BY <2>1, <2>3, <3>2, <4>2 DEF Followed
      <4>4. \A p \in Providers : f.member[p] = NoMember
        BY <1>1, <2>3, <4>3
      <4> QED
        BY <1>1, <1>2, <4>3, <4>4 DEF Matches
    <3> QED
      BY <1>4, <3>1, <3>2 DEF OwnerFits
  <2> QED
    BY <2>2, <2>3
<1> QED
  BY <1>3, <1>4

LEMMA PublishFits ==
  ASSUME NEW k \in GrantKeys, NEW o, NEW e, NEW v, NEW lates, EntryFits(k, o, e, v, lates),
         NEW m, m.key = k, CallFits(m, o, e), m.kind = "publish", PublishAccepted(e, m),
         o # NoOwner /\ Proposed(k, o, e, lates) => m.generation = o.generation
  PROVE  /\ EntryFits(k, o, Published(e, m), v, lates)
         /\ Published(e, m).revision >= e.revision
         /\ Published(e, m).generation = m.generation /\ m.generation >= e.generation
<1> DEFINE f == Published(e, m)
<1>1. /\ Well(e) /\ e.revision \in Nat /\ e.generation \in Nat /\ o \in Owners /\ o # NoOwner
      /\ o.receipt \in Nat /\ o.generation \in Nat /\ v \in Shown /\ o.provider \in Providers
      /\ OwnerFits(k, o, e, v, lates) /\ e.generation <= o.generation
  BY OwnerTyped DEF EntryFits, CallFits, Well, Entries
<1>2. /\ Answers(m) /\ m.generation \in Nat /\ m.revision = e.revision
      /\ m.generation >= e.generation /\ m.generation <= o.generation
  BY <1>1 DEF CallFits, CallTyped, PublishAccepted, CurrentFor
<1>3. CASE m.generation = e.generation
  <2>1. /\ Well(f) /\ ~Pending(f) /\ f.generation = m.generation /\ f.shown = m.status
        /\ f.revision >= e.revision
        /\ \A p \in Providers : f.member[p] = Kept(e.member[p])
    BY <1>1, <1>2, <1>3, PublishedAgain
  <2> HIDE DEF f
  <2>2. \A p \in Providers : Kept(f.member[p]) = Kept(e.member[p])
    BY <1>1, <2>1, KeptEntry
  <2>3. CASE k \in Probed
    BY <1>1, <1>2, <1>3, <2>1, <2>3 DEF EntryFits, OwnerFits, f, Well, Entries
  <2>4. CASE k \notin Probed
    <3>1. e.generation = o.generation => f.shown = StatusOf(o)
      BY <1>3, <2>1, <2>4 DEF CallFits
    <3>2. e.generation < o.generation => ~Proposed(k, o, e, lates)
      BY <1>1, <1>3
    <3>3. EntryFits(k, o, f, v, lates)
      BY <1>1, <1>3, <2>1, <2>2, <3>1, <3>2, SameRows
    <3> QED
      BY <1>2, <2>1, <3>3 DEF f
  <2> QED
    BY <2>3, <2>4
<1>4. CASE m.generation # e.generation
  <2>1. /\ Well(f) /\ f.generation = m.generation /\ f.revision = e.revision + 1
    BY <1>1, <1>2, <1>4, PublishedNew, ZenonT(60)
  <2>2. CASE k \in Probed
    BY <1>1, <1>2, <2>1, <2>2 DEF EntryFits, OwnerFits
  <2>3. CASE k \notin Probed
    <3>1. CASE m.generation = o.generation
      <4>1. m.provider = o.provider /\ m.status = StatusOf(o) /\ m.receipt = o.receipt
        BY <2>3, <3>1 DEF CallFits
      <4>2. Matches(f, o)
        BY <1>1, <1>2, <1>4, <2>3, <3>1, <4>1, PublishMatches
      <4>3. o.receipt <= f.revision /\ o.receipt < f.revision
        BY <1>1, <2>1 DEF OwnerFits
      <4>4. ~o.dirty => v = Record(o)
        BY <1>1, <2>3 DEF OwnerFits
      <4> HIDE DEF f
      <4>5. OwnerFits(k, o, f, v, lates)
        BY <1>1, <2>1, <3>1, <4>2, <4>3, <4>4 DEF OwnerFits
      <4>6. EntryFits(k, o, f, v, lates)
        BY <1>1, <2>1, <3>1, <4>5 DEF EntryFits
      <4> QED
        BY <1>1, <1>2, <2>1, <4>6 DEF f
    <3>2. CASE m.generation # o.generation
      <4>1. o.revoked
        BY <1>1, <1>2, <1>4, <2>3, <3>2 DEF CallFits
      <4>2. o.dirty
        BY <1>1, <1>2, <1>4, <2>3, <3>2 DEF OwnerFits, Owners
      <4> HIDE DEF f
      <4>3. OwnerFits(k, o, f, v, lates)
        BY <1>1, <1>2, <2>1, <3>2, <4>1, <4>2 DEF OwnerFits
      <4>4. EntryFits(k, o, f, v, lates)
        BY <1>1, <1>2, <2>1, <4>3 DEF EntryFits
      <4> QED
        BY <1>1, <1>2, <2>1, <4>4 DEF f
    <3> QED
      BY <3>1, <3>2
  <2> QED
    BY <2>2, <2>3
<1> QED
  BY <1>3, <1>4

LEMMA CancelFits ==
  ASSUME NEW k \in GrantKeys, NEW o, NEW e, NEW v, NEW lates, EntryFits(k, o, e, v, lates),
         o # NoOwner => ~Proposed(k, o, e, lates)
  PROVE  /\ EntryFits(k, o, Cancelled(e), v, lates) /\ Cancelled(e).revision >= e.revision
         /\ Cancelled(e).generation = e.generation
<1> DEFINE f == Cancelled(e)
<1>1. /\ Well(f) /\ f.generation = e.generation /\ f.shown = e.shown
      /\ f.revision >= e.revision /\ (f # e => ~Pending(f) /\ f.revision > e.revision)
      /\ \A p \in Providers : f.member[p] \in {e.member[p], Kept(e.member[p])}
  BY CancelledEntry DEF EntryFits
<1> HIDE DEF f
<1>2. \A p \in Providers : /\ Kept(f.member[p]) = Kept(e.member[p])
                           /\ UnownedRow(e.member[p]) => UnownedRow(f.member[p])
  BY <1>1, KeptEntry DEF EntryFits
<1>3. EntryFits(k, o, f, v, lates)
  <2>1. CASE f = e
    BY <2>1
  <2>2. CASE f # e
    <3>1. o = NoOwner => \A p \in Providers : UnownedRow(f.member[p])
      BY <1>2 DEF EntryFits
    <3> QED
      BY <1>1, <1>2, <2>2, <3>1, SameRows
  <2> QED
    BY <2>1, <2>2
<1> QED
  BY <1>1, <1>3 DEF f

LEMMA AdmitFits ==
  ASSUME NEW k \in GrantKeys, NEW o, NEW e, NEW v, NEW lates, EntryFits(k, o, e, v, lates),
         NEW m, Answers(m), m.status # "revoked", m.generation = e.generation,
         o # NoOwner /\ Proposed(k, o, e, lates) => m.generation = o.generation
  PROVE  /\ EntryFits(k, o, Admitted(e, m), v, lates)
         /\ Admitted(e, m).revision = e.revision + 1
         /\ Admitted(e, m).generation = e.generation
         /\ Seated(Admitted(e, m), m.provider, m.status)
<1> DEFINE f == Admitted(e, m)
<1>0. Well(e) /\ e.revision \in Nat /\ e.generation \in Nat /\ o.generation \in Nat
  BY OwnerTyped DEF EntryFits, Well, Entries
<1>1. m.provider \in Providers /\ m.status \in OwnerStatuses \ {"revoked"}
  BY DEF Answers
<1>2. /\ Well(f) /\ f.generation = e.generation /\ f.revision = e.revision + 1
      /\ f.shown = e.shown
      /\ \A p \in Providers : /\ Kept(f.member[p]) = Kept(e.member[p])
                              /\ p # m.provider => f.member[p] = e.member[p]
      /\ f.member[m.provider] # NoMember
      /\ m.status = "active" => f.member[m.provider].status \in Seating
      /\ UnownedRow(e.member[m.provider]) => UnownedRow(f.member[m.provider])
  BY <1>0, <1>1, AdmittedEntry DEF UnownedRow
<1> HIDE DEF f
<1>3. o = NoOwner => \A p \in Providers : UnownedRow(f.member[p])
  BY <1>1, <1>2 DEF EntryFits
<1>4. EntryFits(k, o, f, v, lates)
  BY <1>0, <1>2, <1>3, SameRows
<1> QED
  BY <1>2, <1>4 DEF f, Seated

-----------------------------------------------------------------------------
(* A step is about one key: nothing of another key depends on what it      *)
(* changes.                                                                *)
LEMMA OtherKey ==
  ASSUME NEW j, NEW o, NEW e, NEW v, NEW w, NEW lates, NEW more,
         EntryFits(j, o, e, v, lates), \A m \in more : m.key = j => m \in lates
  PROVE  /\ EntryFits(j, o, e, v, more)
         /\ WorkFits(j, w, o, e, v, lates) => WorkFits(j, w, o, e, v, more)
<1>1. Proposed(j, o, e, lates) => Proposed(j, o, e, more)
  BY DEF Proposed
<1>2. Fenced(j, e, lates) => Fenced(j, e, more)
  BY DEF Fenced
<1>3. OwnerFits(j, o, e, v, lates) => OwnerFits(j, o, e, v, more)
  BY <1>1 DEF OwnerFits
<1>4. EntryFits(j, o, e, v, more)
  BY <1>3 DEF EntryFits
<1>5. WorkFits(j, w, o, e, v, lates) => WorkFits(j, w, o, e, v, more)
  BY <1>2 DEF WorkFits
<1> QED
  BY <1>4, <1>5

LEMMA OneKey ==
  ASSUME AttachInv, NEW k \in GrantKeys, NEW o, NEW e, NEW v, NEW w,
         owner' = [owner EXCEPT ![k] = o], index' = [index EXCEPT ![k] = e],
         kv' = [kv EXCEPT ![k] = v], work' = [work EXCEPT ![k] = w],
         mishaps' \in 0..MaxMishaps,
         EntryFits(k, o, e, v, late'), WorkFits(k, w, o, e, v, late'),
         \A m \in late' : IF m.key = k THEN CallFits(m, o, e) ELSE m \in late
  PROVE  AttachInv'
<1> PICK lates : lates = late'
  OBVIOUS
<1>1. /\ owner \in [GrantKeys -> Owners \cup {NoOwner}] /\ index \in [GrantKeys -> Entries]
      /\ kv \in [GrantKeys -> Shown] /\ work \in [GrantKeys -> Works]
  BY DEF AttachInv, AttachTypeOK
<1>2. o \in Owners \cup {NoOwner} /\ e \in Entries /\ v \in Shown /\ w \in Works
  BY DEF EntryFits, WorkFits, Well
<1>3. /\ owner' \in [GrantKeys -> Owners \cup {NoOwner}] /\ index' \in [GrantKeys -> Entries]
      /\ kv' \in [GrantKeys -> Shown] /\ work' \in [GrantKeys -> Works]
  BY <1>1, <1>2
<1>4. /\ owner'[k] = o /\ index'[k] = e /\ kv'[k] = v /\ work'[k] = w
      /\ \A j \in GrantKeys \ {k} : /\ owner'[j] = owner[j] /\ index'[j] = index[j]
                                    /\ kv'[j] = kv[j] /\ work'[j] = work[j]
  BY <1>1
<1>5. \A m \in lates : CallFits(m, owner'[m.key], index'[m.key]) /\ m.key \in GrantKeys
  <2> SUFFICES ASSUME NEW m \in lates
               PROVE  CallFits(m, owner'[m.key], index'[m.key]) /\ m.key \in GrantKeys
    OBVIOUS
  <2>1. CASE m.key = k
    BY <1>4, <2>1
  <2>2. CASE m.key # k
    <3>1. m \in late
      BY <2>2
    <3>2. m.key \in GrantKeys /\ CallFits(m, owner[m.key], index[m.key])
      BY <3>1 DEF AttachInv, AttachTypeOK
    <3> QED
      BY <1>4, <2>2, <3>2
  <2> QED
    BY <2>1, <2>2
<1>6. \A j \in GrantKeys : KeyHeld(j)'
  <2> SUFFICES ASSUME NEW j \in GrantKeys
               PROVE  /\ EntryFits(j, owner'[j], index'[j], kv'[j], lates)
                      /\ WorkFits(j, work'[j], owner'[j], index'[j], kv'[j], lates)
    BY DEF KeyHeld
  <2>1. CASE j = k
    BY <1>4, <2>1
  <2>2. CASE j # k
    <3>1. \A m \in lates : m.key = j => m \in late
      BY <2>2
    <3>2. /\ EntryFits(j, owner[j], index[j], kv[j], late)
          /\ WorkFits(j, work[j], owner[j], index[j], kv[j], late)
      BY DEF AttachInv, KeyHeld
    <3>3. /\ EntryFits(j, owner[j], index[j], kv[j], lates)
          /\ WorkFits(j, work[j], owner[j], index[j], kv[j], lates)
      BY <3>1, <3>2, OtherKey
    <3> QED
      BY <1>4, <2>2, <3>3
  <2> QED
    BY <2>1, <2>2
<1>7. AttachTypeOK'
  BY <1>3, <1>5 DEF AttachTypeOK, CallFits, CallTyped
<1> QED
  BY <1>5, <1>6, <1>7 DEF AttachInv

LEMMA Same ==
  ASSUME AttachInv, NEW k \in GrantKeys
  PROVE  /\ owner = [owner EXCEPT ![k] = owner[k]] /\ index = [index EXCEPT ![k] = index[k]]
         /\ kv = [kv EXCEPT ![k] = kv[k]] /\ work = [work EXCEPT ![k] = work[k]]
         /\ mishaps \in 0..MaxMishaps
  BY DEF AttachInv, AttachTypeOK

(* What the invariant says of one key.                                     *)
LEMMA ThisKey ==
  ASSUME AttachInv, NEW k \in GrantKeys
  PROVE  /\ EntryFits(k, owner[k], index[k], kv[k], late) /\ Well(index[k])
         /\ WorkFits(k, work[k], owner[k], index[k], kv[k], late)
         /\ \A m \in late : m.key = k => CallFits(m, owner[k], index[k])
         /\ owner[k] \in Owners \cup {NoOwner} /\ index[k] \in Entries /\ kv[k] \in Shown
         /\ work[k] \in Works
  BY DEF AttachInv, AttachTypeOK, KeyHeld, EntryFits

(* A step of the handler that leaves its owner, the indexes and the calls  *)
(* on their way alone.                                                     *)
LEMMA OnlyWork ==
  ASSUME AttachInv, NEW k \in GrantKeys, NEW w, work' = [work EXCEPT ![k] = w],
         UNCHANGED <<owner, index, kv, late, mishaps>>,
         WorkFits(k, w, owner[k], index[k], kv[k], late)
  PROVE  AttachInv'
<1>1. /\ owner' = [owner EXCEPT ![k] = owner[k]] /\ index' = [index EXCEPT ![k] = index[k]]
      /\ kv' = [kv EXCEPT ![k] = kv[k]] /\ mishaps' \in 0..MaxMishaps /\ late' = late
  BY Same
<1>2. /\ EntryFits(k, owner[k], index[k], kv[k], late')
      /\ WorkFits(k, w, owner[k], index[k], kv[k], late')
      /\ \A m \in late' : IF m.key = k THEN CallFits(m, owner[k], index[k]) ELSE m \in late
  BY <1>1, ThisKey
<1> QED
  BY <1>1, <1>2, OneKey

LEMMA WorkRecord ==
  ASSUME NEW at, NEW goal, NEW seen, NEW draft
  PROVE  /\ Work(at, goal, seen, draft).at = at /\ Work(at, goal, seen, draft).goal = goal
         /\ Work(at, goal, seen, draft).seen = seen /\ Work(at, goal, seen, draft).draft = draft
  BY DEF Work

LEMMA SnapshotTyped ==
  /\ NoWork.seen \in Snapshots /\ NoWork.seen.revision = 0 /\ NoWork \in Works
  /\ NoWork.at = "idle" /\ NoWork.goal = "none"
  /\ \A e \in Entries : Snapshot(e) \in Snapshots /\ Snapshot(e).revision = e.revision
                        /\ Snapshot(e).generation = e.generation
<1>1. \A e \in Entries : Snapshot(e) \in Snapshots /\ Snapshot(e).revision = e.revision
                         /\ Snapshot(e).generation = e.generation
  BY DEF Snapshot, Snapshots, Entries, Pending, Attached
<1>2. Blank \in Entries /\ Blank.revision = 0
  BY DEF Blank, Entries, NoMember, OwnerStatuses
<1>3. /\ NoWork.seen = Snapshot(Blank) /\ NoWork.at = "idle" /\ NoWork.goal = "none"
      /\ NoWork.draft = NoDraft
  BY DEF NoWork, Work
<1>4. NoWork \in Works
  BY <1>1, <1>2, <1>3 DEF NoWork, Work, Works
<1> QED
  BY <1>1, <1>2, <1>3, <1>4

LEMMA IdleFits ==
  ASSUME NEW k, NEW o, NEW e \in Entries, NEW v, NEW lates
  PROVE  WorkFits(k, NoWork, o, e, v, lates)
  BY SnapshotTyped DEF WorkFits, Entries, AfterCall, Mutating

(* A handler that begins with the read of the index.                       *)
LEMMA ReadFits ==
  ASSUME NEW k, NEW o, NEW e \in Entries, NEW v, NEW lates, NEW seen \in Snapshots,
         seen.revision <= e.revision, NEW draft \in Drafts \cup {NoDraft},
         NEW goal \in Mutating \cup {"use", "reconcile", "sync"},
         goal \in {"use", "sync", "install"} => o # NoOwner,
         goal \in Mutating => o.generation < MaxGrantGen /\ draft \in Drafts,
         goal = "replace" => o = NoOwner
  PROVE  WorkFits(k, Work("read", goal, seen, draft), o, e, v, lates)
<1> DEFINE w == Work("read", goal, seen, draft)
<1>1. /\ w.at = "read" /\ w.goal = goal /\ w.seen = seen /\ w.draft = draft
  BY DEF Work
<1>2. w \in Works
  BY DEF Work, Works, Mutating
<1> HIDE DEF w
<1>0. goal # "none"
  BY DEF Mutating
<1>3. WorkFits(k, w, o, e, v, lates)
  BY <1>0, <1>1, <1>2 DEF WorkFits, AfterCall
<1> QED
  BY <1>3 DEF w

(* publishProjection                                                       *)
LEMMA SyncFits ==
  ASSUME NEW k, NEW o, NEW e \in Entries, NEW v, NEW lates, NEW seen \in Snapshots,
         seen.revision <= e.revision, o # NoOwner, NEW dirty \in BOOLEAN,
         dirty \/ k \in Probed \/ e.generation = o.generation
  PROVE  WorkFits(k, Work(IF dirty THEN "read" ELSE "kv", "sync", seen, NoDraft), o, e, v, lates)
<1>1. CASE dirty
  BY <1>1, ReadFits DEF Mutating
<1>2. CASE ~dirty
  <2> DEFINE w == Work("kv", "sync", seen, NoDraft)
  <2>1. w.at = "kv" /\ w.goal = "sync" /\ w.seen = seen /\ w \in Works
    BY DEF Work, Works
  <2> HIDE DEF w
  <2>2. WorkFits(k, w, o, e, v, lates)
    BY <1>2, <2>1 DEF WorkFits, AfterCall, Mutating
  <2> QED
    BY <1>2, <2>2 DEF w
<1> QED
  BY <1>1, <1>2

LEMMA PutGrantKeeps ==
  ASSUME AttachInv, NEW k \in GrantKeys, PutGrant(k)
  PROVE  AttachInv'
<1> DEFINE w(draft, goal) == Work("read", goal, NoWork.seen, draft)
<1>1. PICK draft \in Drafts, goal \in {"put", "replace"} :
        /\ goal = "replace" => owner[k] = NoOwner
        /\ work' = [work EXCEPT ![k] = w(draft, goal)]
  BY DEF PutGrant, HasOwner
<1>2. /\ owner[k].generation < MaxGrantGen /\ UNCHANGED <<owner, index, kv, late, mishaps>>
  BY DEF PutGrant
<1>3. index[k] \in Entries /\ NoWork.seen \in Snapshots /\ NoWork.seen.revision <= index[k].revision
  BY ThisKey, SnapshotTyped DEF Entries
<1>4. WorkFits(k, w(draft, goal), owner[k], index[k], kv[k], late)
  BY <1>1, <1>2, <1>3, ReadFits DEF Mutating
<1> QED
  BY <1>1, <1>2, <1>4, OnlyWork

LEMMA InstallKeeps ==
  ASSUME AttachInv, NEW k \in GrantKeys, Install(k)
  PROVE  AttachInv'
<1> DEFINE draft == [provider |-> owner[k].provider, enabled |-> TRUE, reauth |-> FALSE]
           w == Work("read", "install", NoWork.seen, draft)
<1>1. /\ owner[k] # NoOwner /\ owner[k].generation < MaxGrantGen
      /\ work' = [work EXCEPT ![k] = w] /\ UNCHANGED <<owner, index, kv, late, mishaps>>
  BY DEF Install, HasOwner
<1>2. index[k] \in Entries /\ NoWork.seen \in Snapshots /\ NoWork.seen.revision <= index[k].revision
  BY ThisKey, SnapshotTyped DEF Entries
<1>3. draft \in Drafts
  BY <1>1, ThisKey, OwnerTyped DEF Drafts
<1> HIDE DEF draft
<1>4. WorkFits(k, w, owner[k], index[k], kv[k], late)
  BY <1>1, <1>2, <1>3, ReadFits DEF Mutating
<1> QED
  BY <1>1, <1>4, OnlyWork

LEMMA UseKeeps ==
  ASSUME AttachInv, NEW k \in GrantKeys, Use(k)
  PROVE  AttachInv'
<1>1. /\ owner[k] # NoOwner /\ UNCHANGED <<owner, index, kv, late, mishaps>>
      /\ \/ work' = [work EXCEPT ![k] = Work("read", "use", NoWork.seen, NoDraft)]
         \/ /\ ~owner[k].dirty
            /\ work' = [work EXCEPT ![k] = Work("use", "use", NoWork.seen, NoDraft)]
  BY DEF Use, HasOwner
<1>2. index[k] \in Entries /\ NoWork.seen \in Snapshots /\ NoWork.seen.revision <= index[k].revision
  BY ThisKey, SnapshotTyped DEF Entries
<1>3. CASE work' = [work EXCEPT ![k] = Work("read", "use", NoWork.seen, NoDraft)]
  <2>1. WorkFits(k, Work("read", "use", NoWork.seen, NoDraft), owner[k], index[k], kv[k], late)
    BY <1>1, <1>2, ReadFits DEF Mutating
  <2> QED
    BY <1>1, <1>3, <2>1, OnlyWork
<1>4. CASE /\ ~owner[k].dirty
           /\ work' = [work EXCEPT ![k] = Work("use", "use", NoWork.seen, NoDraft)]
  <2> DEFINE w == Work("use", "use", NoWork.seen, NoDraft)
  <2>1. w.at = "use" /\ w.goal = "use" /\ w.seen = NoWork.seen /\ w \in Works
    BY <1>2 DEF Work, Works
  <2>2. k \notin Probed => index[k].generation = owner[k].generation
    BY <1>1, <1>4, ThisKey DEF EntryFits, OwnerFits
  <2> HIDE DEF w
  <2>3. WorkFits(k, w, owner[k], index[k], kv[k], late)
    BY <1>1, <1>2, <2>1, <2>2 DEF WorkFits, AfterCall, Mutating
  <2> QED
    BY <1>1, <1>4, <2>3, OnlyWork DEF w
<1> QED
  BY <1>1, <1>3, <1>4

(* publishProjection of the stored owner, dirty or published.              *)
LEMMA ProjectionKeeps ==
  ASSUME AttachInv, NEW k \in GrantKeys, owner[k] # NoOwner,
         UNCHANGED <<owner, index, kv, late, mishaps>>, NEW dirty \in BOOLEAN,
         PublishProjection(k, dirty),
         dirty \/ k \in Probed \/ index[k].generation = owner[k].generation
  PROVE  AttachInv'
<1> DEFINE w == Work(IF dirty THEN "read" ELSE "kv", "sync", work[k].seen, NoDraft)
<1>1. work' = [work EXCEPT ![k] = w]
  BY ThisKey DEF PublishProjection, AttachInv, AttachTypeOK
<1>2. /\ index[k] \in Entries /\ work[k].seen \in Snapshots
      /\ work[k].seen.revision <= index[k].revision
  BY ThisKey DEF WorkFits, Works
<1>3. WorkFits(k, w, owner[k], index[k], kv[k], late)
  BY <1>2, SyncFits
<1> QED
  BY <1>1, <1>3, OnlyWork

LEMMA InspectKeeps ==
  ASSUME AttachInv, NEW k \in GrantKeys, Inspect(k)
  PROVE  AttachInv'
  BY ProjectionKeeps DEF Inspect, HasOwner

LEMMA ReconcileKeeps ==
  ASSUME AttachInv, NEW k \in GrantKeys, Reconcile(k)
  PROVE  AttachInv'
<1>1. index[k] \in Entries /\ NoWork.seen \in Snapshots /\ NoWork.seen.revision <= index[k].revision
  BY ThisKey, SnapshotTyped DEF Entries
<1>2. WorkFits(k, Work("read", "reconcile", NoWork.seen, NoDraft), owner[k], index[k], kv[k], late)
  BY <1>1, ReadFits DEF Mutating
<1> QED
  BY <1>2, OnlyWork DEF Reconcile

LEMMA EndKeeps ==
  ASSUME AttachInv, NEW k \in GrantKeys, WorkEnds(k),
         UNCHANGED <<owner, index, kv, late, mishaps>>
  PROVE  AttachInv'
<1>1. WorkFits(k, NoWork, owner[k], index[k], kv[k], late)
  BY ThisKey, IdleFits
<1> QED
  BY <1>1, OnlyWork DEF WorkEnds

LEMMA ServedKeeps ==
  ASSUME AttachInv, NEW k \in GrantKeys, Served(k)
  PROVE  AttachInv'
<1>1. /\ work[k].at = "use" /\ UNCHANGED <<owner, index, kv, late, mishaps>>
      /\ PublishProjection(k, owner[k].dirty) \/ WorkEnds(k)
  BY DEF Served
<1>2. /\ owner[k] # NoOwner /\ (k \in Probed \/ index[k].generation = owner[k].generation)
  BY <1>1, ThisKey DEF WorkFits, AfterCall
<1>3. owner[k].dirty \in BOOLEAN
  BY <1>2, ThisKey DEF Owners
<1> QED
  BY <1>1, <1>2, <1>3, ProjectionKeeps, EndKeeps

LEMMA ReadIndexKeeps ==
  ASSUME AttachInv, NEW k \in GrantKeys, ReadIndex(k)
  PROVE  AttachInv'
<1> DEFINE s == Snapshot(index[k])
           w == work[k]
           n == CASE w.goal = "install" -> [w EXCEPT !.at = "admit", !.seen = s]
                  [] w.goal = "replace" /\ FirstAdmission(k, s) ->
                       [w EXCEPT !.at = "admit", !.seen = s]
                  [] w.goal = "replace" /\ s.generation = 0 /\ s.pending ->
                       [w EXCEPT !.goal = "put"]
                  [] w.goal = "replace" -> NoWork
                  [] OTHER -> [w EXCEPT !.at = "call", !.seen = s]
<1>1. /\ w \in Works /\ w.at = "read" /\ UNCHANGED <<owner, index, kv, late, mishaps>>
      /\ WorkFits(k, w, owner[k], index[k], kv[k], late) /\ index[k] \in Entries
      /\ s \in Snapshots /\ s.revision = index[k].revision
      /\ s.generation = index[k].generation
  BY ThisKey, SnapshotTyped DEF ReadIndex
<1>0. work' = [work EXCEPT ![k] = n]
  BY DEF ReadIndex, AttachInv, AttachTypeOK
<1>2. \/ n = [w EXCEPT !.at = "admit", !.seen = s] /\ w.goal = "install"
      \/ n = [w EXCEPT !.at = "admit", !.seen = s] /\ w.goal = "replace"
      \/ n = [w EXCEPT !.goal = "put"] /\ w.goal = "replace"
      \/ n = NoWork
      \/ n = [w EXCEPT !.at = "call", !.seen = s] /\ w.goal \notin {"install", "replace"}
  <2>1. CASE w.goal = "install"
    BY <2>1
  <2>2. CASE w.goal = "replace" /\ FirstAdmission(k, s)
    BY <2>2
  <2>3. CASE w.goal = "replace" /\ ~FirstAdmission(k, s)
    BY <2>3
  <2>4. CASE w.goal \notin {"install", "replace"}
    BY <2>4
  <2> QED
    BY <2>1, <2>2, <2>3, <2>4
<1> HIDE DEF n
<1>3. WorkFits(k, n, owner[k], index[k], kv[k], late)
  <2>1. CASE n = NoWork
    BY <1>1, <2>1, IdleFits
  <2>2. CASE n = [w EXCEPT !.goal = "put"] /\ w.goal = "replace"
    <3>1. n \in Works /\ n.at = "read" /\ n.goal = "put" /\ n.seen = w.seen /\ n.draft = w.draft
      BY <1>1, <2>2 DEF Works
    <3> QED
      BY <1>1, <2>2, <3>1 DEF WorkFits, AfterCall, Mutating
  <2>3. CASE n = [w EXCEPT !.at = "admit", !.seen = s] /\ w.goal = "install"
    <3>1. n \in Works /\ n.at = "admit" /\ n.goal = "install" /\ n.seen = s /\ n.draft = w.draft
      BY <1>1, <2>3 DEF Works
    <3> QED
      BY <1>1, <2>3, <3>1 DEF WorkFits, AfterCall, Mutating, Entries
  <2>4. CASE n = [w EXCEPT !.at = "admit", !.seen = s] /\ w.goal = "replace"
    <3>1. n \in Works /\ n.at = "admit" /\ n.goal = "replace" /\ n.seen = s /\ n.draft = w.draft
      BY <1>1, <2>4 DEF Works
    <3>2. index[k].generation = 0
      <4>1. owner[k] = NoOwner
        BY <1>1, <2>4 DEF WorkFits
      <4> QED
        BY <4>1, ThisKey, OwnerTyped DEF EntryFits, Entries
    <3> QED
      BY <1>1, <2>4, <3>1, <3>2 DEF WorkFits, AfterCall, Mutating, Entries
  <2>5. CASE n = [w EXCEPT !.at = "call", !.seen = s] /\ w.goal \notin {"install", "replace"}
    <3>1. n \in Works /\ n.at = "call" /\ n.goal = w.goal /\ n.seen = s /\ n.draft = w.draft
      BY <1>1, <2>5 DEF Works
    <3>2. w.goal \in {"put", "use", "reconcile", "sync"}
      BY <1>1, <2>5 DEF Works, WorkFits
    <3> QED
      BY <1>1, <2>5, <3>1, <3>2 DEF WorkFits, AfterCall, Mutating, Entries
  <2> QED
    BY <1>2, <2>1, <2>2, <2>3, <2>4, <2>5
<1> QED
  BY <1>0, <1>1, <1>3, OnlyWork

-----------------------------------------------------------------------------
(* The stored owner or its KV record changes; index and calls do not.      *)
LEMMA OwnerMoves ==
  ASSUME AttachInv, NEW k \in GrantKeys, NEW o, NEW v, NEW w,
         owner' = [owner EXCEPT ![k] = o], kv' = [kv EXCEPT ![k] = v],
         work' = [work EXCEPT ![k] = w], UNCHANGED <<index, late, mishaps>>,
         EntryFits(k, o, index[k], v, late), WorkFits(k, w, o, index[k], v, late),
         \A m \in late : m.key = k => CallFits(m, o, index[k])
  PROVE  AttachInv'
<1>1. /\ index' = [index EXCEPT ![k] = index[k]] /\ mishaps' \in 0..MaxMishaps /\ late' = late
  BY Same
<1>2. /\ EntryFits(k, o, index[k], v, late') /\ WorkFits(k, w, o, index[k], v, late')
      /\ \A m \in late' : IF m.key = k THEN CallFits(m, o, index[k]) ELSE m \in late
  BY <1>1
<1> QED
  BY <1>1, <1>2, OneKey

(* Calls on their way were made for an earlier generation.                 *)
LEMMA NextOwnerCalls ==
  ASSUME AttachInv, NEW k \in GrantKeys, NEW o \in Owners,
         o.generation > owner[k].generation,
         o.revoked \/ index[k].generation = owner[k].generation
  PROVE  \A m \in late : m.key = k => CallFits(m, o, index[k])
<1> SUFFICES ASSUME NEW m \in late, m.key = k PROVE CallFits(m, o, index[k])
  OBVIOUS
<1>1. CallFits(m, owner[k], index[k]) /\ owner[k] \in Owners \cup {NoOwner} /\ index[k] \in Entries
  BY ThisKey
<1>2. owner[k].generation \in Nat /\ o.generation \in Nat /\ o # NoOwner
  BY <1>1, OwnerTyped DEF Owners, NoOwner
<1>3. m.kind = "publish" => m.generation \in 1..owner[k].generation
  BY <1>1 DEF CallFits
<1> QED
  BY <1>1, <1>2, <1>3 DEF CallFits

LEMMA ProjectedWork ==
  ASSUME AttachInv, NEW k \in GrantKeys, NEW dirty \in BOOLEAN, PublishProjection(k, dirty),
         NEW o, o # NoOwner, NEW v,
         dirty \/ k \in Probed \/ index[k].generation = o.generation
  PROVE  \E w : /\ work' = [work EXCEPT ![k] = w]
                /\ WorkFits(k, w, o, index[k], v, late)
<1> DEFINE w == Work(IF dirty THEN "read" ELSE "kv", "sync", work[k].seen, NoDraft)
<1>1. work' = [work EXCEPT ![k] = w]
  BY ThisKey DEF PublishProjection, AttachInv, AttachTypeOK
<1>2. /\ index[k] \in Entries /\ work[k].seen \in Snapshots
      /\ work[k].seen.revision <= index[k].revision
  BY ThisKey DEF WorkFits, Works
<1>3. WorkFits(k, w, o, index[k], v, late)
  BY <1>2, SyncFits
<1> QED
  BY <1>1, <1>3

LEMMA ImportGrantKeeps ==
  ASSUME AttachInv, NEW k \in GrantKeys, ImportGrant(k)
  PROVE  AttachInv'
<1> DEFINE e == index[k]
           o(p, gone) == [generation |-> 1, provider |-> p, enabled |-> ~gone, reauth |-> FALSE,
                          revoked |-> gone, dirty |-> TRUE, receipt |-> 0]
           w == Work("read", "use", NoWork.seen, NoDraft)
<1>1. PICK p \in Providers, gone \in BOOLEAN :
        /\ \A q \in Providers \ {p} : e.member[q].status # "legacy"
        /\ owner' = [owner EXCEPT ![k] = o(p, gone)]
  BY DEF ImportGrant
<1>2. /\ owner[k] = NoOwner /\ MaxGrantGen > 0 /\ work' = [work EXCEPT ![k] = w]
      /\ UNCHANGED <<index, kv, late, mishaps>>
  BY DEF ImportGrant, LegacyMetadata, HasOwner
<1>3. PICK n : n = o(p, gone)
  OBVIOUS
<1>4. /\ n \in Owners /\ n.generation = 1 /\ n.provider = p /\ n.revoked = gone /\ n.dirty
      /\ n.receipt = 0 /\ n # NoOwner
  BY <1>2, <1>3, AttachmentsType DEF Owners, NoOwner
<1>5. /\ Well(e) /\ e \in Entries /\ e.generation = 0 /\ e.revision \in Nat /\ kv[k] \in Shown
      /\ \A q \in Providers : UnownedRow(e.member[q])
  BY <1>2, ThisKey, OwnerTyped DEF EntryFits, Entries
<1>6. Followed(e, n)
  <2>1. \A q \in Providers : Kept(e.member[q]).status \in {"none", "legacy"}
    BY <1>5 DEF UnownedRow, Kept, NoMember
  <2>2. \A q \in Providers \ {p} : Kept(e.member[q]) = NoMember
    <3> SUFFICES ASSUME NEW q \in Providers \ {p} PROVE Kept(e.member[q]) = NoMember
      OBVIOUS
    <3>1. /\ UnownedRow(e.member[q]) /\ e.member[q].status # "legacy" /\ WellRow(e.member[q])
      BY <1>1, <1>5 DEF Well
    <3> QED
      BY <3>1 DEF UnownedRow, Kept, WellRow, NoMember, Members, RowStatuses, Proposals
  <2>3. n.receipt = e.revision => ~Pending(e)
    BY <1>4, <1>5 DEF Well
  <2> QED
    BY <1>4, <2>1, <2>2, <2>3 DEF Followed
<1>7. EntryFits(k, n, e, kv[k], late)
  BY <1>4, <1>5, <1>6 DEF EntryFits, OwnerFits
<1>8. WorkFits(k, w, n, e, kv[k], late)
  BY <1>4, <1>5, SnapshotTyped, ReadFits DEF Mutating
<1>9. \A m \in late : m.key = k => CallFits(m, n, e)
  BY <1>2, <1>4, <1>5, NextOwnerCalls DEF NoOwner
<1>10. owner' = [owner EXCEPT ![k] = n] /\ kv' = [kv EXCEPT ![k] = kv[k]]
  BY <1>1, <1>2, <1>3, Same
<1> QED
  BY <1>2, <1>7, <1>8, <1>9, <1>10, OwnerMoves

LEMMA RevokeGrantKeeps ==
  ASSUME AttachInv, NEW k \in GrantKeys, RevokeGrant(k)
  PROVE  AttachInv'
<1> DEFINE e == index[k]
           o == owner[k]
<1>1. /\ o \in Owners \cup {NoOwner} /\ Well(e) /\ e \in Entries /\ kv[k] \in Shown
      /\ e.generation \in Nat /\ e.revision \in Nat /\ e.generation <= o.generation
      /\ EntryFits(k, o, e, kv[k], late)
  BY ThisKey DEF EntryFits, Entries
<1>2. PICK n : n = Tombstone(k)
  OBVIOUS
<1>3. /\ owner' = [owner EXCEPT ![k] = n] /\ n.generation <= MaxGrantGen
      /\ PublishProjection(k, TRUE) /\ UNCHANGED <<index, kv, late, mishaps>>
  BY <1>2 DEF RevokeGrant
<1>4. /\ n \in Owners /\ n.revoked /\ n.dirty /\ StatusOf(n) = "revoked" /\ n # NoOwner
      /\ o # NoOwner /\ o.revoked =>
           n.generation = o.generation /\ n.receipt = o.receipt /\ n.provider = o.provider
      /\ ~(o # NoOwner /\ o.revoked) => n.generation > o.generation /\ n.receipt = 0
  <2>1. CASE o = NoOwner
    <3>1. (CHOOSE p \in Providers : TRUE) \in Providers
      BY IndexType
    <3>2. e.generation = 0 /\ o.generation = 0
      BY <1>1, <2>1, OwnerTyped
    <3>3. n = [generation |-> 1, provider |-> CHOOSE p \in Providers : TRUE,
               enabled |-> FALSE, reauth |-> FALSE, revoked |-> TRUE, dirty |-> TRUE, receipt |-> 0]
      BY <1>2, <2>1, <3>2 DEF Tombstone, HasOwner
    <3> QED
      BY <1>3, <2>1, <3>1, <3>2, <3>3 DEF Owners, StatusOf, NoOwner
  <2>2. CASE o # NoOwner
    <3>0. o \in Owners /\ o.generation \in Nat /\ o.generation >= 1 /\ o.receipt \in Nat
      BY <1>1, <2>2, OwnerTyped
    <3>1. CASE o.revoked
      <4>1. n = [o EXCEPT !.revoked = TRUE, !.enabled = FALSE, !.reauth = FALSE, !.dirty = TRUE,
                          !.generation = @ + 0, !.receipt = @]
        BY <1>2, <2>2, <3>1 DEF Tombstone, HasOwner
      <4>0. n = [o EXCEPT !.revoked = TRUE, !.enabled = FALSE, !.reauth = FALSE, !.dirty = TRUE,
                          !.generation = o.generation, !.receipt = o.receipt]
        <5>1. o.generation + 0 = o.generation
          BY <3>0
        <5> QED
          BY <3>0, <4>1, <5>1 DEF Owners
      <4>2. /\ n \in Owners /\ n.revoked /\ n.dirty /\ n.generation = o.generation
            /\ n.receipt = o.receipt /\ n.provider = o.provider
        BY <3>0, <4>0 DEF Owners
      <4> QED
        BY <2>2, <3>1, <4>2 DEF StatusOf, Owners, NoOwner
    <3>2. CASE ~o.revoked
      <4>1. n = [o EXCEPT !.revoked = TRUE, !.enabled = FALSE, !.reauth = FALSE, !.dirty = TRUE,
                          !.generation = @ + 1, !.receipt = 0]
        BY <1>2, <2>2, <3>2 DEF Tombstone, HasOwner
      <4>2. n.generation = o.generation + 1 /\ n.generation \in 1..MaxGrantGen
        BY <1>3, <3>0, <4>1, AttachmentsType DEF Owners
      <4>3. /\ n \in Owners /\ n.revoked /\ n.dirty /\ n.receipt = 0
        BY <3>0, <4>1, <4>2 DEF Owners
      <4> QED
        BY <2>2, <3>0, <3>2, <4>2, <4>3 DEF StatusOf, NoOwner, Owners
    <3> QED
      BY <3>1, <3>2
  <2> QED
    BY <2>1, <2>2
<1>5. o.generation \in Nat /\ n.generation \in Nat
  BY <1>1, <1>4, OwnerTyped
<1>6. EntryFits(k, n, e, kv[k], late) /\ \A m \in late : m.key = k => CallFits(m, n, e)
  <2>1. CASE o # NoOwner /\ o.revoked
    <3>1. OwnerFits(k, o, e, kv[k], late) /\ StatusOf(o) = "revoked" /\ o \in Owners
      BY <1>1, <2>1, OwnerTyped DEF EntryFits, StatusOf
    <3>2. Matches(e, o) => Matches(e, n)
      BY <1>4, <2>1, <3>1 DEF Matches
    <3>3. OwnerFits(k, n, e, kv[k], late)
      BY <1>4, <2>1, <3>1, <3>2 DEF OwnerFits
    <3>4. \A m \in late : m.key = k => CallFits(m, n, e)
      BY <1>4, <2>1, <3>1, ThisKey DEF CallFits
    <3> QED
      BY <1>1, <1>4, <2>1, <3>3, <3>4 DEF EntryFits
  <2>2. CASE ~(o # NoOwner /\ o.revoked)
    <3>1. EntryFits(k, n, e, kv[k], late)
      BY <1>1, <1>4, <1>5, <2>2 DEF EntryFits, OwnerFits
    <3> QED
      BY <1>4, <2>2, <3>1, NextOwnerCalls
  <2> QED
    BY <2>1, <2>2
<1>7. PICK w : work' = [work EXCEPT ![k] = w] /\ WorkFits(k, w, n, e, kv[k], late)
  BY <1>3, <1>4, ProjectedWork
<1> QED
  BY <1>3, <1>6, <1>7, OwnerMoves, Same

LEMMA CommitGrantKeeps ==
  ASSUME AttachInv, NEW k \in GrantKeys, CommitGrant(k)
  PROVE  AttachInv'
<1> DEFINE e == index[k]
           o == owner[k]
           d == work[k].draft
           g == 1 + (IF work[k].goal = "replace" THEN work[k].seen.generation ELSE o.generation)
<1>1. /\ o \in Owners \cup {NoOwner} /\ Well(e) /\ e \in Entries /\ kv[k] \in Shown
      /\ e.generation \in Nat /\ e.revision \in Nat /\ o.generation \in Nat
  BY ThisKey, OwnerTyped DEF Entries
<1>2. /\ work[k].at = "commit" /\ WorkFits(k, work[k], o, e, kv[k], late)
      /\ PublishProjection(k, TRUE) /\ UNCHANGED <<index, kv, late, mishaps>>
  BY ThisKey DEF CommitGrant
<1>3. /\ d \in Drafts /\ o.generation < MaxGrantGen /\ g = o.generation + 1
      /\ work[k].seen.revision = e.revision /\ e.revision > 0 /\ e.generation = o.generation
      /\ Fenced(k, e, late) /\ Seated(e, d.provider, DraftStatus(d))
  <2>1. work[k].goal = "replace" => work[k].seen.generation = 0 /\ o.generation = 0
    BY <1>1, <1>2, OwnerTyped DEF WorkFits
  <2> QED
    BY <1>1, <1>2, <2>1 DEF WorkFits
<1>4. PICK n : n = [generation |-> g, provider |-> d.provider, enabled |-> d.enabled,
                    reauth |-> d.reauth, revoked |-> FALSE, dirty |-> TRUE,
                    receipt |-> work[k].seen.revision]
  OBVIOUS
<1>5. owner' = [owner EXCEPT ![k] = n]
  BY <1>4 DEF CommitGrant
<1>6. /\ n \in Owners /\ n.generation = o.generation + 1 /\ n.provider = d.provider
      /\ ~n.revoked /\ n.dirty /\ n.receipt = e.revision /\ StatusOf(n) = DraftStatus(d)
  <2>1. g \in 1..MaxGrantGen /\ e.revision \in Nat
    BY <1>1, <1>3, AttachmentsType
  <2>2. d.provider \in Providers /\ d.enabled \in BOOLEAN /\ d.reauth \in BOOLEAN
    BY <1>3 DEF Drafts
  <2>3. n \in Owners
    BY <1>3, <1>4, <2>1, <2>2 DEF Owners
  <2>4. StatusOf(n) = DraftStatus(d)
    BY <1>4 DEF DraftStatus, StatusOf
  <2> QED
    BY <1>3, <1>4, <2>3, <2>4
<1>7. n # NoOwner
  BY <1>6, OwnerTyped, <1>1
<1>8. Proposed(k, n, e, late)
  BY <1>1, <1>3, <1>6, ThisKey DEF Proposed, Fenced, CallFits, CallTyped
<1>9. EntryFits(k, n, e, kv[k], late)
  BY <1>1, <1>3, <1>6, <1>7, <1>8 DEF EntryFits, OwnerFits
<1>10. \A m \in late : m.key = k => CallFits(m, n, e)
  BY <1>1, <1>3, <1>6, NextOwnerCalls
<1>11. PICK w : work' = [work EXCEPT ![k] = w] /\ WorkFits(k, w, n, e, kv[k], late)
  BY <1>2, <1>7, ProjectedWork
<1> QED
  BY <1>2, <1>5, <1>9, <1>10, <1>11, OwnerMoves, Same

(* A rotation or a rejection follows the entry the owner was read with.    *)
LEMMA RefreshGrantKeeps ==
  ASSUME AttachInv, NEW k \in GrantKeys, RefreshGrant(k)
  PROVE  AttachInv'
<1> DEFINE e == index[k]
           o == owner[k]
<1>1. /\ o \in Owners \cup {NoOwner} /\ Well(e) /\ e \in Entries /\ kv[k] \in Shown
      /\ e.generation \in Nat /\ e.revision \in Nat /\ EntryFits(k, o, e, kv[k], late)
  BY ThisKey DEF Entries
<1>2. /\ work[k].at = "use" /\ k \notin Probed /\ StatusOf(o) = "active"
      /\ UNCHANGED <<index, kv, late, mishaps>>
  BY DEF RefreshGrant
<1>3. o # NoOwner /\ e.generation = o.generation
  BY <1>2, ThisKey DEF WorkFits, AfterCall
<1>4. /\ o \in Owners /\ o.generation \in 1..MaxGrantGen /\ o.receipt \in Nat
      /\ OwnerFits(k, o, e, kv[k], late) /\ o.provider \in Providers /\ ~o.revoked
  BY <1>1, <1>2, <1>3, OwnerTyped, StatusRange DEF EntryFits
<1>5. Matches(e, o) /\ o.receipt < e.revision
  BY <1>2, <1>3, <1>4 DEF OwnerFits
<1>6. PICK n : /\ owner' = [owner EXCEPT ![k] = n]
               /\ \/ n = Deferred(o)
                  \/ o.generation < MaxGrantGen /\ n \in {Rotated(o), Rejected(o)}
  BY DEF RefreshGrant
<1>7. /\ n \in Owners /\ n.dirty /\ n.provider = o.provider /\ n.receipt = o.receipt /\ ~n.revoked
      /\ \/ n.generation = o.generation /\ StatusOf(n) = StatusOf(o)
         \/ n.generation = o.generation + 1 /\ n.generation <= MaxGrantGen
  <2>1. CASE n = Deferred(o)
    BY <1>4, <2>1 DEF Deferred, Owners, StatusOf
  <2>2. CASE o.generation < MaxGrantGen /\ n = Rotated(o)
    <3>1. PICK g : g = o.generation + 1 /\ g \in 1..MaxGrantGen
      BY <1>4, <2>2, AttachmentsType
    <3>2. n = [o EXCEPT !.generation = g, !.dirty = TRUE]
      BY <2>2, <3>1 DEF Rotated
    <3>3. /\ n \in Owners /\ n.dirty /\ n.provider = o.provider /\ n.receipt = o.receipt
          /\ n.revoked = o.revoked /\ n.generation = g
      BY <1>4, <3>1, <3>2 DEF Owners
    <3> QED
      BY <1>4, <3>1, <3>3
  <2>3. CASE o.generation < MaxGrantGen /\ n = Rejected(o)
    <3>1. PICK g : g = o.generation + 1 /\ g \in 1..MaxGrantGen
      BY <1>4, <2>3, AttachmentsType
    <3>2. n = [o EXCEPT !.generation = g, !.reauth = TRUE, !.dirty = TRUE]
      BY <2>3, <3>1 DEF Rejected
    <3>3. /\ n \in Owners /\ n.dirty /\ n.provider = o.provider /\ n.receipt = o.receipt
          /\ n.revoked = o.revoked /\ n.generation = g
      BY <1>4, <3>1, <3>2 DEF Owners
    <3> QED
      BY <1>4, <3>1, <3>3
  <2> QED
    BY <1>6, <2>1, <2>2, <2>3
<1>8. n # NoOwner
  BY <1>7, OwnerTyped DEF NoOwner, Owners
<1>9. EntryFits(k, n, e, kv[k], late) /\ \A m \in late : m.key = k => CallFits(m, n, e)
  <2>1. CASE n.generation = o.generation /\ StatusOf(n) = StatusOf(o)
    <3>1. Matches(e, n)
      BY <1>4, <1>5, <1>7, <2>1 DEF Matches
    <3>2. OwnerFits(k, n, e, kv[k], late)
      BY <1>1, <1>3, <1>4, <1>5, <1>7, <2>1, <3>1 DEF OwnerFits
    <3>3. \A m \in late : m.key = k => CallFits(m, n, e)
      BY <1>4, <1>7, <1>8, <2>1, ThisKey DEF CallFits
    <3> QED
      BY <1>1, <1>3, <1>7, <1>8, <2>1, <3>2, <3>3 DEF EntryFits
  <2>2. CASE n.generation = o.generation + 1
    <3>1. Followed(e, n)
      <4>1. \A p \in Providers \ {o.provider} : Kept(e.member[p]) = NoMember
        BY <1>4, <1>5 DEF Matches
      <4>2. /\ Kept(e.member[o.provider]) = NoMember => o.receipt = 0 \/ NoMember.status = "active"
            /\ Kept(e.member[o.provider]).status \in {NoMember.status, "active"}
        BY <1>2, <1>4, <1>5 DEF Matches
      <4>3. NoMember.status = "none"
        BY DEF NoMember
      <4> QED
        BY <1>1, <1>4, <1>5, <1>7, <4>1, <4>2, <4>3 DEF Followed
    <3>2. OwnerFits(k, n, e, kv[k], late)
      BY <1>1, <1>3, <1>4, <1>5, <1>7, <2>2, <3>1 DEF OwnerFits
    <3>3. n.generation > o.generation /\ e.generation <= n.generation
      BY <1>3, <1>4, <2>2
    <3>4. EntryFits(k, n, e, kv[k], late)
      BY <1>1, <1>7, <1>8, <3>2, <3>3 DEF EntryFits
    <3> QED
      BY <1>3, <1>7, <3>3, <3>4, NextOwnerCalls
  <2> QED
    BY <1>7, <2>1, <2>2
<1>10. PublishProjection(k, TRUE)
  <2>1. owner'[k] = n
    BY <1>6 DEF AttachInv, AttachTypeOK
  <2>2. owner'[k].dirty = TRUE
    BY <1>7, <2>1 DEF Owners
  <2> QED
    BY <2>2 DEF RefreshGrant, PublishProjection
<1>11. PICK w : work' = [work EXCEPT ![k] = w] /\ WorkFits(k, w, n, e, kv[k], late)
  BY <1>8, <1>10, ProjectedWork
<1> QED
  BY <1>2, <1>6, <1>9, <1>11, OwnerMoves, Same

LEMMA Probe401Keeps ==
  ASSUME AttachInv, NEW k \in Probed, Probe401(k)
  PROVE  AttachInv'
<1> DEFINE e == index[k]
           o == owner[k]
           n == [o EXCEPT !.reauth = TRUE]
<1>0. k \in GrantKeys
  BY AttachmentsType
<1>1. /\ o \in Owners \cup {NoOwner} /\ Well(e) /\ e \in Entries /\ kv[k] \in Shown
      /\ EntryFits(k, o, e, kv[k], late)
  BY <1>0, ThisKey
<1>2. /\ work[k].at = "use" /\ UNCHANGED <<index, kv, late, mishaps>>
      /\ PublishProjection(k, o.dirty) /\ owner' = [owner EXCEPT ![k] = n]
  BY <1>0 DEF Probe401, AttachInv, AttachTypeOK
<1>3. o # NoOwner
  BY <1>0, <1>2, ThisKey DEF WorkFits, AfterCall
<1>4. o \in Owners /\ OwnerFits(k, o, e, kv[k], late) /\ o.dirty \in BOOLEAN
  BY <1>1, <1>3, OwnerTyped DEF EntryFits, Owners
<1>5. n \in Owners /\ n.generation = o.generation /\ n.receipt = o.receipt
  BY <1>4 DEF Owners
<1>6. n # NoOwner
  BY <1>5, OwnerTyped DEF NoOwner, Owners
<1> HIDE DEF n
<1>7. EntryFits(k, n, e, kv[k], late)
  BY <1>1, <1>3, <1>4, <1>5, <1>6 DEF EntryFits, OwnerFits
<1>8. \A m \in late : m.key = k => CallFits(m, n, e)
  BY <1>0, <1>5, <1>6, ThisKey DEF CallFits
<1>9. PICK w : work' = [work EXCEPT ![k] = w] /\ WorkFits(k, w, n, e, kv[k], late)
  BY <1>0, <1>2, <1>4, <1>6, ProjectedWork
<1> QED
  BY <1>0, <1>2, <1>7, <1>8, <1>9, OwnerMoves, Same

LEMMA PublishKvKeeps ==
  ASSUME AttachInv, NEW k \in GrantKeys, PublishKv(k)
  PROVE  AttachInv'
<1> DEFINE e == index[k]
           o == owner[k]
           v == Record(o)
           w == [work[k] EXCEPT !.at = "clean"]
<1>1. /\ o \in Owners \cup {NoOwner} /\ Well(e) /\ EntryFits(k, o, e, kv[k], late)
      /\ WorkFits(k, work[k], o, e, kv[k], late) /\ work[k] \in Works
  BY ThisKey
<1>2. /\ work[k].at = "kv" /\ UNCHANGED <<owner, index, late, mishaps>>
      /\ kv' = [kv EXCEPT ![k] = v] /\ work' = [work EXCEPT ![k] = w]
  BY DEF PublishKv, Record, WorkGoes, AttachInv, AttachTypeOK
<1>3. o # NoOwner /\ (k \notin Probed => e.generation = o.generation)
  BY <1>1, <1>2 DEF WorkFits, AfterCall
<1>4. v \in Shown
  BY <1>1, OwnerTyped, StatusRange DEF Record, Shown
<1> HIDE DEF v
<1>5. OwnerFits(k, o, e, v, late)
  BY <1>1, <1>3 DEF EntryFits, OwnerFits, v
<1>6. EntryFits(k, o, e, v, late)
  BY <1>1, <1>3, <1>4, <1>5 DEF EntryFits
<1>7. /\ w \in Works /\ w.at = "clean" /\ w.goal = work[k].goal /\ w.seen = work[k].seen
      /\ w.draft = work[k].draft
  BY <1>1 DEF Works
<1> HIDE DEF w
<1>8. WorkFits(k, w, o, e, v, late)
  BY <1>1, <1>2, <1>3, <1>7 DEF WorkFits, AfterCall, v
<1> QED
  BY <1>2, <1>6, <1>8, OwnerMoves, Same, ThisKey

LEMMA CleanKeeps ==
  ASSUME AttachInv, NEW k \in GrantKeys, Clean(k)
  PROVE  AttachInv'
<1> DEFINE e == index[k]
           o == owner[k]
           n == [o EXCEPT !.dirty = FALSE]
<1>1. /\ o \in Owners \cup {NoOwner} /\ Well(e) /\ e \in Entries /\ kv[k] \in Shown
      /\ EntryFits(k, o, e, kv[k], late) /\ WorkFits(k, work[k], o, e, kv[k], late)
  BY ThisKey
<1>2. /\ work[k].at = "clean" /\ UNCHANGED <<index, kv, late, mishaps>>
      /\ owner' = [owner EXCEPT ![k] = n] /\ work' = [work EXCEPT ![k] = NoWork]
  BY DEF Clean, WorkEnds, AttachInv, AttachTypeOK
<1>3. o # NoOwner /\ (k \notin Probed => e.generation = o.generation) /\ kv[k] = Record(o)
  BY <1>1, <1>2 DEF WorkFits, AfterCall
<1>4. o \in Owners /\ OwnerFits(k, o, e, kv[k], late)
  BY <1>1, <1>3, OwnerTyped DEF EntryFits
<1>5. /\ n \in Owners /\ n.generation = o.generation /\ n.receipt = o.receipt
      /\ n.provider = o.provider /\ n.revoked = o.revoked /\ StatusOf(n) = StatusOf(o)
  BY <1>4 DEF Owners, StatusOf
<1>6. n # NoOwner
  BY <1>5, OwnerTyped DEF NoOwner, Owners
<1> HIDE DEF n
<1>7. k \notin Probed => Matches(e, n)
  BY <1>3, <1>4, <1>5 DEF OwnerFits, Matches
<1>8. kv[k] = Record(n)
  BY <1>3, <1>5 DEF Record
<1>9. OwnerFits(k, n, e, kv[k], late)
  BY <1>3, <1>4, <1>5, <1>7, <1>8, OwnerTyped DEF OwnerFits
<1>10. EntryFits(k, n, e, kv[k], late)
  BY <1>1, <1>3, <1>5, <1>6, <1>9 DEF EntryFits
<1>11. \A m \in late : m.key = k => CallFits(m, n, e)
  BY <1>3, <1>5, <1>6, ThisKey DEF CallFits
<1>12. WorkFits(k, NoWork, n, e, kv[k], late)
  BY <1>1, IdleFits
<1> QED
  BY <1>2, <1>10, <1>11, <1>12, OwnerMoves, Same

-----------------------------------------------------------------------------
(* Calls to the authority, made now or arriving late.                      *)
LEMMA PublishCallFits ==
  ASSUME AttachInv, NEW k \in GrantKeys, work[k].at = "call"
  PROVE  /\ PublishCall(k).key = k /\ CallFits(PublishCall(k), owner[k], index[k])
         /\ owner[k] # NoOwner => /\ PublishCall(k).kind = "publish"
                                  /\ PublishCall(k).generation = owner[k].generation
         /\ owner[k] = NoOwner => PublishCall(k).kind = "cancel"
<1> DEFINE o == owner[k]
           e == index[k]
<1>1. /\ o \in Owners \cup {NoOwner} /\ e \in Entries /\ work[k] \in Works
      /\ work[k].seen.revision \in Nat /\ work[k].seen.revision <= e.revision
  BY ThisKey DEF WorkFits, Works, Snapshots
<1>2. CASE o = NoOwner
  <2>1. PublishCall(k) = [key |-> k, kind |-> "cancel", revision |-> work[k].seen.revision]
    BY <1>2 DEF PublishCall, HasOwner
  <2> QED
    BY <1>1, <1>2, <2>1 DEF CallFits, CallTyped
<1>3. CASE o # NoOwner
  <2>1. PICK m : m = PublishCall(k)
    OBVIOUS
  <2>2. m = [key |-> k, kind |-> "publish", revision |-> work[k].seen.revision,
             generation |-> o.generation, provider |-> o.provider,
             status |-> StatusOf(o), receipt |-> o.receipt]
    BY <1>3, <2>1 DEF PublishCall, HasOwner
  <2>3. /\ m.key = k /\ m.kind = "publish" /\ m.revision = work[k].seen.revision
        /\ m.generation = o.generation /\ m.provider = o.provider /\ m.status = StatusOf(o)
        /\ m.receipt = o.receipt
    BY <2>2
  <2>4. /\ o.generation \in Nat /\ o.generation >= 1 /\ o.receipt \in Nat
        /\ o.provider \in Providers
    BY <1>1, <1>3, OwnerTyped
  <2>5. CallTyped(m)
    BY <1>1, <2>3, <2>4, StatusRange DEF CallTyped, Answers
  <2>6. CallFits(m, o, e)
    BY <1>1, <1>3, <2>3, <2>4, <2>5 DEF CallFits
  <2> QED
    BY <1>3, <2>1, <2>3, <2>6
<1> QED
  BY <1>2, <1>3

LEMMA AdmitCallFits ==
  ASSUME AttachInv, NEW k \in GrantKeys, work[k].at = "admit"
  PROVE  /\ AdmitCall(k).key = k /\ CallFits(AdmitCall(k), owner[k], index[k])
         /\ AdmitCall(k).kind = "admit" /\ Answers(AdmitCall(k))
         /\ AdmitCall(k).generation = owner[k].generation
         /\ AdmitCall(k).provider = work[k].draft.provider
         /\ AdmitCall(k).status = DraftStatus(work[k].draft) /\ AdmitCall(k).status # "revoked"
<1> DEFINE o == owner[k]
           e == index[k]
           d == work[k].draft
<1>1. /\ o \in Owners \cup {NoOwner} /\ e \in Entries /\ work[k] \in Works
      /\ work[k].seen.revision \in Nat /\ work[k].seen.revision <= e.revision
      /\ work[k].goal \in Mutating /\ d \in Drafts
      /\ work[k].goal = "replace" => o = NoOwner /\ work[k].seen.generation = 0
  BY ThisKey DEF WorkFits, Works, Snapshots
<1>2. PICK m : m = AdmitCall(k)
  OBVIOUS
<1>3. /\ m.key = k /\ m.kind = "admit" /\ m.revision = work[k].seen.revision
      /\ m.provider = d.provider /\ m.status = DraftStatus(d)
      /\ m.generation = IF work[k].goal = "replace" THEN work[k].seen.generation ELSE o.generation
  BY <1>2 DEF AdmitCall, DraftStatus
<1>4. o.generation \in Nat /\ m.generation = o.generation
  BY <1>1, <1>3, OwnerTyped
<1>5. m.status \in OwnerStatuses /\ m.status # "revoked"
  BY <1>3 DEF DraftStatus, StatusOf, OwnerStatuses
<1>6. Answers(m)
  BY <1>1, <1>3, <1>4, <1>5 DEF Answers, Drafts
<1>7. CallFits(m, o, e)
  BY <1>1, <1>3, <1>5, <1>6 DEF CallFits, CallTyped
<1> QED
  BY <1>2, <1>3, <1>4, <1>5, <1>6, <1>7

LEMMA EntryMoves ==
  ASSUME AttachInv, NEW k \in GrantKeys, NEW f, NEW w,
         index' = [index EXCEPT ![k] = f], work' = [work EXCEPT ![k] = w],
         UNCHANGED <<owner, kv, mishaps>>, late' \subseteq late,
         EntryFits(k, owner[k], f, kv[k], late), WorkFits(k, w, owner[k], f, kv[k], late),
         f.revision >= index[k].revision, f.generation >= index[k].generation
  PROVE  AttachInv'
<1>1. /\ owner' = [owner EXCEPT ![k] = owner[k]] /\ kv' = [kv EXCEPT ![k] = kv[k]]
      /\ mishaps' \in 0..MaxMishaps
  BY Same
<1>2. PICK more : more = late'
  OBVIOUS
<1>3. EntryFits(k, owner[k], f, kv[k], more) /\ WorkFits(k, w, owner[k], f, kv[k], more)
  BY <1>2, OtherKey
<1>4. f \in Entries /\ index[k] \in Entries /\ owner[k].generation \in Nat
  BY ThisKey, OwnerTyped DEF EntryFits, Well
<1>5. \A m \in more : IF m.key = k THEN CallFits(m, owner[k], f) ELSE m \in late
  BY <1>2, <1>4, ThisKey, LaterCalls
<1> QED
  BY <1>1, <1>2, <1>3, <1>5, OneKey

(* The entry a call leaves fits its owner, if the call cannot withdraw the *)
(* proposal the owner was committed for.                                   *)
LEMMA AppliedFits ==
  ASSUME AttachInv, NEW k \in GrantKeys, NEW m, m.key = k, CallFits(m, owner[k], index[k]),
         Accepted(m),
         owner[k] # NoOwner /\ Proposed(k, owner[k], index[k], late) =>
           m.kind # "cancel" /\ m.generation = owner[k].generation
  PROVE  /\ EntryFits(k, owner[k], Applied(m), kv[k], late)
         /\ Applied(m).revision >= index[k].revision
         /\ Applied(m).generation >= index[k].generation
         /\ m.kind # "publish" => Applied(m).generation = index[k].generation
         /\ m.kind = "publish" => Applied(m).generation = m.generation
         /\ m.revision = index[k].revision
         /\ m.kind = "admit" => /\ m.generation = index[k].generation
                                /\ Applied(m).revision = index[k].revision + 1
                                /\ Seated(Applied(m), m.provider, m.status)
<1> DEFINE o == owner[k]
           e == index[k]
<1>1. /\ EntryFits(k, o, e, kv[k], late) /\ e.revision \in Nat /\ e.generation \in Nat
  BY ThisKey DEF Entries
<1>2. m.revision = e.revision /\ CallTyped(m)
  BY CallApplies, ThisKey DEF CallFits
<1>3. CASE m.kind = "publish"
  <2>1. PublishAccepted(e, m) /\ Applied(m) = Published(e, m)
    BY <1>3 DEF Accepted, Applied
  <2>2. /\ EntryFits(k, o, Published(e, m), kv[k], late)
        /\ Published(e, m).revision >= e.revision
        /\ Published(e, m).generation = m.generation /\ m.generation >= e.generation
    BY <1>1, <1>3, <2>1, PublishFits
  <2> QED
    BY <1>2, <1>3, <2>1, <2>2
<1>4. CASE m.kind = "cancel"
  <2>1. Applied(m) = Cancelled(e)
    BY <1>4 DEF Applied
  <2>2. /\ EntryFits(k, o, Cancelled(e), kv[k], late) /\ Cancelled(e).revision >= e.revision
        /\ Cancelled(e).generation = e.generation
    BY <1>1, <1>4, CancelFits
  <2> QED
    BY <1>1, <1>2, <1>4, <2>1, <2>2
<1>5. CASE m.kind = "admit"
  <2>1. Applied(m) = Admitted(e, m) /\ m.generation = e.generation
    BY <1>5 DEF Accepted, Applied, AdmitAccepted
  <2>2. /\ EntryFits(k, o, Admitted(e, m), kv[k], late)
        /\ Admitted(e, m).revision = e.revision + 1 /\ Admitted(e, m).generation = e.generation
        /\ Seated(Admitted(e, m), m.provider, m.status)
    BY <1>1, <1>2, <1>5, <2>1, AdmitFits DEF CallTyped
  <2> QED
    BY <1>1, <1>2, <1>5, <2>1, <2>2
<1> QED
  BY <1>2, <1>3, <1>4, <1>5 DEF CallTyped

LEMMA CallIndexKeeps ==
  ASSUME AttachInv, NEW k \in GrantKeys, CallIndex(k)
  PROVE  AttachInv'
<1> PICK m : m = PublishCall(k)
  OBVIOUS
<1> PICK f : f = Applied(m)
  OBVIOUS
<1> DEFINE o == owner[k]
           e == index[k]
           w == work[k]
           goal == work[k].goal
<1>0. w.at = "call"
  BY DEF CallIndex
<1>1. CASE ~Accepted(m)
  BY <1>1, EndKeeps DEF CallIndex, Refused
<1>2. CASE Accepted(m)
  <2>1. /\ index' = [index EXCEPT ![k] = f] /\ UNCHANGED <<owner, kv, late, mishaps>>
        /\ CASE goal = "put" ->
                  IF HasOwner(k) \/ FirstAdmission(k, Snapshot(f))
                  THEN work' = [work EXCEPT ![k].at = "admit", ![k].seen = Snapshot(f)]
                  ELSE WorkEnds(k)
             [] goal = "use" -> WorkGoes(k, "use")
             [] goal = "reconcile" -> IF HasOwner(k) THEN PublishProjection(k, owner[k].dirty)
                                      ELSE WorkEnds(k)
             [] goal = "sync" -> WorkGoes(k, "kv")
    BY <1>2 DEF CallIndex
  <2>2. /\ m.key = k /\ CallFits(m, o, e)
        /\ o # NoOwner => m.kind = "publish" /\ m.generation = o.generation
        /\ o = NoOwner => m.kind = "cancel"
    BY <1>0, PublishCallFits
  <2>3. /\ EntryFits(k, o, f, kv[k], late) /\ f.revision >= e.revision
        /\ f.generation >= e.generation /\ (o # NoOwner => f.generation = o.generation)
    BY <1>2, <2>2, AppliedFits
  <2>4. /\ w \in Works /\ WorkFits(k, w, o, e, kv[k], late) /\ o \in Owners \cup {NoOwner}
        /\ work \in [GrantKeys -> Works]
    BY ThisKey DEF AttachInv, AttachTypeOK
  <2>5. /\ f \in Entries /\ f.revision \in Nat /\ e.revision \in Nat /\ w.seen \in Snapshots
        /\ w.seen.revision \in Nat
    BY <2>3, <2>4, ThisKey DEF EntryFits, Well, Entries, Works, Snapshots
  <2>6. w.seen.revision <= f.revision
    BY <2>3, <2>4, <2>5 DEF WorkFits
  <2>7. \E n : work' = [work EXCEPT ![k] = n] /\ WorkFits(k, n, o, f, kv[k], late)
    <3>1. CASE WorkEnds(k)
      BY <2>5, <3>1, IdleFits DEF WorkEnds
    <3>2. CASE goal = "put" /\ work' = [work EXCEPT ![k].at = "admit", ![k].seen = Snapshot(f)]
      <4> DEFINE n == [w EXCEPT !.at = "admit", !.seen = Snapshot(f)]
      <4>1. work' = [work EXCEPT ![k] = n]
        BY <2>4, <3>2
      <4>2. /\ n \in Works /\ n.at = "admit" /\ n.goal = "put" /\ n.seen = Snapshot(f)
            /\ n.draft = w.draft
        BY <2>4, <2>5, <3>2, SnapshotTyped DEF Works
      <4> HIDE DEF n
      <4>3. WorkFits(k, n, o, f, kv[k], late)
        BY <2>4, <2>5, <3>2, <4>2, SnapshotTyped DEF WorkFits, AfterCall, Mutating
      <4> QED
        BY <4>1, <4>3
    <3>3. ASSUME NEW at \in {"use", "kv"}, WorkGoes(k, at), goal \in {"use", "sync"}
          PROVE  \E n : work' = [work EXCEPT ![k] = n] /\ WorkFits(k, n, o, f, kv[k], late)
      <4> DEFINE n == [w EXCEPT !.at = at]
      <4>1. work' = [work EXCEPT ![k] = n]
        BY <2>4, <3>3 DEF WorkGoes
      <4>2. /\ n \in Works /\ n.at = at /\ n.goal = goal /\ n.seen = w.seen /\ n.draft = w.draft
        BY <2>4, <3>3 DEF Works
      <4>3. o # NoOwner
        BY <2>4, <3>3 DEF WorkFits
      <4> HIDE DEF n
      <4>4. WorkFits(k, n, o, f, kv[k], late)
        BY <2>3, <2>6, <3>3, <4>2, <4>3 DEF WorkFits, Mutating
      <4> QED
        BY <4>1, <4>4
    <3>4. CASE HasOwner(k) /\ PublishProjection(k, owner[k].dirty)
      <4> DEFINE n == Work(IF owner[k].dirty THEN "read" ELSE "kv", "sync", w.seen, NoDraft)
      <4>1. work' = [work EXCEPT ![k] = n]
        BY <2>4, <3>4 DEF PublishProjection
      <4>2. owner[k].dirty \in BOOLEAN /\ o # NoOwner
        BY <2>4, <3>4, OwnerTyped DEF HasOwner, Owners
      <4>3. WorkFits(k, n, o, f, kv[k], late)
        BY <2>3, <2>5, <2>6, <4>2, SyncFits
      <4> QED
        BY <4>1, <4>3
    <3>5. goal \in {"put", "use", "reconcile", "sync"}
      BY <1>0, <2>4 DEF WorkFits
    <3>6. \/ WorkEnds(k)
          \/ goal = "put" /\ work' = [work EXCEPT ![k].at = "admit", ![k].seen = Snapshot(f)]
          \/ goal = "use" /\ WorkGoes(k, "use")
          \/ goal = "sync" /\ WorkGoes(k, "kv")
          \/ HasOwner(k) /\ PublishProjection(k, owner[k].dirty)
      <4>1. CASE goal = "put"
        BY <2>1, <4>1
      <4>2. CASE goal = "use"
        BY <2>1, <4>2
      <4>3. CASE goal = "reconcile"
        BY <2>1, <4>3
      <4>4. CASE goal = "sync"
        BY <2>1, <4>4
      <4> QED
        BY <3>5, <4>1, <4>2, <4>3, <4>4
    <3> QED
      BY <3>1, <3>2, <3>3, <3>4, <3>6
  <2> QED
    BY <2>1, <2>3, <2>7, EntryMoves
<1> QED
  BY <1>1, <1>2

LEMMA AdmitKeeps ==
  ASSUME AttachInv, NEW k \in GrantKeys, Admit(k)
  PROVE  AttachInv'
<1> PICK m : m = AdmitCall(k)
  OBVIOUS
<1> PICK f : f = Applied(m)
  OBVIOUS
<1> DEFINE o == owner[k]
           e == index[k]
           w == work[k]
           n == [w EXCEPT !.at = "commit", !.seen.revision = f.revision]
<1>0. w.at = "admit"
  BY DEF Admit
<1>1. CASE ~Accepted(m)
  BY <1>1, EndKeeps DEF Admit, Refused
<1>2. CASE Accepted(m)
  <2>1. /\ w \in Works /\ WorkFits(k, w, o, e, kv[k], late) /\ o \in Owners \cup {NoOwner}
        /\ work \in [GrantKeys -> Works] /\ e.revision \in Nat
    BY ThisKey DEF AttachInv, AttachTypeOK, Entries
  <2>2. /\ index' = [index EXCEPT ![k] = f] /\ UNCHANGED <<owner, kv, late, mishaps>>
        /\ work' = [work EXCEPT ![k] = n]
    BY <1>2, <2>1 DEF Admit
  <2>3. /\ m.key = k /\ CallFits(m, o, e) /\ m.kind = "admit" /\ m.generation = o.generation
        /\ m.provider = w.draft.provider /\ m.status = DraftStatus(w.draft)
    BY <1>0, AdmitCallFits
  <2>4. /\ EntryFits(k, o, f, kv[k], late) /\ f.revision = e.revision + 1
        /\ f.generation = e.generation /\ e.generation = o.generation
        /\ Seated(f, m.provider, m.status) /\ f.generation >= e.generation
    BY <1>2, <2>3, AppliedFits
  <2>5. /\ n \in Works /\ n.at = "commit" /\ n.goal = w.goal /\ n.draft = w.draft
        /\ n.seen.revision = f.revision /\ n.seen.generation = w.seen.generation
    <3>1. w.seen \in Snapshots /\ f.revision \in Nat
      BY <2>1, <2>4 DEF Works
    <3>2. PICK s : s = [w.seen EXCEPT !.revision = f.revision]
      OBVIOUS
    <3>3. s \in Snapshots /\ s.revision = f.revision /\ s.generation = w.seen.generation
      BY <3>1, <3>2 DEF Snapshots
    <3>4. n = [w EXCEPT !.at = "commit", !.seen = s]
      BY <2>1, <3>2 DEF Works
    <3> QED
      BY <2>1, <3>3, <3>4 DEF Works
  <2> HIDE DEF n
  <2>6. Fenced(k, f, late)
    <3> SUFFICES ASSUME NEW c \in late, c.key = k PROVE c.revision < f.revision
      BY DEF Fenced
    <3>1. c.revision \in Nat /\ c.revision <= e.revision
      BY ThisKey DEF CallFits, CallTyped
    <3> QED
      BY <2>1, <2>4, <3>1
  <2>7. WorkFits(k, n, o, f, kv[k], late)
    BY <1>0, <2>1, <2>3, <2>4, <2>5, <2>6 DEF WorkFits, AfterCall
  <2>8. f.revision >= e.revision
    BY <2>1, <2>4
  <2> QED
    BY <2>2, <2>4, <2>7, <2>8, EntryMoves
<1> QED
  BY <1>1, <1>2

LEMMA CallFailsKeeps ==
  ASSUME AttachInv, NEW k \in GrantKeys, CallFails(k)
  PROVE  AttachInv'
<1> DEFINE o == owner[k]
           e == index[k]
<1>1. /\ work' = [work EXCEPT ![k] = NoWork] /\ UNCHANGED <<owner, index, kv>>
      /\ mishaps' \in 0..MaxMishaps
  BY Same, AttachmentsType DEF CallFails, WorkEnds
<1>2. /\ owner' = [owner EXCEPT ![k] = o] /\ index' = [index EXCEPT ![k] = e]
      /\ kv' = [kv EXCEPT ![k] = kv[k]]
  BY <1>1, Same
<1>3. PICK lates : lates = late'
  OBVIOUS
<1>4. WorkFits(k, NoWork, o, e, kv[k], lates)
  BY ThisKey, IdleFits
<1>5. /\ \A m \in lates : IF m.key = k THEN CallFits(m, o, e) ELSE m \in late
      /\ \A m \in lates : m \in late \/ (o # NoOwner => m.kind # "cancel"
                                                      /\ m.generation = o.generation)
  <2>1. CASE late' = late
    BY <1>3, <2>1, ThisKey
  <2>2. CASE work[k].at = "call" /\ late' = late \cup {PublishCall(k)}
    BY <1>3, <2>2, ThisKey, PublishCallFits
  <2>3. CASE work[k].at = "admit" /\ late' = late \cup {AdmitCall(k)}
    BY <1>3, <2>3, ThisKey, AdmitCallFits
  <2> QED
    BY <2>1, <2>2, <2>3 DEF CallFails
<1>6. EntryFits(k, o, e, kv[k], lates)
  <2>1. EntryFits(k, o, e, kv[k], late)
    BY ThisKey
  <2>2. o # NoOwner /\ Proposed(k, o, e, late) => Proposed(k, o, e, lates)
    BY <1>5 DEF Proposed
  <2> QED
    BY <2>1, <2>2 DEF EntryFits, OwnerFits
<1>7. /\ EntryFits(k, o, e, kv[k], late') /\ WorkFits(k, NoWork, o, e, kv[k], late')
      /\ \A m \in late' : IF m.key = k THEN CallFits(m, o, e) ELSE m \in late
  BY <1>3, <1>4, <1>5, <1>6
<1> QED
  BY <1>1, <1>2, <1>7, OneKey

LEMMA DeliverKeeps ==
  ASSUME AttachInv, NEW m \in late, Deliver(m)
  PROVE  AttachInv'
<1> DEFINE k == m.key
           o == owner[k]
           e == index[k]
           w == work[k]
<1>0. k \in GrantKeys /\ CallFits(m, o, e)
  BY DEF AttachInv, AttachTypeOK
<1>1. /\ late' \subseteq late /\ UNCHANGED <<owner, kv, work, mishaps>>
  BY DEF Deliver
<1>2. /\ work' = [work EXCEPT ![k] = w] /\ WorkFits(k, w, o, e, kv[k], late)
      /\ EntryFits(k, o, e, kv[k], late) /\ w \in Works /\ e \in Entries
      /\ index = [index EXCEPT ![k] = e] /\ o.generation \in Nat
  BY <1>0, <1>1, Same, ThisKey, OwnerTyped
<1>3. CASE ~Accepted(m)
  <2>1. index' = [index EXCEPT ![k] = e]
    BY <1>2, <1>3 DEF Deliver
  <2>2. e.revision >= e.revision /\ e.generation >= e.generation
    BY <1>2 DEF Entries
  <2> QED
    BY <1>0, <1>1, <1>2, <2>1, <2>2, EntryMoves
<1>4. CASE Accepted(m)
  <2>1. PICK f : f = Applied(m)
    OBVIOUS
  <2>2. index' = [index EXCEPT ![k] = f]
    BY <1>4, <2>1 DEF Deliver
  <2>3. m.revision = e.revision
    BY <1>0, <1>4, CallApplies, ThisKey DEF CallFits
  <2>4. Proposed(k, o, e, late) => m.kind # "cancel" /\ m.generation = o.generation
    BY <2>3 DEF Proposed
  <2>5. /\ EntryFits(k, o, f, kv[k], late) /\ f.revision >= e.revision
        /\ f.generation >= e.generation /\ f.generation <= o.generation /\ f \in Entries
    BY <1>0, <1>4, <2>1, <2>4, AppliedFits DEF EntryFits, Well
  <2>6. w.at # "commit"
    BY <1>2, <2>3 DEF WorkFits, Fenced, Entries
  <2>7. e.generation = o.generation => f.generation = o.generation
    BY <1>2, <2>5 DEF Entries
  <2>8. w.seen.revision <= f.revision
    <3>1. w.seen.revision \in Nat /\ e.revision \in Nat /\ f.revision \in Nat
      BY <1>2, <2>5 DEF Works, Snapshots, Entries
    <3> QED
      BY <1>2, <2>5, <3>1 DEF WorkFits
  <2>9. WorkFits(k, w, o, f, kv[k], late)
    BY <1>2, <2>6, <2>7, <2>8 DEF WorkFits
  <2> QED
    BY <1>0, <1>1, <1>2, <2>2, <2>5, <2>9, EntryMoves
<1> QED
  BY <1>3, <1>4

-----------------------------------------------------------------------------
LEMMA AttachBegins == AttachInit => AttachInv
<1> SUFFICES ASSUME AttachInit PROVE AttachInv
  OBVIOUS
<1> DEFINE seat(p) == [Blank EXCEPT !.member[p] = LegacyRow]
<1>1. PICK home \in [Legacy -> Providers], pooled \in SUBSET Legacy :
        index = [k \in GrantKeys |-> IF k \in pooled THEN seat(home[k]) ELSE Blank]
  BY DEF AttachInit
<1>2. /\ owner = [k \in GrantKeys |-> NoOwner] /\ work = [k \in GrantKeys |-> NoWork]
      /\ kv \in [GrantKeys -> Shown] /\ late = {} /\ mishaps = 0
  BY DEF AttachInit, Shown
<1>3. /\ Blank \in Entries /\ Blank.generation = 0 /\ Blank.revision = 0
      /\ \A p \in Providers : Blank.member[p] = NoMember
  BY DEF Blank, Entries, NoMember, OwnerStatuses
<1>4. /\ NoMember.status = "none" /\ NoMember.previous = "none"
      /\ LegacyRow.status = "legacy" /\ LegacyRow.previous = "none"
      /\ LegacyRow \in Members /\ NoMember \in Members \cup {NoMember}
      /\ "none" \notin Proposals /\ "legacy" \notin Proposals
  BY DEF NoMember, LegacyRow, Members, RowStatuses, Proposals
<1>5. ASSUME NEW p \in Providers
      PROVE  /\ seat(p) \in Entries /\ seat(p).generation = 0 /\ seat(p).revision = 0
             /\ \A q \in Providers : seat(p).member[q] \in {NoMember, LegacyRow}
  <2> DEFINE rows == [Blank.member EXCEPT ![p] = LegacyRow]
  <2>1. /\ rows \in [Providers -> Members \cup {NoMember}]
        /\ \A q \in Providers : rows[q] \in {NoMember, LegacyRow}
    BY <1>3, <1>4 DEF Entries
  <2>2. seat(p) = [Blank EXCEPT !.member = rows]
    BY <1>3 DEF Entries
  <2> HIDE DEF rows
  <2> QED
    BY <1>3, <2>1, <2>2 DEF Entries
<1> HIDE DEF seat
<1>6. \A k \in GrantKeys :
        /\ index[k] \in Entries /\ index[k].generation = 0 /\ index[k].revision = 0
        /\ \A q \in Providers : index[k].member[q] \in {NoMember, LegacyRow}
  <2> SUFFICES ASSUME NEW k \in GrantKeys
               PROVE  /\ index[k] \in Entries /\ index[k].generation = 0 /\ index[k].revision = 0
                      /\ \A q \in Providers : index[k].member[q] \in {NoMember, LegacyRow}
    OBVIOUS
  <2>1. CASE k \in pooled
    <3>1. home[k] \in Providers
      BY <2>1
    <3>2. index[k] = seat(home[k])
      BY <1>1, <2>1
    <3> QED
      BY <1>5, <3>1, <3>2
  <2>2. CASE k \notin pooled
    BY <1>1, <1>3, <2>2
  <2> QED
    BY <2>1, <2>2
<1>7. index \in [GrantKeys -> Entries]
  BY <1>1, <1>6
<1>8. AttachTypeOK
  BY <1>2, <1>7, SnapshotTyped, AttachmentsType DEF AttachTypeOK
<1>9. \A k \in GrantKeys : KeyHeld(k)
  <2> SUFFICES ASSUME NEW k \in GrantKeys PROVE KeyHeld(k)
    OBVIOUS
  <2>1. \A q \in Providers : /\ WellRow(index[k].member[q]) /\ UnownedRow(index[k].member[q])
                             /\ index[k].member[q].status \notin Proposals
    BY <1>4, <1>6 DEF WellRow, UnownedRow
  <2>2. Well(index[k])
    BY <1>6, <2>1 DEF Well, Pending
  <2>3. owner[k] = NoOwner /\ work[k] = NoWork /\ kv[k] \in Shown /\ NoOwner.generation = 0
    BY <1>2 DEF NoOwner
  <2>4. EntryFits(k, owner[k], index[k], kv[k], late)
    BY <1>6, <2>1, <2>2, <2>3 DEF EntryFits
  <2>5. WorkFits(k, work[k], owner[k], index[k], kv[k], late)
    BY <1>6, <2>3, IdleFits
  <2> QED
    BY <2>4, <2>5 DEF KeyHeld
<1> QED
  BY <1>2, <1>8, <1>9 DEF AttachInv

LEMMA AttachSteps == AttachInv /\ [AttachNext]_attachVars => AttachInv'
<1> SUFFICES ASSUME AttachInv, [AttachNext]_attachVars PROVE AttachInv'
  OBVIOUS
<1>1. ASSUME NEW k \in GrantKeys, PutGrant(k) PROVE AttachInv'
  BY <1>1, PutGrantKeeps
<1>2. ASSUME NEW k \in GrantKeys, Install(k) PROVE AttachInv'
  BY <1>2, InstallKeeps
<1>3. ASSUME NEW k \in GrantKeys, Use(k) PROVE AttachInv'
  BY <1>3, UseKeeps
<1>4. ASSUME NEW k \in GrantKeys, Inspect(k) PROVE AttachInv'
  BY <1>4, InspectKeeps
<1>5. ASSUME NEW k \in GrantKeys, ImportGrant(k) PROVE AttachInv'
  BY <1>5, ImportGrantKeeps
<1>6. ASSUME NEW k \in GrantKeys, Reconcile(k) PROVE AttachInv'
  BY <1>6, ReconcileKeeps
<1>7. ASSUME NEW k \in GrantKeys, RevokeGrant(k) PROVE AttachInv'
  BY <1>7, RevokeGrantKeeps
<1>8. ASSUME NEW k \in GrantKeys, Step(k) PROVE AttachInv'
  BY <1>8, ReadIndexKeeps, CallIndexKeeps, AdmitKeeps, CommitGrantKeeps, ServedKeeps,
     PublishKvKeeps, CleanKeeps DEF Step
<1>9. ASSUME NEW k \in GrantKeys, RefreshGrant(k) PROVE AttachInv'
  BY <1>9, RefreshGrantKeeps
<1>10. ASSUME NEW k \in GrantKeys, CallFails(k) PROVE AttachInv'
  BY <1>10, CallFailsKeeps
<1>11. ASSUME NEW k \in Probed, Probe401(k) PROVE AttachInv'
  BY <1>11, Probe401Keeps
<1>12. ASSUME NEW m \in late, Deliver(m) PROVE AttachInv'
  BY <1>12, DeliverKeeps
<1>13. CASE UNCHANGED attachVars
  BY <1>13 DEF attachVars, AttachInv, AttachTypeOK, KeyHeld
<1> QED
  BY <1>1, <1>2, <1>3, <1>4, <1>5, <1>6, <1>7, <1>8, <1>9, <1>10, <1>11, <1>12, <1>13
     DEF AttachNext

(* The stored owner can be published after a fresh read of the index.      *)
LEMMA OwnerAccepted ==
  ASSUME NEW k \in GrantKeys \ Probed, NEW o, NEW e, NEW v, NEW lates, o # NoOwner,
         EntryFits(k, o, e, v, lates),
         NEW q, q.revision = e.revision, q.generation = o.generation, q.provider = o.provider,
         q.status = StatusOf(o), q.receipt = o.receipt
  PROVE  PublishAccepted(e, q)
<1> DEFINE g == Prepared(e, q)
<1>1. /\ o \in Owners /\ o.generation \in Nat /\ Well(e) /\ e.generation \in Nat
      /\ o.provider \in Providers /\ e.generation <= o.generation
      /\ OwnerFits(k, o, e, v, lates)
  BY OwnerTyped DEF EntryFits, Well, Entries
<1>2. CurrentFor(e, q)
  BY <1>1 DEF CurrentFor
<1>3. \A p \in Providers : WellRow(g.member[p]) /\ (~Pending(g) => g.member[p] = Kept(e.member[p]))
  BY <1>1, PreparedEntry
<1>4. CASE o.generation = e.generation
  <2>1. ~Pending(g) /\ Matches(e, o)
    BY <1>1, <1>4, PreparedEntry DEF OwnerFits
  <2>2. \A p \in Providers :
       \/ g.member[p] = NoMember
       \/ ~o.revoked /\ p = o.provider /\ g.member[p].status = StatusOf(o)
    BY <1>3, <2>1 DEF Matches
  <2>3. ReplayAgrees(e, q)
    <3>1. CASE StatusOf(o) = "revoked"
      <4>1. \A p \in Providers : g.member[p] = NoMember
        BY <1>1, <2>2, <3>1, StatusRange
      <4>2. ~Attached(g)
        BY <4>1 DEF Attached, NoMember
      <4> QED
        BY <3>1, <4>2 DEF ReplayAgrees
    <3>2. CASE StatusOf(o) # "revoked"
      BY <1>1, <2>2, <3>2 DEF ReplayAgrees
    <3> QED
      BY <3>1, <3>2
  <2>4. Replay(e, q)
    BY <1>4, <2>1 DEF Replay
  <2> QED
    BY <1>2, <2>3, <2>4 DEF PublishAccepted
<1>5. CASE o.generation # e.generation
  <2>1. ~Replay(e, q)
    BY <1>5 DEF Replay
  <2>2. ASSUME StatusOf(o) = "active", g.member[o.provider] # NoMember
        PROVE  g.member[o.provider].status \in Seating
    <3>1. ~o.revoked /\ e.generation < o.generation
      BY <1>1, <1>5, <2>2, StatusRange
    <3>2. CASE Followed(e, o)
      <4>1. ~Pending(g)
        <5>1. CASE Returned(e, q)
          BY <1>1, <5>1, RestoredEntry DEF Prepared
        <5>2. CASE ~Returned(e, q)
          BY <3>2, <5>2 DEF Prepared, Returned, Followed
        <5> QED
          BY <5>1, <5>2
      <4>2. g.member[o.provider].status \in {"none", "active", "legacy"}
        BY <1>1, <1>3, <2>2, <3>2, <4>1 DEF Followed
      <4>3. g.member[o.provider].status # "none"
        BY <1>1, <1>3, <2>2 DEF WellRow, Members, RowStatuses
      <4> QED
        BY <4>2, <4>3 DEF Seating
    <3>3. CASE Proposed(k, o, e, lates)
      <4>1. ~Returned(e, q)
        BY <1>5, <3>3 DEF Proposed, Returned
      <4> QED
        BY <1>1, <2>2, <3>3, <4>1, PreparedEntry DEF Proposed, Seated
    <3> QED
      BY <1>1, <3>1, <3>2, <3>3 DEF OwnerFits
  <2> QED
    BY <1>2, <2>1, <2>2 DEF PublishAccepted, Seating
<1> QED
  BY <1>4, <1>5

LEMMA AttachImplies == AttachInv => IndexAgrees
<1> SUFFICES ASSUME AttachInv PROVE IndexAgrees
  OBVIOUS
<1>1. IndexNeverAhead
  BY ThisKey DEF IndexNeverAhead, EntryFits
<1>2. NeverWedged
  <2> SUFFICES ASSUME NEW k \in GrantKeys \ Probed, owner[k] # NoOwner
               PROVE  PublishAccepted(index[k], [revision |-> index[k].revision,
                        generation |-> owner[k].generation, provider |-> owner[k].provider,
                        status |-> StatusOf(owner[k]), receipt |-> owner[k].receipt])
    BY DEF NeverWedged, HasOwner
  <2>1. PICK q : q = [revision |-> index[k].revision,
                      generation |-> owner[k].generation, provider |-> owner[k].provider,
                      status |-> StatusOf(owner[k]), receipt |-> owner[k].receipt]
    OBVIOUS
  <2>2. PublishAccepted(index[k], q)
    BY <2>1, ThisKey, OwnerAccepted
  <2> QED
    BY <2>1, <2>2
<1>3. CleanIsPublished
  <2> SUFFICES ASSUME NEW k \in GrantKeys \ Probed, owner[k] # NoOwner, ~owner[k].dirty
               PROVE  LET o == owner[k] rows == Restored(index[k]).member IN
                      /\ index[k].generation = o.generation /\ index[k].shown = StatusOf(o)
                      /\ kv[k] = [generation |-> o.generation, status |-> StatusOf(o)]
                      /\ \A p \in Providers :
                           \/ rows[p] = NoMember /\ (o.revoked \/ p # o.provider \/ o.receipt = 0)
                           \/ ~o.revoked /\ p = o.provider /\ rows[p].status = StatusOf(o)
    BY DEF CleanIsPublished, HasOwner
  <2>1. /\ index[k].generation = owner[k].generation /\ kv[k] = Record(owner[k])
        /\ Matches(index[k], owner[k]) /\ Well(index[k])
    BY ThisKey DEF EntryFits, OwnerFits
  <2>2. \A p \in Providers : Restored(index[k]).member[p] = Kept(index[k].member[p])
    BY <2>1, RestoredEntry
  <2> QED
    BY <2>1, <2>2 DEF Matches, Record
<1> QED
  BY <1>1, <1>2, <1>3 DEF IndexAgrees, AttachInv

(* reconcileAttachment, publishProjection and the fence of                 *)
(* attachmentMutation: whatever handlers failed and whatever calls arrive  *)
(* late, the index is never ahead of an owner, a clean owner is what the   *)
(* index and the KV show, and a dirty one can still be published.          *)
THEOREM IndexFollowsOwners == AttachSpec => []IndexAgrees
<1>1. AttachInit => AttachInv
  BY AttachBegins
<1>2. AttachInv /\ [AttachNext]_attachVars => AttachInv'
  BY AttachSteps
<1>3. AttachInv => IndexAgrees
  BY AttachImplies
<1> QED
  BY <1>1, <1>2, <1>3, PTL DEF AttachSpec

(* Only the calls of CallIndex, Admit and Deliver change an entry.         *)
LEMMA CapacitySteps == AttachInv /\ CapacityKept /\ [AttachNext]_attachVars => CapacityKept'
<1> SUFFICES ASSUME AttachInv, CapacityKept, [AttachNext]_attachVars PROVE CapacityKept'
  OBVIOUS
<1>1. /\ \A k \in GrantKeys : Well(index[k]) /\ owner[k] \in Owners \cup {NoOwner}
      /\ index = [k \in GrantKeys |-> index[k]]
  BY ThisKey DEF AttachInv, AttachTypeOK
<1>2. ASSUME index' = index PROVE CapacityKept'
  BY <1>2 DEF CapacityKept, Seats
<1>3. ASSUME NEW m, CallTyped(m), Accepted(m), index' = [index EXCEPT ![m.key] = Applied(m)]
      PROVE  CapacityKept'
  <2>1. PICK entries : entries = index'
    OBVIOUS
  <2>2. \A p \in Providers : Cardinality(Seats(entries, p)) <= Capacity
    BY <1>1, <1>3, <2>1, CallKeepsCapacity
  <2> QED
    BY <2>1, <2>2 DEF CapacityKept
<1>4. ASSUME NEW k \in GrantKeys, CallIndex(k) PROVE CapacityKept'
  <2>1. CASE Accepted(PublishCall(k))
    <3>1. PublishCall(k).key = k /\ CallTyped(PublishCall(k))
      BY <1>4, PublishCallFits DEF CallIndex, CallFits
    <3>2. index' = [index EXCEPT ![k] = Applied(PublishCall(k))]
      BY <1>4, <2>1 DEF CallIndex
    <3> QED
      BY <1>3, <2>1, <3>1, <3>2
  <2>2. CASE ~Accepted(PublishCall(k))
    BY <1>2, <1>4, <2>2 DEF CallIndex, Refused
  <2> QED
    BY <2>1, <2>2
<1>5. ASSUME NEW k \in GrantKeys, Admit(k) PROVE CapacityKept'
  <2>1. CASE Accepted(AdmitCall(k))
    <3>1. AdmitCall(k).key = k /\ CallTyped(AdmitCall(k))
      BY <1>5, AdmitCallFits DEF Admit, CallFits
    <3>2. index' = [index EXCEPT ![k] = Applied(AdmitCall(k))]
      BY <1>5, <2>1 DEF Admit
    <3> QED
      BY <1>3, <2>1, <3>1, <3>2
  <2>2. CASE ~Accepted(AdmitCall(k))
    BY <1>2, <1>5, <2>2 DEF Admit, Refused
  <2> QED
    BY <2>1, <2>2
<1>6. ASSUME NEW m \in late, Deliver(m) PROVE CapacityKept'
  <2>1. CallTyped(m)
    BY DEF AttachInv, CallFits
  <2> QED
    BY <1>2, <1>3, <1>6, <2>1 DEF Deliver
<1>7. ASSUME NEW k \in GrantKeys,
             \/ PutGrant(k) \/ Install(k) \/ Use(k) \/ Inspect(k) \/ ImportGrant(k) \/ Reconcile(k)
             \/ RevokeGrant(k) \/ ReadIndex(k) \/ CommitGrant(k) \/ Served(k) \/ PublishKv(k)
             \/ Clean(k) \/ RefreshGrant(k) \/ CallFails(k) \/ Probe401(k)
      PROVE  CapacityKept'
  <2>1. index' = index
    BY <1>7 DEF PutGrant, Install, Use, Inspect, ImportGrant, Reconcile, RevokeGrant, ReadIndex,
      CommitGrant, Served, PublishKv, Clean, RefreshGrant, CallFails, Probe401
  <2> QED
    BY <1>2, <2>1
<1>8. CASE UNCHANGED attachVars
  BY <1>2, <1>8 DEF attachVars
<1>9. Probed \subseteq GrantKeys
  BY AttachmentsType
<1> QED
  BY <1>4, <1>5, <1>6, <1>7, <1>8, <1>9 DEF AttachNext, Step

(* admitGrantAttachment: for any number of grants and any capacity, the    *)
(* active members and active proposals of a pool never exceed its          *)
(* capacity, whichever proposals are put back, acknowledged or late.       *)
THEOREM PoolsKeepCapacity == AttachSpec => []CapacityKept
<1>1. AttachInit => AttachInv /\ CapacityKept
  BY AttachBegins DEF AttachInit, CapacityKept
<1>2. AttachInv /\ CapacityKept /\ [AttachNext]_attachVars => AttachInv' /\ CapacityKept'
  BY AttachSteps, CapacitySteps
<1> QED
  BY <1>1, <1>2, PTL DEF AttachSpec

-----------------------------------------------------------------------------
(***************************************************************************)
(* Feedback. What is known of a grant (GrantRuntime): feedback that is     *)
(* coalesced, repeated, late or out of order is merged into the state that *)
(* its observations describe.                                              *)
(*                                                                         *)
(* What carries the proof: every state anywhere - pending in an isolate,   *)
(* on its way, or stored - describes the observations it is made of, and   *)
(* merging two such states describes the observations of both.             *)
(***************************************************************************)

(* The readings, snapshots and signals in a set of observations.           *)
ReadingsOf(S, w) == {s.win[w] : s \in S} \ {Unknown}
SnapsOf(S) == {s.snap : s \in S} \ {Unknown}
SignalsOf(S) == {s.until : s \in S} \ {0}

(* The state x describes the observations S at the time t.                 *)
SnapHeld(x, S) ==
  IF x.snap = Unknown THEN SnapsOf(S) = {} ELSE x.snap \in Newest(SnapsOf(S))
WindowHeld(x, S, w) ==
  IF x.win[w] = Unknown THEN \A q \in ReadingsOf(S, w) : Retires(x.snap, w, q)
  ELSE x.win[w] \in Newest(ReadingsOf(S, w)) /\ ~Retires(x.snap, w, x.win[w])
SignalHeld(x, S, t) ==
  /\ x.until \in SignalsOf(S) \cup {0}
  /\ SignalsOf(S) # {} /\ (\A u \in SignalsOf(S) : u > t) => x.until > t
Seen(x, sg) == {sg[n] : n \in x.of}
Describes(x, sg, t) ==
  /\ x \in RuntimeState /\ x.of # {} /\ x.of \subseteq DOMAIN sg
  /\ \A n \in x.of : sg[n].rev = x.rev
  /\ SnapHeld(x, Seen(x, sg)) /\ SignalHeld(x, Seen(x, sg), t)
  /\ \A w \in QuotaWindows : WindowHeld(x, Seen(x, sg), w)

(* Of one time there is one snapshot, and it comes with its own readings.  *)
SightingsHeld(sg) ==
  /\ sg \in Seq(RuntimeState)
  /\ \A n \in DOMAIN sg : sg[n].snap # Unknown => \A w \in sg[n].snap.ids :
       sg[n].win[w] # Unknown /\ sg[n].win[w].at = sg[n].snap.at
  /\ \A m, n \in DOMAIN sg :
       sg[m].snap # Unknown /\ sg[n].snap # Unknown /\ sg[m].snap.at = sg[n].snap.at
         => sg[m].snap = sg[n].snap

(* A poll takes its snapshot after every other.                            *)
UpkeepHeld(u, sg) ==
  /\ u \in Upkeep \cup {Unknown}
  /\ u # Unknown /\ u.kind = "poll" =>
       \A n \in DOMAIN sg : sg[n].snap # Unknown => sg[n].snap.at < u.at

(* What the authority stored describes all it heard of that revision, and  *)
(* it heard of no newer one.                                               *)
StoredHeld(x, hd, sg, t) ==
  /\ hd \subseteq DOMAIN sg
  /\ IF x = Unknown THEN hd = {}
     ELSE /\ Describes(x, sg, t) /\ x.of \subseteq hd
          /\ \A n \in hd : sg[n].rev <= x.rev /\ (sg[n].rev = x.rev => n \in x.of)

(* What was sent is at the authority, on its way or lost; and an           *)
(* observation was sent, is pending or is behind a newer revision.         *)
Sent(hd, ls, fb) == hd \cup ls \cup UNION {s.of : s \in fb}
Owed(p) == IF p = Unknown THEN {} ELSE p.of
KeptHeld(sg, hd, ls, fb, pd) ==
  \A n \in DOMAIN sg :
    \/ n \in Sent(hd, ls, fb)
    \/ \E i \in Feeders : n \in Owed(pd[i])
    \/ \E t \in DOMAIN sg : sg[t].rev > sg[n].rev

RuntimeInv ==
  /\ cast \in Casts /\ clock \in Nat /\ edits \in Nat
  /\ SightingsHeld(sightings) /\ UpkeepHeld(upkeep, sightings)
  /\ StoredHeld(stored, heard, sightings, clock)
  /\ \A s \in feedback : Describes(s, sightings, clock)
  /\ pendingRuntime \in [Feeders -> RuntimeState \cup {Unknown}]
  /\ \A i \in Feeders :
       pendingRuntime[i] = Unknown \/ Describes(pendingRuntime[i], sightings, clock)
  /\ calls \in [Feeders -> SUBSET RuntimeState]
  /\ \A i \in Feeders : \A s \in calls[i] : s.of \subseteq Sent(heard, lost, feedback)
  /\ KeptHeld(sightings, heard, lost, feedback, pendingRuntime)

-----------------------------------------------------------------------------
LEMMA Distinct ==
  /\ Unknown \notin Reading /\ Unknown \notin UsageSnap /\ Unknown \notin RuntimeState
  /\ Unknown \notin Upkeep
  /\ \A r \in Reading : r.at \in Nat
  /\ \A r \in UsageSnap : r.at \in Nat /\ r.ids \subseteq Polled
  BY UnknownIsNone DEF Reading, UsageSnap

LEMMA StateIs ==
  ASSUME NEW x \in RuntimeState
  PROVE  /\ x # Unknown /\ x.rev \in Nat /\ x.at \in Nat /\ x.until \in Nat
         /\ x.win \in [QuotaWindows -> Reading \cup {Unknown}]
         /\ x.snap \in UsageSnap \cup {Unknown} /\ x.of \subseteq Nat
  BY Distinct DEF RuntimeState

LEMMA Larger ==
  ASSUME NEW a \in Int, NEW b \in Int
  PROVE  Max({a, b}) \in {a, b}
<1>1. \E m \in {a, b} : \A n \in {a, b} : m >= n
  <2>1. CASE a >= b
    BY <2>1
  <2>2. CASE ~(a >= b)
    BY <2>2
  <2> QED
    BY <2>1, <2>2
<1> QED
  BY <1>1 DEF Max

LEMMA RetiresIs ==
  ASSUME NEW p, NEW w, NEW r
  PROVE  Retires(p, w, r) <=> /\ w \in Polled /\ p # Unknown /\ r # Unknown
                              /\ w \notin p.ids /\ r.at <= p.at
  BY DEF Retires

(* The newer of two is one of them and not older than either.              *)
LEMMA NewerIs ==
  ASSUME NEW T, \A t \in T : t.at \in Nat, NEW a \in T \cup {Unknown},
         NEW b \in T \cup {Unknown}, Unknown \notin T
  PROVE  /\ Newer(a, b) \in {a, b} /\ (Newer(a, b) = Unknown <=> a = Unknown /\ b = Unknown)
         /\ a # Unknown => a.at <= Newer(a, b).at
         /\ b # Unknown => b.at <= Newer(a, b).at
<1>1. CASE b # Unknown /\ (a = Unknown \/ b.at >= a.at)
  <2>1. Newer(a, b) = b
    BY <1>1 DEF Newer
  <2>2. b.at \in Nat
    BY <1>1
  <2> QED
    BY <1>1, <2>1, <2>2
<1>2. CASE ~(b # Unknown /\ (a = Unknown \/ b.at >= a.at))
  <2>1. Newer(a, b) = a
    BY <1>2 DEF Newer
  <2>2. CASE b = Unknown
    BY <2>1, <2>2
  <2>3. CASE b # Unknown
    <3>1. a # Unknown /\ a.at \in Nat /\ b.at \in Nat /\ ~(b.at >= a.at)
      BY <1>2, <2>3
    <3> QED
      BY <2>1, <2>3, <3>1
  <2> QED
    BY <2>2, <2>3
<1> QED
  BY <1>1, <1>2

-----------------------------------------------------------------------------
(* What SightingsHeld says of a set of observations.                       *)
Telling(S) ==
  /\ S \subseteq RuntimeState
  /\ \A s \in S : s.snap # Unknown => \A w \in s.snap.ids :
       s.win[w] # Unknown /\ s.win[w].at = s.snap.at
  /\ \A s, u \in S :
       s.snap # Unknown /\ u.snap # Unknown /\ s.snap.at = u.snap.at => s.snap = u.snap

LEMMA ReadingsTyped ==
  ASSUME NEW S, Telling(S), NEW w \in QuotaWindows, NEW q \in ReadingsOf(S, w)
  PROVE  q \in Reading /\ q # Unknown /\ q.at \in Nat
<1>1. PICK s \in S : q = s.win[w] /\ q # Unknown
  BY DEF ReadingsOf
<1>2. s.win \in [QuotaWindows -> Reading \cup {Unknown}]
  BY StateIs DEF Telling
<1> QED
  BY <1>1, <1>2, Distinct

LEMMA SnapsTyped ==
  ASSUME NEW S, Telling(S), NEW p \in SnapsOf(S)
  PROVE  p \in UsageSnap /\ p # Unknown /\ p.at \in Nat /\ p.ids \subseteq Polled
<1>1. PICK s \in S : p = s.snap /\ p # Unknown
  BY DEF SnapsOf
<1>2. s.snap \in UsageSnap \cup {Unknown}
  BY StateIs DEF Telling
<1> QED
  BY <1>1, <1>2, Distinct

(* What a state x says of a reading q it is made of, when p is the newer   *)
(* of its snapshot and another's: it has a reading at least as new, or p   *)
(* retires q, or the other state has a newer reading.                      *)
LEMMA SideWindow ==
  ASSUME NEW S, NEW T, Telling(S \cup T), NEW x \in RuntimeState, NEW y \in RuntimeState,
         NEW w \in QuotaWindows, SnapHeld(x, S), SnapHeld(y, T),
         WindowHeld(x, S, w), WindowHeld(y, T, w), NEW p \in {x.snap, y.snap},
         x.snap # Unknown => p # Unknown /\ x.snap.at <= p.at, NEW q \in ReadingsOf(S, w)
  PROVE  /\ x.win[w] # Unknown => q.at <= x.win[w].at
         /\ x.win[w] = Unknown =>
              /\ w \in Polled /\ p # Unknown /\ q.at <= p.at
              /\ Retires(p, w, q) \/ (y.win[w] # Unknown /\ q.at < y.win[w].at)
<1>1. Telling(S) /\ Telling(T)
  BY DEF Telling
<1>2. q \in Reading /\ q # Unknown /\ q.at \in Nat
  BY <1>1, ReadingsTyped
<1>3. ASSUME x.win[w] # Unknown PROVE q.at <= x.win[w].at
  BY <1>3 DEF WindowHeld, Newest
<1>4. ASSUME x.win[w] = Unknown
      PROVE  /\ w \in Polled /\ p # Unknown /\ q.at <= p.at
             /\ Retires(p, w, q) \/ (y.win[w] # Unknown /\ q.at < y.win[w].at)
  <2>1. Retires(x.snap, w, q)
    BY <1>4 DEF WindowHeld
  <2>2. w \in Polled /\ x.snap # Unknown /\ w \notin x.snap.ids /\ q.at <= x.snap.at
    BY <2>1, RetiresIs
  <2>3. p # Unknown /\ x.snap.at <= p.at
    BY <2>2
  <2>4. x.snap.at \in Nat /\ p.at \in Nat
    BY <2>2, <2>3, StateIs, Distinct
  <2>5. q.at <= p.at
    BY <1>2, <2>2, <2>3, <2>4
  <2>6. CASE w \notin p.ids
    BY <1>2, <2>2, <2>3, <2>5, <2>6, RetiresIs
  <2>7. CASE w \in p.ids
    <3>1. p = y.snap /\ p # x.snap
      BY <2>2, <2>7
    <3>2. p \in SnapsOf(T) /\ x.snap \in SnapsOf(S)
      BY <2>2, <2>3, <3>1 DEF SnapHeld, Newest
    <3>3. PICK u \in T : u.snap = p
      BY <3>2 DEF SnapsOf
    <3>4. PICK s \in S : s.snap = x.snap
      BY <3>2 DEF SnapsOf
    <3>5. p.at # x.snap.at
      BY <2>2, <2>3, <3>1, <3>3, <3>4 DEF Telling
    <3>6. u.win[w] # Unknown /\ u.win[w].at = p.at /\ u.win[w] \in ReadingsOf(T, w)
      BY <2>3, <2>7, <3>3 DEF Telling, ReadingsOf
    <3>7. y.win[w] # Unknown
      <4>1. ~Retires(y.snap, w, u.win[w])
        BY <2>7, <3>1, RetiresIs
      <4> QED
        BY <3>6, <4>1 DEF WindowHeld
    <3>8. u.win[w].at <= y.win[w].at
      BY <3>6, <3>7 DEF WindowHeld, Newest
    <3>9. y.win[w].at \in Nat
      BY <3>7, StateIs, Distinct
    <3> QED
      BY <1>2, <2>2, <2>3, <2>4, <2>5, <3>5, <3>6, <3>7, <3>8, <3>9
  <2> QED
    BY <2>2, <2>3, <2>5, <2>6, <2>7
<1> QED
  BY <1>3, <1>4

LEMMA MergedSnap ==
  ASSUME NEW S, NEW T, Telling(S \cup T), NEW x \in RuntimeState, NEW y \in RuntimeState,
         SnapHeld(x, S), SnapHeld(y, T), NEW z, z.snap = Newer(x.snap, y.snap)
  PROVE  SnapHeld(z, S \cup T)
<1>1. /\ x.snap \in UsageSnap \cup {Unknown} /\ y.snap \in UsageSnap \cup {Unknown}
      /\ Unknown \notin UsageSnap /\ \A p \in UsageSnap : p.at \in Nat
  BY StateIs, Distinct
<1>2. /\ z.snap \in {x.snap, y.snap}
      /\ z.snap = Unknown <=> x.snap = Unknown /\ y.snap = Unknown
      /\ x.snap # Unknown => x.snap.at <= z.snap.at
      /\ y.snap # Unknown => y.snap.at <= z.snap.at
  BY <1>1, NewerIs
<1>3. SnapsOf(S \cup T) = SnapsOf(S) \cup SnapsOf(T)
  BY DEF SnapsOf
<1>4. Telling(S) /\ Telling(T)
  BY DEF Telling
<1>5. CASE z.snap = Unknown
  BY <1>2, <1>3, <1>5 DEF SnapHeld
<1>6. CASE z.snap # Unknown
  <2>1. z.snap \in SnapsOf(S \cup T)
    BY <1>2, <1>3, <1>6 DEF SnapHeld, Newest
  <2>2. z.snap.at \in Nat
    BY <1>1, <1>2, <1>6
  <2>3. ASSUME NEW q \in SnapsOf(S) PROVE q.at <= z.snap.at
    <3>1. x.snap # Unknown /\ q.at <= x.snap.at /\ x.snap.at \in Nat /\ q.at \in Nat
      BY <1>1, <1>4, <2>3, SnapsTyped DEF SnapHeld, Newest
    <3> QED
      BY <1>2, <2>2, <3>1
  <2>4. ASSUME NEW q \in SnapsOf(T) PROVE q.at <= z.snap.at
    <3>1. y.snap # Unknown /\ q.at <= y.snap.at /\ y.snap.at \in Nat /\ q.at \in Nat
      BY <1>1, <1>4, <2>4, SnapsTyped DEF SnapHeld, Newest
    <3> QED
      BY <1>2, <2>2, <3>1
  <2> QED
    BY <1>3, <1>6, <2>1, <2>3, <2>4 DEF SnapHeld, Newest
<1> QED
  BY <1>5, <1>6

LEMMA MergedWindow ==
  ASSUME NEW S, NEW T, Telling(S \cup T), NEW x \in RuntimeState, NEW y \in RuntimeState,
         NEW w \in QuotaWindows, SnapHeld(x, S), SnapHeld(y, T),
         WindowHeld(x, S, w), WindowHeld(y, T, w), NEW z, z.snap = Newer(x.snap, y.snap),
         z.win[w] = IF Retires(z.snap, w, Newer(x.win[w], y.win[w])) THEN Unknown
                    ELSE Newer(x.win[w], y.win[w])
  PROVE  WindowHeld(z, S \cup T, w)
<1> DEFINE p == z.snap
           r == Newer(x.win[w], y.win[w])
<1>1. /\ p \in {x.snap, y.snap} /\ (x.snap # Unknown => p # Unknown /\ x.snap.at <= p.at)
      /\ (y.snap # Unknown => p # Unknown /\ y.snap.at <= p.at)
      /\ p \in UsageSnap \cup {Unknown}
  <2>1. /\ x.snap \in UsageSnap \cup {Unknown} /\ y.snap \in UsageSnap \cup {Unknown}
        /\ Unknown \notin UsageSnap /\ \A s \in UsageSnap : s.at \in Nat
    BY StateIs, Distinct
  <2> QED
    BY <2>1, NewerIs
<1>2. x.win[w] \in Reading \cup {Unknown} /\ y.win[w] \in Reading \cup {Unknown}
  BY StateIs
<1>3. /\ r \in {x.win[w], y.win[w]} /\ (r = Unknown <=> x.win[w] = Unknown /\ y.win[w] = Unknown)
      /\ (x.win[w] # Unknown => x.win[w].at <= r.at)
      /\ (y.win[w] # Unknown => y.win[w].at <= r.at)
  BY <1>2, Distinct, NewerIs
<1>4. r # Unknown => r.at \in Nat
  BY <1>2, <1>3, Distinct
<1>5. p # Unknown => p.at \in Nat
  BY <1>1, Distinct
<1>6. ReadingsOf(S \cup T, w) = ReadingsOf(S, w) \cup ReadingsOf(T, w)
  BY DEF ReadingsOf
<1>7. T \cup S = S \cup T
  OBVIOUS
<1> HIDE DEF p, r
(* A reading that the merged one is not as new as is retired with it.      *)
<1>8. ASSUME NEW q \in ReadingsOf(S \cup T, w)
      PROVE  /\ q.at \in Nat /\ q # Unknown
             /\ \/ r # Unknown /\ q.at <= r.at
                \/ w \in Polled /\ p # Unknown /\ q.at <= p.at
             /\ r # Unknown /\ ~Retires(p, w, r) => q.at <= r.at
             /\ r = Unknown => Retires(p, w, q)
  <2>1. q.at \in Nat /\ q # Unknown
    BY <1>8, ReadingsTyped
  <2>2. ASSUME NEW a \in {x.win[w], y.win[w]}, NEW b \in {x.win[w], y.win[w]},
               a # Unknown => q.at <= a.at,
               a = Unknown => /\ w \in Polled /\ p # Unknown /\ q.at <= p.at
                              /\ Retires(p, w, q) \/ (b # Unknown /\ q.at < b.at)
        PROVE  /\ \/ r # Unknown /\ q.at <= r.at
                  \/ w \in Polled /\ p # Unknown /\ q.at <= p.at
               /\ r # Unknown /\ ~Retires(p, w, r) => q.at <= r.at
               /\ r = Unknown => Retires(p, w, q)
    <3>1. (a # Unknown => a.at \in Nat /\ a.at <= r.at /\ r # Unknown)
          /\ (b # Unknown => b.at \in Nat /\ b.at <= r.at /\ r # Unknown)
      BY <1>2, <1>3, Distinct
    <3>2. CASE a # Unknown
      BY <1>4, <2>1, <2>2, <3>1, <3>2
    <3>3. CASE a = Unknown
      <4>1. w \in Polled /\ p # Unknown /\ q.at <= p.at
            /\ (Retires(p, w, q) \/ (b # Unknown /\ q.at < b.at))
        BY <2>2, <3>3
      <4>2. CASE b # Unknown /\ q.at < b.at
        BY <1>4, <2>1, <3>1, <4>1, <4>2
      <4>3. CASE Retires(p, w, q)
        <5>1. w \notin p.ids
          BY <4>3, RetiresIs
        <5>2. ASSUME r # Unknown, ~Retires(p, w, r) PROVE q.at <= r.at
          <6>1. ~(r.at <= p.at)
            BY <4>1, <5>1, <5>2, RetiresIs
          <6> QED
            BY <1>4, <1>5, <2>1, <4>1, <5>2, <6>1
        <5> QED
          BY <4>1, <4>3, <5>2
      <4> QED
        BY <4>1, <4>2, <4>3
    <3> QED
      BY <3>2, <3>3
  <2>3. CASE q \in ReadingsOf(S, w)
    <3>1. /\ x.win[w] # Unknown => q.at <= x.win[w].at
          /\ x.win[w] = Unknown =>
               /\ w \in Polled /\ p # Unknown /\ q.at <= p.at
               /\ Retires(p, w, q) \/ (y.win[w] # Unknown /\ q.at < y.win[w].at)
      BY <1>1, <2>3, SideWindow
    <3> QED
      BY <2>1, <2>2, <3>1
  <2>4. CASE q \in ReadingsOf(T, w)
    <3>1. /\ y.win[w] # Unknown => q.at <= y.win[w].at
          /\ y.win[w] = Unknown =>
               /\ w \in Polled /\ p # Unknown /\ q.at <= p.at
               /\ Retires(p, w, q) \/ (x.win[w] # Unknown /\ q.at < x.win[w].at)
      <4>1. p \in {y.snap, x.snap} /\ Telling(T \cup S)
        BY <1>1, <1>7
      <4> QED
        BY <1>1, <2>4, <4>1, SideWindow
    <3> QED
      BY <2>1, <2>2, <3>1
  <2> QED
    BY <1>6, <1>8, <2>3, <2>4
<1>9. z.win[w] = (IF Retires(p, w, r) THEN Unknown ELSE r)
  BY DEF p, r
<1>10. CASE r = Unknown
  BY <1>8, <1>9, <1>10 DEF WindowHeld, p
<1>11. CASE r # Unknown /\ Retires(p, w, r)
  <2>1. w \in Polled /\ p # Unknown /\ w \notin p.ids /\ r.at <= p.at
    BY <1>11, RetiresIs
  <2>2. ASSUME NEW q \in ReadingsOf(S \cup T, w) PROVE Retires(p, w, q)
    <3>1. q.at <= p.at
      <4>1. q.at \in Nat /\ (q.at <= r.at \/ q.at <= p.at)
        BY <1>8
      <4>2. r.at \in Nat /\ p.at \in Nat
        BY <1>4, <1>5, <1>11, <2>1
      <4> QED
        BY <2>1, <4>1, <4>2
    <3> QED
      BY <1>8, <2>1, <3>1, RetiresIs
  <2> QED
    BY <1>9, <1>11, <2>2 DEF WindowHeld, p
<1>12. CASE r # Unknown /\ ~Retires(p, w, r)
  <2>1. r \in ReadingsOf(S \cup T, w)
    <3>1. r = x.win[w] => r \in ReadingsOf(S, w)
      BY <1>12 DEF WindowHeld, Newest
    <3>2. r = y.win[w] => r \in ReadingsOf(T, w)
      BY <1>12 DEF WindowHeld, Newest
    <3> QED
      BY <1>3, <1>6, <3>1, <3>2
  <2> QED
    BY <1>8, <1>9, <1>12, <2>1 DEF WindowHeld, Newest, p
<1> QED
  BY <1>10, <1>11, <1>12

LEMMA MergedSignal ==
  ASSUME NEW S, NEW T, NEW x \in RuntimeState, NEW y \in RuntimeState, clock \in Nat,
         SignalHeld(x, S, clock), SignalHeld(y, T, clock), NEW z, z.until = Signal(x, y)
  PROVE  SignalHeld(z, S \cup T, clock)
<1>1. SignalsOf(S \cup T) = SignalsOf(S) \cup SignalsOf(T)
  BY DEF SignalsOf
<1>2. x # Unknown /\ y # Unknown /\ x.until \in Nat /\ y.until \in Nat
  BY StateIs
<1>3. /\ Signal(x, y) \in {x.until, y.until, 0}
      /\ (x.until > clock \/ y.until > clock) => Signal(x, y) > clock
  BY <1>2 DEF Signal, Cooling
<1>4. z.until \in SignalsOf(S \cup T) \cup {0}
  BY <1>1, <1>3 DEF SignalHeld
<1>5. ASSUME SignalsOf(S \cup T) # {}, \A u \in SignalsOf(S \cup T) : u > clock
      PROVE  z.until > clock
  BY <1>1, <1>3, <1>5 DEF SignalHeld
<1> QED
  BY <1>4, <1>5 DEF SignalHeld

LEMMA SeenTelling ==
  ASSUME NEW sg, SightingsHeld(sg), NEW x, x.of \subseteq DOMAIN sg
  PROVE  Telling(Seen(x, sg))
<1>1. \A n \in DOMAIN sg : sg[n] \in RuntimeState
  BY DEF SightingsHeld
<1>2. \A s \in Seen(x, sg) : \E n \in DOMAIN sg : s = sg[n]
  BY DEF Seen
<1> QED
  BY <1>1, <1>2 DEF Telling, SightingsHeld

(* The merge of two descriptions describes the observations of both, or is *)
(* the one of the newer revision.                                          *)
LEMMA MergeHeld ==
  ASSUME clock \in Nat, NEW sg, SightingsHeld(sg), NEW x, Describes(x, sg, clock),
         NEW y, Describes(y, sg, clock)
  PROVE  /\ Describes(Merge(x, y), sg, clock)
         /\ x.rev > y.rev => Merge(x, y) = x
         /\ x.rev < y.rev => Merge(x, y) = y
         /\ x.rev = y.rev => Merge(x, y).rev = x.rev /\ Merge(x, y).of = x.of \cup y.of
<1>1. x \in RuntimeState /\ y \in RuntimeState /\ x # Unknown /\ y # Unknown
      /\ x.rev \in Nat /\ y.rev \in Nat
  BY StateIs DEF Describes
<1>2. CASE x.rev # y.rev
  BY <1>1, <1>2 DEF Merge
<1>3. CASE x.rev = y.rev
  <2> DEFINE p == Newer(x.snap, y.snap)
             win == [w \in QuotaWindows |-> Newer(x.win[w], y.win[w])]
             v == [w \in QuotaWindows |-> IF Retires(p, w, win[w]) THEN Unknown ELSE win[w]]
             a == Max({x.at, y.at})
             u == Signal(x, y)
             o == x.of \cup y.of
             z == [rev |-> x.rev, at |-> a, until |-> u, win |-> v, snap |-> p, of |-> o]
  <2>1. Merge(x, y) = z
    BY <1>1, <1>3 DEF Merge
  <2>2. /\ x.snap \in UsageSnap \cup {Unknown} /\ y.snap \in UsageSnap \cup {Unknown}
        /\ x.win \in [QuotaWindows -> Reading \cup {Unknown}]
        /\ y.win \in [QuotaWindows -> Reading \cup {Unknown}]
        /\ x.at \in Nat /\ y.at \in Nat /\ x.until \in Nat /\ y.until \in Nat
        /\ x.of \subseteq Nat /\ y.of \subseteq Nat
    BY <1>1, StateIs
  <2>3. p \in UsageSnap \cup {Unknown}
    BY <2>2 DEF Newer
  <2>4. \A w \in QuotaWindows : Newer(x.win[w], y.win[w]) \in Reading \cup {Unknown}
    BY <2>2 DEF Newer
  <2>5. v \in [QuotaWindows -> Reading \cup {Unknown}]
    BY <2>4
  <2>6. a \in Nat
    BY <2>2, Larger
  <2>7. u \in Nat
    BY <2>2 DEF Signal
  <2>8. o \subseteq Nat
    BY <2>2
  <2>9. \A w \in QuotaWindows :
          v[w] = IF Retires(p, w, Newer(x.win[w], y.win[w])) THEN Unknown
                 ELSE Newer(x.win[w], y.win[w])
    OBVIOUS
  <2> HIDE DEF p, v, a, u
  <2>10. /\ z \in RuntimeState /\ z.rev = x.rev /\ z.until = u /\ z.snap = p /\ z.of = o
         /\ z.win = v
    BY <1>1, <2>3, <2>5, <2>6, <2>7, <2>8 DEF RuntimeState
  <2> HIDE DEF z, o
  <2>11. Seen(z, sg) = Seen(x, sg) \cup Seen(y, sg)
    BY <2>10 DEF Seen, o
  <2>12. z.of \subseteq DOMAIN sg /\ z.of # {} /\ \A n \in z.of : sg[n].rev = z.rev
    BY <1>3, <2>10 DEF Describes, o
  <2>13. Telling(Seen(x, sg) \cup Seen(y, sg))
    BY <2>11, <2>12, SeenTelling
  <2>14. SnapHeld(z, Seen(z, sg))
    BY <1>1, <2>10, <2>11, <2>13, MergedSnap DEF Describes, p
  <2>15. SignalHeld(z, Seen(z, sg), clock)
    BY <1>1, <2>10, <2>11, MergedSignal DEF Describes, u
  <2>16. ASSUME NEW w \in QuotaWindows PROVE WindowHeld(z, Seen(z, sg), w)
    <3>1. /\ z.snap = Newer(x.snap, y.snap)
          /\ z.win[w] = IF Retires(z.snap, w, Newer(x.win[w], y.win[w])) THEN Unknown
                        ELSE Newer(x.win[w], y.win[w])
      BY <2>9, <2>10 DEF p
    <3> QED
      BY <1>1, <2>11, <2>13, <3>1, MergedWindow DEF Describes
  <2>17. Describes(z, sg, clock)
    BY <2>10, <2>12, <2>14, <2>15, <2>16 DEF Describes
  <2> QED
    BY <1>1, <1>3, <2>1, <2>10, <2>17 DEF o
<1> QED
  BY <1>2, <1>3

-----------------------------------------------------------------------------
(* An observation describes itself.                                        *)
LEMMA ObservedHeld ==
  ASSUME NEW s \in RuntimeState, NEW sg, NEW n \in DOMAIN sg, sg[n] = s, s.of = {n}, NEW t,
         s.snap # Unknown => \A w \in s.snap.ids :
           s.win[w] # Unknown /\ s.win[w].at = s.snap.at,
         s.snap # Unknown => \A w \in Polled \ s.snap.ids : s.win[w] = Unknown
  PROVE  Describes(s, sg, t)
<1>1. Seen(s, sg) = {s}
  BY DEF Seen
<1>2. SnapsOf({s}) = {s.snap} \ {Unknown} /\ SignalsOf({s}) = {s.until} \ {0}
  BY DEF SnapsOf, SignalsOf, ReadingsOf
<1>3. s.until \in Nat /\ (s.snap # Unknown => s.snap.at \in Nat)
      /\ \A w \in QuotaWindows : s.win[w] # Unknown => s.win[w].at \in Nat
  BY StateIs, Distinct
<1>4. SnapHeld(s, {s})
  <2>1. CASE s.snap = Unknown
    BY <1>2, <2>1 DEF SnapHeld
  <2>2. CASE s.snap # Unknown
    <3>1. SnapsOf({s}) = {s.snap} /\ s.snap.at <= s.snap.at
      BY <1>2, <1>3, <2>2
    <3> QED
      BY <2>2, <3>1 DEF SnapHeld, Newest
  <2> QED
    BY <2>1, <2>2
<1>5. SignalHeld(s, {s}, t)
  BY <1>2, <1>3 DEF SignalHeld
<1>6. ASSUME NEW w \in QuotaWindows PROVE WindowHeld(s, {s}, w)
  <2>1. CASE s.win[w] = Unknown
    <3>1. ReadingsOf({s}, w) = {}
      BY <2>1 DEF ReadingsOf
    <3> QED
      BY <2>1, <3>1 DEF WindowHeld
  <2>2. CASE s.win[w] # Unknown
    <3>1. ReadingsOf({s}, w) = {s.win[w]} /\ s.win[w].at <= s.win[w].at
      <4>1. s.win[w].at \in Nat
        BY <1>3, <2>2
      <4>2. ReadingsOf({s}, w) = {s.win[w]}
        BY <2>2 DEF ReadingsOf
      <4> QED
        BY <4>1, <4>2
    <3>2. ~Retires(s.snap, w, s.win[w])
      BY <2>2, RetiresIs
    <3>3. s.win[w] \in Newest(ReadingsOf({s}, w))
      BY <3>1 DEF Newest
    <3> QED
      BY <2>2, <3>2, <3>3 DEF WindowHeld
  <2> QED
    BY <2>1, <2>2
<1> QED
  BY <1>1, <1>4, <1>5, <1>6 DEF Describes

(* A description stays one when more is observed and time passes.          *)
LEMMA DescribesStays ==
  ASSUME NEW x, NEW sg, NEW sh, NEW t \in Nat, NEW r \in Nat, t <= r, Describes(x, sg, t),
         DOMAIN sg \subseteq DOMAIN sh,
         \A n \in DOMAIN sg : sh[n] = sg[n] /\ sg[n] \in RuntimeState
  PROVE  Describes(x, sh, r)
<1>1. Seen(x, sh) = Seen(x, sg)
  BY DEF Describes, Seen
<1>2. x \in RuntimeState /\ x.of # {} /\ x.of \subseteq DOMAIN sh
      /\ \A n \in x.of : sh[n].rev = x.rev
  BY DEF Describes
<1>3. SignalHeld(x, Seen(x, sg), r)
  <2> DEFINE U == SignalsOf(Seen(x, sg))
  <2>1. x.until \in U \cup {0} /\ (U # {} /\ (\A u \in U : u > t) => x.until > t)
    BY DEF Describes, SignalHeld
  <2>2. U \subseteq Nat
    <3>1. ASSUME NEW s \in Seen(x, sg) PROVE s.until \in Nat
      <4>1. PICK n \in DOMAIN sg : s = sg[n]
        BY DEF Seen, Describes
      <4> QED
        BY <4>1, StateIs
    <3> QED
      BY <3>1 DEF SignalsOf
  <2> HIDE DEF U
  <2>3. ASSUME U # {}, \A u \in U : u > r PROVE x.until > r
    <3>1. \A u \in U : u > t
      BY <2>2, <2>3
    <3>2. x.until > t
      BY <2>1, <2>3, <3>1
    <3>3. x.until \in U
      BY <2>1, <3>2
    <3> QED
      BY <2>3, <3>3
  <2> QED
    BY <2>1, <2>3 DEF SignalHeld, U
<1> QED
  BY <1>1, <1>2, <1>3 DEF Describes

-----------------------------------------------------------------------------
LEMMA Appended ==
  ASSUME NEW S, NEW sg \in Seq(S), NEW s \in S
  PROVE  LET sh == Append(sg, s)
             n == Len(sg) + 1
         IN  /\ sh \in Seq(S) /\ DOMAIN sh = DOMAIN sg \cup {n} /\ sh[n] = s
             /\ n \in Nat /\ n \notin DOMAIN sg /\ n \in DOMAIN sh
             /\ \A m \in DOMAIN sg : sh[m] = sg[m] /\ m \in DOMAIN sh
<1>1. Len(sg) \in Nat /\ DOMAIN sg = 1..Len(sg)
  OBVIOUS
<1>2. Append(sg, s) \in Seq(S) /\ Len(Append(sg, s)) = Len(sg) + 1
  OBVIOUS
<1>3. DOMAIN Append(sg, s) = 1..(Len(sg) + 1)
  BY <1>1, <1>2
<1>4. \A m \in 1..Len(sg) : Append(sg, s)[m] = sg[m]
  BY <1>1
<1>5. Append(sg, s)[Len(sg) + 1] = s
  BY <1>1
<1> QED
  BY <1>1, <1>2, <1>3, <1>4, <1>5

LEMMA Now ==
  ASSUME RuntimeInv
  PROVE  /\ cast \in Casts /\ clock \in Nat /\ edits \in Nat
         /\ SightingsHeld(sightings) /\ sightings \in Seq(RuntimeState)
         /\ \A n \in DOMAIN sightings : sightings[n] \in RuntimeState
         /\ UpkeepHeld(upkeep, sightings) /\ StoredHeld(stored, heard, sightings, clock)
         /\ \A s \in feedback : Describes(s, sightings, clock)
         /\ pendingRuntime \in [Feeders -> RuntimeState \cup {Unknown}]
         /\ \A i \in Feeders :
              pendingRuntime[i] = Unknown \/ Describes(pendingRuntime[i], sightings, clock)
         /\ calls \in [Feeders -> SUBSET RuntimeState]
         /\ \A i \in Feeders : \A s \in calls[i] : s.of \subseteq Sent(heard, lost, feedback)
         /\ KeptHeld(sightings, heard, lost, feedback, pendingRuntime)
  BY DEF RuntimeInv, SightingsHeld

(* What is described stays so as observations are added and time passes.   *)
LEMMA Grows ==
  ASSUME RuntimeInv, NEW sh, NEW r \in Nat, clock <= r, DOMAIN sightings \subseteq DOMAIN sh,
         \A n \in DOMAIN sightings : sh[n] = sightings[n]
  PROVE  /\ \A x : Describes(x, sightings, clock) => Describes(x, sh, r)
         /\ StoredHeld(stored, heard, sh, r)
         /\ \A s \in feedback : Describes(s, sh, r)
         /\ \A i \in Feeders : pendingRuntime[i] = Unknown \/ Describes(pendingRuntime[i], sh, r)
<1>1. \A x : Describes(x, sightings, clock) => Describes(x, sh, r)
  BY Now, DescribesStays
<1>2. StoredHeld(stored, heard, sh, r)
  BY <1>1, Now DEF StoredHeld
<1> QED
  BY <1>1, <1>2, Now

(* What may be observed next.                                              *)
Sightable(s) ==
  /\ s \in RuntimeState /\ s.of = {Number}
  /\ s.snap # Unknown =>
       /\ upkeep # Unknown /\ upkeep.kind = "poll" /\ s.snap.at = upkeep.at
       /\ \A w \in s.snap.ids : s.win[w] # Unknown /\ s.win[w].at = s.snap.at
       /\ \A w \in Polled \ s.snap.ids : s.win[w] = Unknown

LEMMA SightHeld ==
  ASSUME RuntimeInv, NEW s, Sightable(s), Sight(s)
  PROVE  /\ sightings' = Append(sightings, s) /\ SightingsHeld(sightings')
         /\ Describes(s, sightings', clock)
         /\ DOMAIN sightings' = DOMAIN sightings \cup {Number} /\ sightings'[Number] = s
         /\ Number \notin DOMAIN sightings
         /\ \A n \in DOMAIN sightings : sightings'[n] = sightings[n]
<1> DEFINE sg == sightings
           sh == Append(sightings, s)
           m == Number
<1>1. sightings' = sh /\ s \in RuntimeState /\ s.of = {m}
  BY DEF Sight, Sightable
<1>2. /\ sh \in Seq(RuntimeState) /\ DOMAIN sh = DOMAIN sg \cup {m} /\ sh[m] = s
      /\ m \in Nat /\ m \notin DOMAIN sg /\ m \in DOMAIN sh
      /\ \A n \in DOMAIN sg : sh[n] = sg[n] /\ n \in DOMAIN sh
  BY <1>1, Now, Appended DEF Number
<1>3. SightingsHeld(sg) /\ UpkeepHeld(upkeep, sg)
  BY Now
<1> HIDE DEF sh, m, sg
<1>4. \A n \in DOMAIN sh : n = m \/ (n \in DOMAIN sg /\ sh[n] = sg[n])
  BY <1>2
<1>5. ASSUME NEW n \in DOMAIN sh, sh[n].snap # Unknown, NEW w \in sh[n].snap.ids
      PROVE  sh[n].win[w] # Unknown /\ sh[n].win[w].at = sh[n].snap.at
  BY <1>2, <1>3, <1>4, <1>5 DEF SightingsHeld, Sightable
<1>6. ASSUME NEW n \in DOMAIN sg, sg[n].snap # Unknown, s.snap # Unknown
      PROVE  sg[n].snap.at # s.snap.at
  <2>1. upkeep # Unknown /\ upkeep.kind = "poll" /\ s.snap.at = upkeep.at
    BY <1>6 DEF Sightable
  <2>2. sg[n].snap.at < upkeep.at
    BY <1>3, <1>6, <2>1 DEF UpkeepHeld
  <2>3. sg[n] \in RuntimeState /\ upkeep \in Upkeep
    BY <1>3, <2>1, Now DEF UpkeepHeld, sg
  <2>4. sg[n].snap.at \in Nat
    BY <1>6, <2>3, StateIs, Distinct
  <2>5. upkeep.at \in Nat
    BY <2>3 DEF Upkeep
  <2> QED
    BY <2>1, <2>2, <2>4, <2>5
<1>7. ASSUME NEW j \in DOMAIN sh, NEW n \in DOMAIN sh, sh[j].snap # Unknown,
             sh[n].snap # Unknown, sh[j].snap.at = sh[n].snap.at
      PROVE  sh[j].snap = sh[n].snap
  <2>1. CASE j = m /\ n = m
    BY <2>1
  <2>2. CASE j = m /\ n # m
    BY <1>2, <1>4, <1>6, <1>7, <2>2
  <2>3. CASE j # m /\ n = m
    BY <1>2, <1>4, <1>6, <1>7, <2>3
  <2>4. CASE j # m /\ n # m
    BY <1>3, <1>4, <1>7, <2>4 DEF SightingsHeld
  <2> QED
    BY <2>1, <2>2, <2>3, <2>4
<1>8. SightingsHeld(sh)
  BY <1>2, <1>5, <1>7 DEF SightingsHeld
<1>9. Describes(s, sh, clock)
  BY <1>1, <1>2, ObservedHeld DEF Sightable
<1> QED
  BY <1>1, <1>2, <1>8, <1>9 DEF sh, m, sg

LEMMA MoreSent ==
  ASSUME NEW hd, NEW ls, NEW fb, NEW hd2, NEW ls2, NEW fb2, hd \subseteq hd2, ls \subseteq ls2,
         \A s \in fb : s \in fb2 \/ s.of \subseteq hd2 \cup ls2
  PROVE  Sent(hd, ls, fb) \subseteq Sent(hd2, ls2, fb2)
<1> SUFFICES ASSUME NEW n \in Sent(hd, ls, fb) PROVE n \in Sent(hd2, ls2, fb2)
  OBVIOUS
<1>1. CASE n \in hd \cup ls
  BY <1>1 DEF Sent
<1>2. CASE n \in UNION {s.of : s \in fb}
  <2>1. PICK s \in fb : n \in s.of
    BY <1>2
  <2> QED
    BY <2>1 DEF Sent
<1> QED
  BY <1>1, <1>2 DEF Sent

LEMMA SentOf ==
  ASSUME NEW hd, NEW ls, NEW fb, NEW s \in fb
  PROVE  s.of \subseteq Sent(hd, ls, fb)
  BY DEF Sent

(* An observation of the owner's upkeep is on its way at once.             *)
LEMMA PublishKeeps ==
  ASSUME RuntimeInv, NEW s, Sightable(s), PublishRuntime(s)
  PROVE  RuntimeInv'
<1>1. /\ Sight(s) /\ feedback' = feedback \cup {s} /\ upkeep' = Unknown
      /\ UNCHANGED <<clock, edits, pendingRuntime, calls, stored, cast, heard, lost>>
  BY DEF PublishRuntime, runtimeHistory
<1>2. /\ SightingsHeld(sightings') /\ Describes(s, sightings', clock)
      /\ DOMAIN sightings' = DOMAIN sightings \cup {Number}
      /\ \A n \in DOMAIN sightings : sightings'[n] = sightings[n]
  BY <1>1, SightHeld
<1>3. clock \in Nat /\ clock <= clock
  BY Now
<1>4. /\ StoredHeld(stored, heard, sightings', clock)
      /\ \A x \in feedback : Describes(x, sightings', clock)
      /\ \A i \in Feeders :
           pendingRuntime[i] = Unknown \/ Describes(pendingRuntime[i], sightings', clock)
  BY <1>2, <1>3, Grows
<1>5. Sent(heard, lost, feedback) \subseteq Sent(heard, lost, feedback')
  BY <1>1, MoreSent
<1>6. Number \in Sent(heard, lost, feedback')
  BY <1>1, SentOf DEF Sightable
<1>7. KeptHeld(sightings', heard, lost, feedback', pendingRuntime)
  <2> SUFFICES ASSUME NEW n \in DOMAIN sightings
               PROVE  \/ n \in Sent(heard, lost, feedback')
                      \/ \E i \in Feeders : n \in Owed(pendingRuntime[i])
                      \/ \E t \in DOMAIN sightings' : sightings'[t].rev > sightings'[n].rev
    BY <1>2, <1>6 DEF KeptHeld
  <2> QED
    BY <1>2, <1>5, Now DEF KeptHeld
<1>8. UpkeepHeld(upkeep', sightings')
  BY <1>1 DEF UpkeepHeld
<1> QED
  BY <1>1, <1>2, <1>4, <1>5, <1>7, <1>8, Now DEF RuntimeInv

(* An isolate's own observation is merged into what it has pending, unless *)
(* it writes at once.                                                      *)
LEMMA CaptureStep ==
  ASSUME RuntimeInv, NEW i \in Feeders, NEW s, Sightable(s), s.snap = Unknown, Sight(s),
         Queue(i, s), UNCHANGED <<clock, edits, calls, stored, upkeep, runtimeHistory>>
  PROVE  RuntimeInv'
<1>1. UNCHANGED <<clock, edits, calls, stored, upkeep, cast, heard, lost>>
  BY DEF runtimeHistory
<1>2. /\ SightingsHeld(sightings') /\ Describes(s, sightings', clock)
      /\ DOMAIN sightings' = DOMAIN sightings \cup {Number} /\ sightings'[Number] = s
      /\ \A n \in DOMAIN sightings : sightings'[n] = sightings[n]
  BY SightHeld
<1>3. clock \in Nat /\ clock <= clock /\ pendingRuntime \in [Feeders -> RuntimeState \cup {Unknown}]
  BY Now
<1>4. /\ StoredHeld(stored, heard, sightings', clock)
      /\ \A x \in feedback : Describes(x, sightings', clock)
      /\ \A j \in Feeders :
           pendingRuntime[j] = Unknown \/ Describes(pendingRuntime[j], sightings', clock)
  BY <1>2, <1>3, Grows
<1>5. UpkeepHeld(upkeep, sightings')
  <2>1. UpkeepHeld(upkeep, sightings)
    BY Now
  <2> QED
    BY <1>2, <2>1 DEF UpkeepHeld
<1>6. CASE feedback' = feedback \cup {s} /\ UNCHANGED pendingRuntime
  <2>1. Sent(heard, lost, feedback) \subseteq Sent(heard, lost, feedback')
    BY <1>6, MoreSent
  <2>2. Number \in Sent(heard, lost, feedback')
    BY <1>6, SentOf DEF Sightable
  <2>3. KeptHeld(sightings', heard, lost, feedback', pendingRuntime)
    <3> SUFFICES ASSUME NEW n \in DOMAIN sightings
                 PROVE  \/ n \in Sent(heard, lost, feedback')
                        \/ \E j \in Feeders : n \in Owed(pendingRuntime[j])
                        \/ \E t \in DOMAIN sightings' : sightings'[t].rev > sightings'[n].rev
      BY <1>2, <2>2 DEF KeptHeld
    <3> QED
      BY <1>2, <2>1, Now DEF KeptHeld
  <2> QED
    BY <1>1, <1>2, <1>4, <1>5, <1>6, <2>1, <2>3, Now DEF RuntimeInv
<1>7. CASE /\ pendingRuntime' = [pendingRuntime EXCEPT ![i] = Merge(@, s)]
           /\ UNCHANGED feedback
  <2> DEFINE p == pendingRuntime[i]
             z == Merge(p, s)
  <2>1. pendingRuntime' = [pendingRuntime EXCEPT ![i] = z]
    BY <1>7
  <2>2. s # Unknown /\ s.rev \in Nat
    BY StateIs DEF Sightable
  <2>3. /\ Describes(z, sightings', clock) /\ z # Unknown
        /\ \A n \in Owed(p) \cup {Number} :
             n \in z.of \/ \E t \in z.of : sightings'[t].rev > sightings'[n].rev
    <3>1. CASE p = Unknown
      <4>1. z = s
        BY <3>1 DEF Merge
      <4> QED
        BY <1>2, <2>2, <3>1, <4>1 DEF Owed, Sightable
    <3>2. CASE p # Unknown
      <4>1. Describes(p, sightings', clock) /\ p \in RuntimeState
        BY <1>4, <3>2 DEF Describes
      <4> HIDE DEF p, z
      <4>2. /\ Describes(z, sightings', clock)
            /\ p.rev > s.rev => z = p
            /\ p.rev < s.rev => z = s
            /\ p.rev = s.rev => z.of = p.of \cup s.of
        BY <1>2, <1>3, <4>1, MergeHeld DEF z
      <4>3. z # Unknown /\ p.rev \in Nat /\ Owed(p) = p.of
        BY <3>2, <4>1, <4>2, StateIs DEF Describes, Owed
      <4>4. /\ \A n \in p.of : sightings'[n].rev = p.rev
            /\ s.of = {Number} /\ sightings'[Number].rev = s.rev
        BY <1>2, <4>1 DEF Describes, Sightable
      <4>5. CASE p.rev = s.rev
        BY <4>2, <4>3, <4>4, <4>5
      <4>6. CASE p.rev > s.rev
        <5>1. PICK t : t \in p.of
          BY <4>1 DEF Describes
        <5> QED
          BY <4>2, <4>3, <4>4, <4>6, <5>1
      <4>7. CASE p.rev < s.rev
        BY <2>2, <4>2, <4>3, <4>4, <4>7
      <4> QED
        BY <2>2, <4>2, <4>3, <4>5, <4>6, <4>7
    <3> QED
      BY <3>1, <3>2
  <2> HIDE DEF z, p
  <2>4. z \in RuntimeState /\ z.of \subseteq DOMAIN sightings'
    BY <2>3 DEF Describes
  <2>5. /\ pendingRuntime' \in [Feeders -> RuntimeState \cup {Unknown}]
        /\ pendingRuntime'[i] = z /\ \A j \in Feeders : j # i => pendingRuntime'[j] = pendingRuntime[j]
    BY <1>3, <2>1, <2>4
  <2>6. \A j \in Feeders :
          pendingRuntime'[j] = Unknown \/ Describes(pendingRuntime'[j], sightings', clock)
    BY <1>4, <2>3, <2>5
  <2>7. ASSUME NEW n \in Owed(p) \cup {Number}
        PROVE  \/ \E j \in Feeders : n \in Owed(pendingRuntime'[j])
               \/ \E t \in DOMAIN sightings' : sightings'[t].rev > sightings'[n].rev
    BY <2>3, <2>4, <2>5 DEF Owed
  <2>8. KeptHeld(sightings', heard, lost, feedback, pendingRuntime')
    <3> SUFFICES ASSUME NEW n \in DOMAIN sightings'
                 PROVE  \/ n \in Sent(heard, lost, feedback)
                        \/ \E j \in Feeders : n \in Owed(pendingRuntime'[j])
                        \/ \E t \in DOMAIN sightings' : sightings'[t].rev > sightings'[n].rev
      BY DEF KeptHeld
    <3>1. CASE n = Number
      BY <2>7, <3>1
    <3>2. CASE n \in DOMAIN sightings
      <4>1. \/ n \in Sent(heard, lost, feedback)
            \/ \E j \in Feeders : n \in Owed(pendingRuntime[j])
            \/ \E t \in DOMAIN sightings : sightings[t].rev > sightings[n].rev
        BY <3>2, Now DEF KeptHeld
      <4>2. ASSUME NEW j \in Feeders, n \in Owed(pendingRuntime[j])
            PROVE  \/ \E k \in Feeders : n \in Owed(pendingRuntime'[k])
                   \/ \E t \in DOMAIN sightings' : sightings'[t].rev > sightings'[n].rev
        <5>1. CASE j = i
          BY <2>7, <4>2, <5>1 DEF p
        <5>2. CASE j # i
          BY <2>5, <4>2, <5>2
        <5> QED
          BY <5>1, <5>2
      <4> QED
        BY <1>2, <3>2, <4>1, <4>2
    <3> QED
      BY <1>2, <3>1, <3>2
  <2> QED
    BY <1>1, <1>2, <1>4, <1>5, <1>7, <2>5, <2>6, <2>8, Now DEF RuntimeInv
<1> QED
  BY <1>6, <1>7 DEF Queue

-----------------------------------------------------------------------------
LEMMA ReadIs ==
  ASSUME RuntimeInv, NEW ws, NEW at \in Nat, NEW win \in [QuotaWindows -> Reading \cup {Unknown}]
  PROVE  /\ Read(ws, at, win) \in [QuotaWindows -> Reading \cup {Unknown}]
         /\ \A w \in QuotaWindows : w \in ws => Read(ws, at, win)[w].at = at
                                            /\ Read(ws, at, win)[w] # Unknown
         /\ \A w \in QuotaWindows : w \notin ws => Read(ws, at, win)[w] = win[w]
<1>1. Number \in Nat
  <2>1. Len(sightings) \in Nat
    BY Now
  <2> QED
    BY <2>1 DEF Number
<1>2. [at |-> at, by |-> Number] \in Reading
  BY <1>1 DEF Reading
<1> QED
  BY <1>2, Distinct DEF Read

LEMMA StateHeld ==
  ASSUME RuntimeInv, NEW rev \in Nat, NEW at \in Nat, NEW until \in Nat,
         NEW win \in [QuotaWindows -> Reading \cup {Unknown}],
         NEW snap \in UsageSnap \cup {Unknown}
  PROVE  /\ State(rev, at, until, win, snap) \in RuntimeState
         /\ State(rev, at, until, win, snap).of = {Number}
         /\ State(rev, at, until, win, snap).snap = snap
         /\ State(rev, at, until, win, snap).win = win
<1>1. {Number} \subseteq Nat
  <2>1. Len(sightings) \in Nat
    BY Now
  <2> QED
    BY <2>1 DEF Number
<1> QED
  BY <1>1 DEF State, RuntimeState

(* A response says nothing of what the grant has no window for.            *)
LEMMA ResponseIs ==
  ASSUME RuntimeInv, NEW rev \in Nat, NEW s \in Responses(rev)
  PROVE  Sightable(s) /\ s.snap = Unknown
<1>1. PICK ws \in cast.reports, until \in {0} \cup {clock + d : d \in cast.cools} :
        s = State(rev, clock, until, Read(ws, clock, NoReadings), Unknown)
  BY DEF Responses
<1>2. clock \in Nat /\ cast.cools \subseteq Nat \ {0}
  BY Now, RuntimeAssumption
<1>3. until \in Nat
  BY <1>1, <1>2
<1>4. NoReadings \in [QuotaWindows -> Reading \cup {Unknown}]
  BY DEF NoReadings
<1>5. Read(ws, clock, NoReadings) \in [QuotaWindows -> Reading \cup {Unknown}]
  BY <1>2, <1>4, ReadIs
<1>6. s \in RuntimeState /\ s.of = {Number} /\ s.snap = Unknown
  BY <1>1, <1>2, <1>3, <1>5, StateHeld
<1> QED
  BY <1>6 DEF Sightable

LEMMA CaptureKeeps ==
  ASSUME RuntimeInv, NEW i \in Feeders, Capture(i)
  PROVE  RuntimeInv'
<1>1. PICK rev \in 1..edits : \E s \in Responses(rev) :
        /\ Sight(s) /\ Queue(i, s)
        /\ UNCHANGED <<clock, edits, calls, stored, upkeep, runtimeHistory>>
  BY DEF Capture
<1>2. PICK s \in Responses(rev) :
        /\ Sight(s) /\ Queue(i, s)
        /\ UNCHANGED <<clock, edits, calls, stored, upkeep, runtimeHistory>>
  BY <1>1
<1>3. rev \in Nat
  BY Now
<1> QED
  BY <1>2, <1>3, ResponseIs, CaptureStep

(* What the owner's upkeep repeats of the state it has read.               *)
LEMMA HadIs ==
  ASSUME RuntimeInv, upkeep # Unknown
  PROVE  /\ upkeep \in Upkeep /\ upkeep.at \in Nat
         /\ Had("at", clock) \in Nat /\ Had("until", 0) \in Nat
         /\ Had("win", NoReadings) \in [QuotaWindows -> Reading \cup {Unknown}]
<1>1. upkeep \in Upkeep /\ clock \in Nat
  BY Now DEF UpkeepHeld
<1>2. upkeep.at \in Nat /\ upkeep.had \in RuntimeState \cup {Unknown}
  BY <1>1 DEF Upkeep
<1>3. CASE upkeep.had = Unknown
  BY <1>1, <1>2, <1>3 DEF Had, NoReadings
<1>4. CASE upkeep.had # Unknown
  <2>1. upkeep.had.at \in Nat /\ upkeep.had.until \in Nat
        /\ upkeep.had.win \in [QuotaWindows -> Reading \cup {Unknown}]
    BY <1>2, <1>4, StateIs
  <2>2. /\ Had("at", clock) = upkeep.had.at /\ Had("until", 0) = upkeep.had.until
        /\ Had("win", NoReadings) = upkeep.had.win
    BY <1>4 DEF Had
  <2> QED
    BY <1>1, <1>2, <2>1, <2>2
<1> QED
  BY <1>3, <1>4

LEMMA PollAnsweredKeeps ==
  ASSUME RuntimeInv, NEW ids \in SUBSET Polled, PollAnswered(ids)
  PROVE  RuntimeInv'
<1> DEFINE had == [w \in QuotaWindows |-> IF w \in Polled THEN Unknown
                                          ELSE Had("win", NoReadings)[w]]
           win == Read(ids, upkeep.at, had)
           snap == [at |-> upkeep.at, ids |-> ids]
           s == State(edits, upkeep.at, 0, win, snap)
<1>1. upkeep # Unknown /\ upkeep.kind = "poll" /\ PublishRuntime(s)
  BY DEF PollAnswered
<1>2. /\ upkeep.at \in Nat /\ edits \in Nat
      /\ Had("win", NoReadings) \in [QuotaWindows -> Reading \cup {Unknown}]
  BY <1>1, HadIs, Now
<1>3. had \in [QuotaWindows -> Reading \cup {Unknown}]
  BY <1>2
<1>4. \A w \in QuotaWindows : w \in Polled => had[w] = Unknown
  OBVIOUS
<1>5. snap \in UsageSnap /\ snap.at = upkeep.at /\ snap.ids = ids /\ snap # Unknown
  <2>1. snap \in UsageSnap /\ snap.at = upkeep.at /\ snap.ids = ids
    BY <1>2 DEF UsageSnap
  <2> QED
    BY <2>1, Distinct
<1> HIDE DEF had, snap
<1>6. /\ win \in [QuotaWindows -> Reading \cup {Unknown}]
      /\ \A w \in QuotaWindows : w \in ids => win[w].at = upkeep.at /\ win[w] # Unknown
      /\ \A w \in QuotaWindows : w \notin ids => win[w] = had[w]
  <2>1. ASSUME NEW at \in Nat
        PROVE  /\ Read(ids, at, had) \in [QuotaWindows -> Reading \cup {Unknown}]
               /\ \A w \in QuotaWindows : w \in ids =>
                    Read(ids, at, had)[w].at = at /\ Read(ids, at, had)[w] # Unknown
               /\ \A w \in QuotaWindows : w \notin ids => Read(ids, at, had)[w] = had[w]
    BY <1>3, ReadIs
  <2> QED
    BY <1>2, <2>1
<1>7. ids \subseteq QuotaWindows /\ Polled \subseteq QuotaWindows
  BY RuntimeAssumption
<1> HIDE DEF win
<1>8. s \in RuntimeState /\ s.of = {Number} /\ s.snap = snap /\ s.win = win
  <2>1. ASSUME NEW at \in Nat
        PROVE  /\ State(edits, at, 0, win, snap) \in RuntimeState
               /\ State(edits, at, 0, win, snap).of = {Number}
               /\ State(edits, at, 0, win, snap).snap = snap
               /\ State(edits, at, 0, win, snap).win = win
    <3>1. edits \in Nat /\ 0 \in Nat /\ snap \in UsageSnap \cup {Unknown}
      BY <1>2, <1>5
    <3>2. win \in [QuotaWindows -> Reading \cup {Unknown}]
      BY <1>6
    <3> QED
      BY <3>1, <3>2, StateHeld
  <2> QED
    BY <1>2, <2>1
<1> HIDE DEF s
<1>9. Sightable(s)
  BY <1>1, <1>4, <1>5, <1>6, <1>7, <1>8 DEF Sightable
<1> QED
  BY <1>1, <1>9, PublishKeeps

LEMMA PollFactsKeeps ==
  ASSUME RuntimeInv, PollFacts
  PROVE  RuntimeInv'
<1> DEFINE s == State(edits, Had("at", clock), Had("until", 0), Had("win", NoReadings), Unknown)
<1>1. upkeep # Unknown /\ PublishRuntime(s)
  BY DEF PollFacts
<1>2. s \in RuntimeState /\ s.of = {Number} /\ s.snap = Unknown
  BY <1>1, HadIs, Now, StateHeld
<1> HIDE DEF s
<1>3. Sightable(s)
  BY <1>2 DEF Sightable
<1> QED
  BY <1>1, <1>3, PublishKeeps

LEMMA PollRejectedKeeps ==
  ASSUME RuntimeInv, PollRejected
  PROVE  RuntimeInv'
<1>1. PICK d \in cast.cools : upkeep # Unknown /\
        PublishRuntime(State(edits, clock, clock + d, Had("win", NoReadings), Unknown))
  BY DEF PollRejected
<1> DEFINE s == State(edits, clock, clock + d, Had("win", NoReadings), Unknown)
<1>2. cast.cools \subseteq Nat /\ clock \in Nat /\ edits \in Nat
  BY Now, RuntimeAssumption
<1>3. clock + d \in Nat
  BY <1>2
<1>4. s \in RuntimeState /\ s.of = {Number} /\ s.snap = Unknown
  BY <1>1, <1>2, <1>3, HadIs, StateHeld
<1>5. PublishRuntime(s)
  BY <1>1
<1> HIDE DEF s
<1>6. Sightable(s)
  BY <1>4 DEF Sightable
<1> QED
  BY <1>5, <1>6, PublishKeeps

LEMMA WarmAnsweredKeeps ==
  ASSUME RuntimeInv, WarmAnswered
  PROVE  RuntimeInv'
<1>1. PICK s \in Responses(edits) : PublishRuntime(s)
  BY DEF WarmAnswered
<1> QED
  BY <1>1, Now, ResponseIs, PublishKeeps

-----------------------------------------------------------------------------
(* A step that observes nothing and takes no time keeps the invariant when *)
(* what it sends and stores is described, and what it no longer has        *)
(* pending was sent.                                                       *)
LEMMA Moved ==
  ASSUME RuntimeInv, UNCHANGED <<cast, clock, sightings>>, edits' \in Nat,
         UpkeepHeld(upkeep', sightings), StoredHeld(stored', heard', sightings, clock),
         \A s \in feedback' : Describes(s, sightings, clock),
         pendingRuntime' \in [Feeders -> RuntimeState \cup {Unknown}],
         \A j \in Feeders :
           \/ pendingRuntime'[j] = pendingRuntime[j]
           \/ pendingRuntime'[j] = Unknown
                /\ Owed(pendingRuntime[j]) \subseteq Sent(heard', lost', feedback'),
         calls' \in [Feeders -> SUBSET RuntimeState],
         \A j \in Feeders : \A s \in calls'[j] :
           s \in calls[j] \/ s.of \subseteq Sent(heard', lost', feedback'),
         Sent(heard, lost, feedback) \subseteq Sent(heard', lost', feedback')
  PROVE  RuntimeInv'
<1>1. cast' \in Casts /\ clock' \in Nat /\ SightingsHeld(sightings')
  BY Now
<1>2. \A j \in Feeders :
        pendingRuntime'[j] = Unknown \/ Describes(pendingRuntime'[j], sightings, clock)
  BY Now
<1>3. \A j \in Feeders : \A s \in calls'[j] : s.of \subseteq Sent(heard', lost', feedback')
  <2>1. \A j \in Feeders : \A s \in calls[j] : s.of \subseteq Sent(heard, lost, feedback)
    BY Now
  <2> QED
    BY <2>1
<1>4. KeptHeld(sightings, heard', lost', feedback', pendingRuntime')
  <2> SUFFICES ASSUME NEW n \in DOMAIN sightings
               PROVE  \/ n \in Sent(heard', lost', feedback')
                      \/ \E j \in Feeders : n \in Owed(pendingRuntime'[j])
                      \/ \E t \in DOMAIN sightings : sightings[t].rev > sightings[n].rev
    BY DEF KeptHeld
  <2>1. \/ n \in Sent(heard, lost, feedback)
        \/ \E j \in Feeders : n \in Owed(pendingRuntime[j])
        \/ \E t \in DOMAIN sightings : sightings[t].rev > sightings[n].rev
    BY Now DEF KeptHeld
  <2>2. ASSUME NEW j \in Feeders, n \in Owed(pendingRuntime[j])
        PROVE  n \in Sent(heard', lost', feedback') \/ n \in Owed(pendingRuntime'[j])
    <3>1. CASE pendingRuntime'[j] = pendingRuntime[j]
      BY <2>2, <3>1
    <3>2. CASE Owed(pendingRuntime[j]) \subseteq Sent(heard', lost', feedback')
      BY <2>2, <3>2
    <3> QED
      BY <3>1, <3>2
  <2> QED
    BY <2>1, <2>2
<1> QED
  BY <1>1, <1>2, <1>3, <1>4 DEF RuntimeInv

LEMMA FlushKeeps ==
  ASSUME RuntimeInv, NEW i \in Feeders, Flush(i)
  PROVE  RuntimeInv'
<1> DEFINE p == pendingRuntime[i]
<1>1. /\ p # Unknown /\ feedback' = feedback \cup {p}
      /\ calls' = [calls EXCEPT ![i] = @ \cup {p}]
      /\ UNCHANGED <<cast, clock, edits, pendingRuntime, stored, upkeep, sightings, heard, lost>>
  BY DEF Flush, runtimeHistory
<1>2. Describes(p, sightings, clock) /\ p \in RuntimeState
  BY <1>1, Now DEF Describes
<1>3. calls \in [Feeders -> SUBSET RuntimeState]
  BY Now
<1> HIDE DEF p
<1>4. /\ calls' \in [Feeders -> SUBSET RuntimeState]
      /\ \A j \in Feeders : \A s \in calls'[j] : s \in calls[j] \/ s = p
  BY <1>1, <1>2, <1>3
<1>5. p.of \subseteq Sent(heard, lost, feedback')
  BY <1>1, SentOf
<1>6. Sent(heard, lost, feedback) \subseteq Sent(heard, lost, feedback')
  BY <1>1, MoreSent
<1>7. \A s \in feedback' : Describes(s, sightings, clock)
  BY <1>1, <1>2, Now
<1>8. /\ edits' \in Nat /\ UpkeepHeld(upkeep', sightings)
      /\ StoredHeld(stored', heard', sightings, clock)
      /\ pendingRuntime' \in [Feeders -> RuntimeState \cup {Unknown}]
  BY <1>1, Now
<1> QED
  BY <1>1, <1>4, <1>5, <1>6, <1>7, <1>8, Moved

LEMMA SettledKeeps ==
  ASSUME RuntimeInv, NEW i \in Feeders, NEW s \in calls[i], Settled(i, s)
  PROVE  RuntimeInv'
<1>1. /\ calls' = [calls EXCEPT ![i] = @ \ {s}]
      /\ pendingRuntime' = [pendingRuntime EXCEPT ![i] = IF @ = s THEN Unknown ELSE @]
      /\ UNCHANGED <<cast, clock, edits, feedback, stored, upkeep, sightings, heard, lost>>
  BY DEF Settled, runtimeHistory
<1>2. /\ calls \in [Feeders -> SUBSET RuntimeState]
      /\ pendingRuntime \in [Feeders -> RuntimeState \cup {Unknown}]
  BY Now
<1>3. s.of \subseteq Sent(heard, lost, feedback)
  BY Now
<1>4. /\ calls' \in [Feeders -> SUBSET RuntimeState]
      /\ \A j \in Feeders : \A c \in calls'[j] : c \in calls[j]
  BY <1>1, <1>2
<1>5. /\ pendingRuntime' \in [Feeders -> RuntimeState \cup {Unknown}]
      /\ \A j \in Feeders : \/ pendingRuntime'[j] = pendingRuntime[j]
                            \/ pendingRuntime'[j] = Unknown /\ pendingRuntime[j] = s
  BY <1>1, <1>2
<1>6. \A j \in Feeders :
        \/ pendingRuntime'[j] = pendingRuntime[j]
        \/ pendingRuntime'[j] = Unknown
             /\ Owed(pendingRuntime[j]) \subseteq Sent(heard, lost, feedback)
  BY <1>3, <1>5 DEF Owed
<1>7. /\ edits' \in Nat /\ UpkeepHeld(upkeep', sightings)
      /\ StoredHeld(stored', heard', sightings, clock)
      /\ \A c \in feedback' : Describes(c, sightings, clock)
  BY <1>1, Now
<1> QED
  BY <1>1, <1>4, <1>5, <1>6, <1>7, Moved

LEMMA GoneKeeps ==
  ASSUME RuntimeInv, NEW i \in Feeders, Gone(i)
  PROVE  RuntimeInv'
<1>1. /\ pendingRuntime[i] # Unknown /\ lost' = lost \cup pendingRuntime[i].of
      /\ pendingRuntime' = [pendingRuntime EXCEPT ![i] = Unknown]
      /\ calls' = [calls EXCEPT ![i] = {}]
      /\ UNCHANGED <<cast, clock, edits, feedback, stored, upkeep, sightings, heard>>
  BY DEF Gone
<1>2. /\ calls \in [Feeders -> SUBSET RuntimeState]
      /\ pendingRuntime \in [Feeders -> RuntimeState \cup {Unknown}]
  BY Now
<1>3. Sent(heard, lost, feedback) \subseteq Sent(heard, lost', feedback)
  BY <1>1, MoreSent
<1>4. Owed(pendingRuntime[i]) \subseteq Sent(heard, lost', feedback)
  BY <1>1 DEF Owed, Sent
<1>5. /\ calls' \in [Feeders -> SUBSET RuntimeState]
      /\ \A j \in Feeders : \A c \in calls'[j] : c \in calls[j]
  BY <1>1, <1>2
<1>6. /\ pendingRuntime' \in [Feeders -> RuntimeState \cup {Unknown}]
      /\ \A j \in Feeders : \/ pendingRuntime'[j] = pendingRuntime[j]
                            \/ pendingRuntime'[j] = Unknown /\ j = i
  BY <1>1, <1>2
<1>7. /\ edits' \in Nat /\ UpkeepHeld(upkeep', sightings)
      /\ StoredHeld(stored', heard', sightings, clock)
      /\ \A c \in feedback' : Describes(c, sightings, clock)
  BY <1>1, Now
<1>8. \A j \in Feeders :
        \/ pendingRuntime'[j] = pendingRuntime[j]
        \/ pendingRuntime'[j] = Unknown
             /\ Owed(pendingRuntime[j]) \subseteq Sent(heard', lost', feedback')
  BY <1>1, <1>4, <1>6
<1> QED
  BY <1>1, <1>3, <1>5, <1>6, <1>7, <1>8, Moved

LEMMA DroppedKeeps ==
  ASSUME RuntimeInv, NEW s \in feedback, Dropped(s)
  PROVE  RuntimeInv'
<1>1. /\ feedback' = feedback \ {s} /\ lost' = lost \cup s.of
      /\ UNCHANGED <<cast, clock, edits, pendingRuntime, calls, stored, upkeep, sightings, heard>>
  BY DEF Dropped
<1>2. Sent(heard, lost, feedback) \subseteq Sent(heard, lost', feedback')
  BY <1>1, MoreSent
<1>3. /\ edits' \in Nat /\ UpkeepHeld(upkeep', sightings)
      /\ StoredHeld(stored', heard', sightings, clock)
      /\ \A c \in feedback' : Describes(c, sightings, clock)
      /\ pendingRuntime' \in [Feeders -> RuntimeState \cup {Unknown}]
      /\ calls' \in [Feeders -> SUBSET RuntimeState]
  BY <1>1, Now
<1> QED
  BY <1>1, <1>2, <1>3, Moved

(* What is stored merged with a state that describes its observations.     *)
LEMMA MergesIn ==
  ASSUME RuntimeInv, NEW s, Describes(s, sightings, clock)
  PROVE  StoredHeld(Merge(stored, s), heard \cup s.of, sightings, clock)
<1> DEFINE z == Merge(stored, s)
<1> SUFFICES StoredHeld(z, heard \cup s.of, sightings, clock)
  OBVIOUS
<1>1. clock \in Nat /\ SightingsHeld(sightings) /\ StoredHeld(stored, heard, sightings, clock)
  BY Now
<1>2. /\ s \in RuntimeState /\ s # Unknown /\ s.rev \in Nat /\ s.of \subseteq DOMAIN sightings
      /\ \A n \in s.of : sightings[n].rev = s.rev
  BY StateIs DEF Describes
<1>3. CASE stored = Unknown
  <2>1. z = s /\ heard = {}
    BY <1>1, <1>3 DEF Merge, StoredHeld
  <2> HIDE DEF z
  <2> QED
    BY <1>1, <1>2, <2>1 DEF StoredHeld
<1>4. CASE stored # Unknown
  <2>1. /\ Describes(stored, sightings, clock) /\ stored.of \subseteq heard
        /\ heard \subseteq DOMAIN sightings
        /\ \A n \in heard : sightings[n].rev <= stored.rev
                            /\ (sightings[n].rev = stored.rev => n \in stored.of)
    BY <1>1, <1>4 DEF StoredHeld
  <2>2. stored \in RuntimeState /\ stored.rev \in Nat
        /\ \A n \in stored.of : sightings[n].rev = stored.rev
    BY <2>1, StateIs DEF Describes
  <2>3. /\ Describes(z, sightings, clock)
        /\ stored.rev > s.rev => z = stored
        /\ stored.rev < s.rev => z = s
        /\ stored.rev = s.rev => z.rev = stored.rev /\ z.of = stored.of \cup s.of
    BY <1>1, <2>1, MergeHeld
  <2>4. z # Unknown
    BY <2>3, StateIs DEF Describes
  <2>5. \A n \in heard : sightings[n].rev \in Nat
    BY <2>1, Now, StateIs
  <2> HIDE DEF z
  <2>6. CASE stored.rev > s.rev
    <3>1. z = stored
      BY <2>3, <2>6
    <3>2. \A n \in heard \cup s.of : sightings[n].rev <= stored.rev
                            /\ (sightings[n].rev = stored.rev => n \in stored.of)
      BY <1>2, <2>1, <2>2, <2>6
    <3> QED
      BY <1>2, <2>1, <2>3, <2>4, <3>1, <3>2 DEF StoredHeld
  <2>7. CASE stored.rev < s.rev
    <3>1. z = s
      BY <2>3, <2>7
    <3>2. \A n \in heard \cup s.of : sightings[n].rev <= s.rev
                            /\ (sightings[n].rev = s.rev => n \in s.of)
      BY <1>2, <2>1, <2>2, <2>5, <2>7
    <3> QED
      BY <1>1, <1>2, <2>1, <2>4, <3>1, <3>2 DEF StoredHeld
  <2>8. CASE stored.rev = s.rev
    <3>1. z.rev = stored.rev /\ z.of = stored.of \cup s.of
      BY <2>3, <2>8
    <3>2. \A n \in heard \cup s.of : sightings[n].rev <= z.rev
                            /\ (sightings[n].rev = z.rev => n \in z.of)
      BY <1>2, <2>1, <2>8, <3>1
    <3> QED
      BY <1>2, <2>1, <2>3, <2>4, <3>1, <3>2 DEF StoredHeld
  <2> QED
    BY <1>2, <2>2, <2>6, <2>7, <2>8
<1> QED
  BY <1>3, <1>4

(* The authority merges a state that describes its observations.           *)
LEMMA PutKeeps ==
  ASSUME RuntimeInv, NEW s \in feedback, PutGrantRuntime(s)
  PROVE  RuntimeInv'
<1> DEFINE z == Merge(stored, s)
<1>1. /\ stored' = z /\ feedback' = feedback \ {s} /\ heard' = heard \cup s.of
      /\ UNCHANGED <<cast, clock, edits, pendingRuntime, calls, upkeep, sightings, lost>>
  BY DEF PutGrantRuntime
<1>2. StoredHeld(z, heard \cup s.of, sightings, clock)
  BY Now, MergesIn
<1>3. Sent(heard, lost, feedback) \subseteq Sent(heard', lost, feedback')
  BY <1>1, MoreSent
<1>4. /\ edits' \in Nat /\ UpkeepHeld(upkeep', sightings)
      /\ \A c \in feedback' : Describes(c, sightings, clock)
      /\ pendingRuntime' \in [Feeders -> RuntimeState \cup {Unknown}]
      /\ calls' \in [Feeders -> SUBSET RuntimeState]
  BY <1>1, Now
<1> HIDE DEF z
<1> QED
  BY <1>1, <1>2, <1>3, <1>4, Moved

(* A row that is deleted takes what the authority heard with it.           *)
LEMMA RetireKeeps ==
  ASSUME RuntimeInv, RetireRuntime
  PROVE  RuntimeInv'
<1>1. /\ stored' = Unknown /\ heard' = {} /\ lost' = lost \cup heard
      /\ UNCHANGED <<cast, clock, edits, pendingRuntime, calls, feedback, upkeep, sightings>>
  BY DEF RetireRuntime
<1>2. StoredHeld(stored', heard', sightings, clock)
  BY <1>1 DEF StoredHeld
<1>3. Sent(heard, lost, feedback) \subseteq Sent(heard', lost', feedback')
  BY <1>1 DEF Sent
<1>4. /\ edits' \in Nat /\ UpkeepHeld(upkeep', sightings)
      /\ \A c \in feedback' : Describes(c, sightings, clock)
      /\ pendingRuntime' \in [Feeders -> RuntimeState \cup {Unknown}]
      /\ calls' \in [Feeders -> SUBSET RuntimeState]
  BY <1>1, Now
<1> QED
  BY <1>1, <1>2, <1>3, <1>4, Moved

-----------------------------------------------------------------------------
(* The owner's steps that observe nothing.                                 *)
LEMMA FeedbackOwnerMoves ==
  ASSUME RuntimeInv, edits' \in Nat, UpkeepHeld(upkeep', sightings),
         UNCHANGED <<cast, clock, pendingRuntime, calls, feedback, stored, sightings,
                     heard, lost>>
  PROVE  RuntimeInv'
<1>1. /\ StoredHeld(stored', heard', sightings, clock)
      /\ \A c \in feedback' : Describes(c, sightings, clock)
      /\ pendingRuntime' \in [Feeders -> RuntimeState \cup {Unknown}]
      /\ calls' \in [Feeders -> SUBSET RuntimeState]
  BY Now
<1> QED
  BY <1>1, Moved

LEMMA StartKeeps ==
  ASSUME RuntimeInv, NEW kind \in {"poll", "warm"}, StartUpkeep(kind),
         kind = "poll" => \A n \in DOMAIN sightings :
           sightings[n].snap # Unknown => sightings[n].snap.at < clock
  PROVE  RuntimeInv'
<1> DEFINE had == IF stored # Unknown /\ stored.rev = edits THEN stored ELSE Unknown
           u == [kind |-> kind, at |-> clock, fresh |-> TRUE, had |-> had]
<1>1. /\ upkeep' = u
      /\ UNCHANGED <<cast, clock, edits, pendingRuntime, calls, feedback, stored, sightings,
                     heard, lost>>
  BY DEF StartUpkeep, runtimeHistory
<1>2. clock \in Nat /\ edits \in Nat
  BY Now
<1>3. had \in RuntimeState \cup {Unknown}
  <2>1. stored = Unknown \/ stored \in RuntimeState
    BY Now DEF StoredHeld, Describes
  <2> QED
    BY <2>1
<1> HIDE DEF had
<1>4. u \in Upkeep /\ u.kind = kind /\ u.at = clock
  BY <1>2, <1>3 DEF Upkeep
<1> HIDE DEF u
<1>5. UpkeepHeld(upkeep', sightings)
  BY <1>1, <1>4 DEF UpkeepHeld
<1> QED
  BY <1>1, <1>2, <1>5, FeedbackOwnerMoves

LEMMA RecoversKeeps ==
  ASSUME RuntimeInv, PollRecovers
  PROVE  RuntimeInv'
<1> DEFINE u == [upkeep EXCEPT !.fresh = FALSE]
<1>1. /\ upkeep # Unknown /\ edits' = edits + 1 /\ upkeep' = u
      /\ UNCHANGED <<cast, clock, pendingRuntime, calls, feedback, stored, sightings,
                     heard, lost>>
  BY DEF PollRecovers, runtimeHistory
<1>2. UpkeepHeld(upkeep, sightings) /\ upkeep \in Upkeep /\ edits \in Nat
  BY <1>1, Now DEF UpkeepHeld
<1>3. u \in Upkeep /\ u.kind = upkeep.kind /\ u.at = upkeep.at
  BY <1>2 DEF Upkeep
<1> HIDE DEF u
<1>4. UpkeepHeld(upkeep', sightings)
  BY <1>1, <1>2, <1>3 DEF UpkeepHeld
<1>5. edits' \in Nat
  BY <1>1, <1>2
<1> QED
  BY <1>1, <1>4, <1>5, FeedbackOwnerMoves

LEMMA TimeKeeps ==
  ASSUME RuntimeInv, PassTime
  PROVE  RuntimeInv'
<1>1. /\ clock' = clock + 1
      /\ UNCHANGED <<cast, edits, pendingRuntime, calls, feedback, stored, upkeep, sightings,
                     heard, lost>>
  BY DEF PassTime, runtimeHistory
<1>2. clock \in Nat /\ clock + 1 \in Nat /\ clock <= clock + 1
  BY Now
<1>3. /\ StoredHeld(stored, heard, sightings, clock')
      /\ \A s \in feedback : Describes(s, sightings, clock')
      /\ \A i \in Feeders :
           pendingRuntime[i] = Unknown \/ Describes(pendingRuntime[i], sightings, clock')
  BY <1>1, <1>2, Grows
<1> QED
  BY <1>1, <1>2, <1>3, Now DEF RuntimeInv

LEMMA RuntimeStarts ==
  ASSUME RuntimeInit
  PROVE  RuntimeInv
<1>1. /\ cast \in Casts /\ clock = 1 /\ edits = 1
      /\ pendingRuntime = [i \in Feeders |-> Unknown] /\ calls = [i \in Feeders |-> {}]
      /\ feedback = {} /\ stored = Unknown /\ upkeep = Unknown
      /\ sightings = <<>> /\ heard = {} /\ lost = {}
  BY DEF RuntimeInit
<1>2. sightings \in Seq(RuntimeState) /\ DOMAIN sightings = {}
  BY <1>1
<1>3. SightingsHeld(sightings) /\ UpkeepHeld(upkeep, sightings)
  BY <1>1, <1>2 DEF SightingsHeld, UpkeepHeld
<1>4. StoredHeld(stored, heard, sightings, clock)
  BY <1>1 DEF StoredHeld
<1>5. KeptHeld(sightings, heard, lost, feedback, pendingRuntime)
  BY <1>2 DEF KeptHeld
<1> QED
  BY <1>1, <1>3, <1>4, <1>5 DEF RuntimeInv

LEMMA RuntimeStays ==
  ASSUME RuntimeInv, [RuntimeNext]_runtimeVars
  PROVE  RuntimeInv'
<1>1. ASSUME NEW i \in Feeders \cap cast.who, Capture(i) \/ Flush(i) \/ Gone(i)
      PROVE  RuntimeInv'
  BY <1>1, CaptureKeeps, FlushKeeps, GoneKeeps
<1>2. ASSUME NEW i \in Feeders, NEW s \in calls[i], Settled(i, s) PROVE RuntimeInv'
  BY <1>2, SettledKeeps
<1>3. ASSUME NEW s \in feedback, PutGrantRuntime(s) \/ Dropped(s) PROVE RuntimeInv'
  BY <1>3, PutKeeps, DroppedKeeps
<1>4. CASE StartPoll
  <2>1. StartUpkeep("poll") /\ \A n \in DOMAIN sightings :
          sightings[n].snap # Unknown => sightings[n].snap.at < clock
    BY <1>4 DEF StartPoll
  <2> QED
    BY <2>1, StartKeeps
<1>5. CASE StartKeepWarm
  <2>1. StartUpkeep("warm")
    BY <1>5 DEF StartKeepWarm
  <2> QED
    BY <2>1, StartKeeps
<1>6. ASSUME NEW ids \in SUBSET Polled, PollAnswered(ids) PROVE RuntimeInv'
  BY <1>6, PollAnsweredKeeps
<1>7. CASE PollFacts \/ PollRejected \/ PollRecovers \/ WarmAnswered \/ PassTime
  BY <1>7, PollFactsKeeps, PollRejectedKeeps, RecoversKeeps, WarmAnsweredKeeps, TimeKeeps
<1>8. CASE UpkeepFails
  <2>1. /\ edits' \in Nat /\ upkeep' = Unknown
        /\ UNCHANGED <<cast, clock, pendingRuntime, calls, feedback, stored, sightings,
                       heard, lost>>
    BY <1>8, Now DEF UpkeepFails, runtimeHistory
  <2>2. UpkeepHeld(upkeep', sightings)
    BY <2>1 DEF UpkeepHeld
  <2> QED
    BY <2>1, <2>2, FeedbackOwnerMoves
<1>9. CASE EditGrant
  <2>1. /\ edits' \in Nat /\ UpkeepHeld(upkeep', sightings)
        /\ UNCHANGED <<cast, clock, pendingRuntime, calls, feedback, stored, sightings,
                       heard, lost>>
    BY <1>9, Now DEF EditGrant, runtimeHistory
  <2> QED
    BY <2>1, FeedbackOwnerMoves
<1>10. CASE UNCHANGED runtimeVars
  BY <1>10 DEF runtimeVars, RuntimeInv
<1> QED
  BY <1>1, <1>2, <1>3, <1>4, <1>5, <1>6, <1>7, <1>8, <1>9, <1>10, RetireKeeps DEF RuntimeNext

-----------------------------------------------------------------------------
(* What an isolate goes by describes all that it knows of the newest       *)
(* revision.                                                               *)
LEMMA ViewIs ==
  ASSUME RuntimeInv, NEW i \in Feeders
  PROVE  StoredHeld(View(i), heard \cup Unsent(i), sightings, clock)
<1>1. CASE pendingRuntime[i] = Unknown
  <2>1. View(i) = stored /\ heard \cup Unsent(i) = heard
    BY <1>1 DEF View, Unsent
  <2> QED
    BY <2>1, Now
<1>2. CASE pendingRuntime[i] # Unknown
  <2>1. View(i) = Merge(stored, pendingRuntime[i]) /\ Unsent(i) = pendingRuntime[i].of
    BY <1>2 DEF View, Unsent
  <2>2. Describes(pendingRuntime[i], sightings, clock)
    BY <1>2, Now
  <2> QED
    BY <2>1, <2>2, MergesIn
<1> QED
  BY <1>1, <1>2

LEMMA CurrentIs ==
  ASSUME RuntimeInv, NEW i \in Feeders, View(i) # Unknown
  PROVE  /\ Describes(View(i), sightings, clock)
         /\ Current(i) = Seen(View(i), sightings)
         /\ Telling(Current(i))
<1> DEFINE v == View(i)
           N == heard \cup Unsent(i)
<1>1. /\ Describes(v, sightings, clock) /\ v.of \subseteq N /\ N \subseteq DOMAIN sightings
      /\ \A n \in N : sightings[n].rev <= v.rev /\ (sightings[n].rev = v.rev => n \in v.of)
  BY ViewIs DEF StoredHeld
<1>2. Known(i) = {sightings[n] : n \in N}
  BY DEF Known
<1> HIDE DEF v, N
<1>3. v.rev \in Nat /\ \A n \in N : sightings[n].rev \in Nat
  BY <1>1, Now, StateIs DEF Describes
<1>4. PICK m \in v.of : sightings[m].rev = v.rev
  BY <1>1 DEF Describes
<1>5. \A s \in Known(i) : s \in Current(i) <=> s.rev = v.rev
  BY <1>1, <1>2, <1>3, <1>4 DEF Current
<1>6. ASSUME NEW s \in Current(i) PROVE s \in Seen(v, sightings)
  <2>1. s \in Known(i) /\ s.rev = v.rev
    BY <1>5 DEF Current
  <2>2. PICK n \in N : s = sightings[n]
    BY <1>2, <2>1
  <2> QED
    BY <1>1, <2>1, <2>2 DEF Seen
<1>7. ASSUME NEW s \in Seen(v, sightings) PROVE s \in Current(i)
  <2>1. PICK n \in v.of : s = sightings[n]
    BY DEF Seen
  <2>2. s \in Known(i) /\ s.rev = v.rev
    BY <1>1, <1>2, <2>1 DEF Describes
  <2> QED
    BY <1>5, <2>2
<1>8. Current(i) = Seen(v, sightings)
  BY <1>6, <1>7
<1>9. v.of \subseteq DOMAIN sightings /\ SightingsHeld(sightings)
  BY <1>1, Now DEF Describes
<1>10. Telling(Seen(v, sightings))
  BY <1>9, SeenTelling
<1> QED
  BY <1>1, <1>8, <1>10 DEF v

LEMMA ExactWindows ==
  ASSUME RuntimeInv
  PROVE  WindowsExact
<1> SUFFICES
      ASSUME NEW i \in Feeders, NEW w \in QuotaWindows, View(i) # Unknown
      PROVE  LET readings == Newest({s.win[w] : s \in Current(i)} \ {Unknown})
                 snaps == Newest({s.snap : s \in Current(i)} \ {Unknown})
                 kept == {r \in readings : \A snap \in snaps :
                            w \in Polled \ snap.ids => r.at > snap.at}
             IN  IF kept = {} THEN View(i).win[w] = Unknown ELSE View(i).win[w] \in kept
  BY DEF WindowsExact
<1> DEFINE v == View(i)
           S == Current(i)
           readings == Newest(ReadingsOf(S, w))
           snaps == Newest(SnapsOf(S))
           kept == {r \in readings : \A snap \in snaps :
                      w \in Polled \ snap.ids => r.at > snap.at}
<1>1. Telling(S) /\ SnapHeld(v, S) /\ WindowHeld(v, S, w)
  BY CurrentIs DEF Describes
<1>2. \A snap \in snaps : snap = v.snap /\ v.snap # Unknown
  <2> SUFFICES ASSUME NEW snap \in snaps PROVE snap = v.snap /\ v.snap # Unknown
    OBVIOUS
  <2>1. snap \in SnapsOf(S) /\ \A p \in SnapsOf(S) : p.at <= snap.at
    BY DEF Newest
  <2>2. v.snap # Unknown /\ v.snap \in SnapsOf(S) /\ \A p \in SnapsOf(S) : p.at <= v.snap.at
    BY <1>1, <2>1 DEF SnapHeld, Newest
  <2>3. snap.at \in Nat /\ v.snap.at \in Nat
    BY <1>1, <2>1, <2>2, SnapsTyped
  <2>4. snap.at = v.snap.at
    BY <2>1, <2>2, <2>3
  <2>5. PICK s \in S : s.snap = snap /\ snap # Unknown
    BY <2>1 DEF SnapsOf
  <2>6. PICK u \in S : u.snap = v.snap
    BY <2>2 DEF SnapsOf
  <2> QED
    BY <1>1, <2>2, <2>4, <2>5, <2>6 DEF Telling
<1>3. v.snap # Unknown => v.snap \in snaps
  BY <1>1 DEF SnapHeld
<1>4. \A r \in readings : r \in ReadingsOf(S, w) /\ r # Unknown /\ r.at \in Nat
  BY <1>1, ReadingsTyped DEF Newest
<1>5. v.snap # Unknown => v.snap.at \in Nat
  <2>1. \A p \in snaps : p \in SnapsOf(S)
    BY DEF Newest
  <2> QED
    BY <1>1, <1>3, <2>1, SnapsTyped
<1>6. CASE v.win[w] = Unknown
  <2>1. ASSUME NEW r \in readings PROVE r \notin kept
    <3>1. Retires(v.snap, w, r)
      BY <1>1, <1>4, <1>6 DEF WindowHeld
    <3>2. v.snap # Unknown /\ w \in Polled \ v.snap.ids /\ r.at <= v.snap.at
      BY <3>1, RetiresIs
    <3> QED
      BY <1>3, <1>4, <1>5, <3>2
  <2>2. kept = {}
    BY <2>1
  <2> QED
    BY <1>6, <2>2 DEF ReadingsOf, SnapsOf
<1>7. CASE v.win[w] # Unknown
  <2>1. v.win[w] \in readings /\ ~Retires(v.snap, w, v.win[w])
    BY <1>1, <1>7 DEF WindowHeld
  <2>2. ASSUME NEW snap \in snaps, w \in Polled \ snap.ids PROVE v.win[w].at > snap.at
    <3>1. snap = v.snap /\ v.snap # Unknown /\ snap.at \in Nat /\ v.win[w].at \in Nat
      BY <1>2, <1>4, <1>5, <2>1
    <3>2. ~(v.win[w].at <= snap.at)
      BY <1>7, <2>1, <2>2, <3>1, RetiresIs
    <3> QED
      BY <3>1, <3>2
  <2>3. v.win[w] \in kept
    BY <2>1, <2>2
  <2> QED
    BY <2>3 DEF ReadingsOf, SnapsOf
<1> QED
  BY <1>6, <1>7

LEMMA KeptCooldown ==
  ASSUME RuntimeInv
  PROVE  CooldownKept
<1> SUFFICES
      ASSUME NEW i \in Feeders, View(i) # Unknown
      PROVE  LET signals == {s.until : s \in Current(i)} \ {0}
             IN  /\ View(i).until \in signals \cup {0}
                 /\ signals # {} /\ (\A u \in signals : u > clock) => Cooling(View(i))
  BY DEF CooldownKept
<1>1. SignalHeld(View(i), Current(i), clock)
  BY CurrentIs DEF Describes
<1> QED
  BY <1>1 DEF SignalHeld, SignalsOf, Cooling

LEMMA DroppedNothing ==
  ASSUME RuntimeInv
  PROVE  NothingDropped
<1>1. \A i \in Feeders : Owed(pendingRuntime[i]) = Unsent(i)
  BY DEF Owed, Unsent
<1> QED
  BY <1>1, Now DEF KeptHeld, Sent, NothingDropped

(* Feedback that is coalesced in an isolate (queueGrantRuntime), repeated, *)
(* late or out of order, merged by mergeGrantRuntimeState on either side,  *)
(* ends in the state that its observations describe: the newest readings   *)
(* of the newest revision less the retired ones, a cooldown one of its     *)
(* rejections gives, and no observation dropped.                           *)
THEOREM FeedbackConverges == RuntimeSpec => []FeedbackMerges
<1>1. RuntimeInit => RuntimeInv
  BY RuntimeStarts
<1>2. RuntimeInv /\ [RuntimeNext]_runtimeVars => RuntimeInv'
  BY RuntimeStays
<1>3. RuntimeInv => FeedbackMerges
  BY ExactWindows, KeptCooldown, DroppedNothing DEF FeedbackMerges
<1> QED
  BY <1>1, <1>2, <1>3, PTL DEF RuntimeSpec
=============================================================================
