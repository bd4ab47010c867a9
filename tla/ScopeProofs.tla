---------------------------- MODULE ScopeProofs ----------------------------
(***************************************************************************)
(* What is proved of what the owner of a scope keeps: its background jobs  *)
(* (BackgroundJobs), for every set of jobs, keys and legs, every cost,     *)
(* limit and deadline and any number of faults; its response identities    *)
(* (Continuations), for every set of requests and identities, every plan,  *)
(* retention and capacity and any number of stops.                         *)
(***************************************************************************)
EXTENDS BackgroundJobs, Continuations, BudgetTableProofs, WellFoundedInduction

-----------------------------------------------------------------------------
(* A job, its worker and the call its owner is in.                         *)
JobOK(j) ==
    /\ worker[j] = "idle" => job[j].phase = "none"
    /\ job[j].phase = "none" => run[j] = "none"
    /\ job[j].phase \in {"none", "admitting"} => ~job[j].frozen /\ ~job[j].egress
    /\ job[j].phase # "none" => job[j].born <= now + Admission
    /\ job[j].phase = "evicted" /\ Key[j] # NoKey => ReplayUntil(job[j]) <= now
    /\ job[j].known => job[j].egress
    /\ job[j].frozen => binding[j] # "open"
    /\ job[j].frozen /\ ~job[j].egress => job[j].amount = Unbilled
    /\ job[j].frozen /\ job[j].egress /\ j \in Managed =>
          job[j].amount = Billed \/ (~sent[j] /\ worker[j] = "done")

(* What left, and what the egress of a job was claimed before.             *)
EgressOK(j) ==
    /\ sent[j] => job[j].egress
    /\ sent[j] => worker[j] \in {"sent", "bound", "done"}
    /\ worker[j] \in {"ready", "sent", "bound"} => job[j].egress
    /\ run[j] = "dispatched" => job[j].egress
    /\ run[j] \in {"reserve", "dispatch"} => ~job[j].egress
    /\ worker[j] = "admitted" => run[j] = "none"

(* The reservation of a leg: what the owner knows of it, what it awaits,   *)
(* what is on its way and what the ledger has.                             *)
Gone(i) == row[i] = NoRow /\ ReplayUntil(job[i[1]]) <= now
Dispatching(i) == row[i] = NoRow \/ row[i].dispatched
Unreserved(i) == <<"reserve", i>> \notin net
LegOK(i) ==
    /\ job[i[1]].phase = "none" => leg[i].reserve = "never"
    /\ ~Unreserved(i) => leg[i].reserve = "sent" /\ row[i] = NoRow
    /\ leg[i].reserve \in {"never", "denied"} => row[i] = NoRow
    /\ leg[i].reserve = "accepted" => row[i] # NoRow \/ Gone(i)
    /\ leg[i].dispatched => leg[i].reserve = "accepted" /\ Dispatching(i)
    /\ job[i[1]].egress => leg[i].dispatched

AskedOK(i) ==
    /\ asked[i] # "nothing" => run[i[1]] \in {"reserve", "dispatch"}
    /\ asked[i] \in {"reserve", "dispatch"} => asked[i] = run[i[1]]
    /\ run[i[1]] = "reserve" /\ asked[i] = "nothing" => leg[i].reserve \in {"never", "accepted"}
    /\ run[i[1]] = "reserve" /\ asked[i] # "nothing" => leg[i].reserve = "sent"
    /\ run[i[1]] = "reserve" /\ asked[i] = "no" => Unreserved(i) /\ row[i] = NoRow
    /\ run[i[1]] = "reserve" /\ asked[i] = "yes" => Unreserved(i) /\ (row[i] # NoRow \/ Gone(i))
    /\ run[i[1]] = "dispatch" /\ asked[i] = "yes" => Unreserved(i) /\ Dispatching(i)
    /\ \A k \in LegsOf(i[1]) : asked[i] # "nothing" /\ asked[k] # "nothing" => i = k

(* The row of a leg, and the receipt it is settled by.                     *)
RowOK(i, x) ==
    x # NoRow =>
      /\ job[i[1]].phase # "none"
      /\ job[i[1]].born <= x.created + Admission
      /\ x.settled # 1 => x.micros = Cost
      /\ x.settled = 1 /\ ~x.dispatched => x.micros = 0
      /\ x.settled = 1 /\ x.dispatched => job[i[1]].frozen /\ x.micros = job[i[1]].amount

SettledAs(i) == row[i] = NoRow \/ (row[i].settled = 1 /\ row[i].micros = job[i[1]].amount)
ReceiptOK(i) ==
    /\ <<"settle", i>> \in net \/ receipt[i] # "nothing" => job[i[1]].frozen
    /\ leg[i].settlement # "pending" => job[i[1]].frozen
    /\ receipt[i] # "conflict" /\ leg[i].settlement # "conflict"
    /\ "settled" \in {receipt[i], leg[i].settlement} => Unreserved(i) /\ SettledAs(i)
    /\ job[i[1]].phase = "complete" => leg[i].settlement = "settled"

(* Two admissions with one key.                                            *)
KeyOK(j, k) ==
    j # k /\ Key[j] # NoKey /\ Key[j] = Key[k]
    /\ job[j].phase # "none" /\ job[k].phase # "none" =>
        \/ ReplayUntil(job[j]) <= job[k].born + Admission
        \/ ReplayUntil(job[k]) <= job[j].born + Admission

JobsInv ==
    /\ TypeOK
    /\ \A j \in Jobs : JobOK(j) /\ EgressOK(j)
    /\ \A i \in Ids : LegOK(i) /\ AskedOK(i) /\ RowOK(i, row[i]) /\ ReceiptOK(i)
    /\ \A j, k \in Jobs : KeyOK(j, k)

-----------------------------------------------------------------------------
(* Deadlines.                                                              *)
LEMMA EarliestIsFirst ==
    ASSUME NEW S \in SUBSET Nat, S # {}
    PROVE  Earliest(S) \in S /\ \A u \in S : Earliest(S) <= u
<1> DEFINE R == OpToRel(<, Nat)
<1>1. IsWellFoundedOn(R, Nat)
  BY NatLessThanWellFounded
<1>2. \A x, y \in Nat : <<y, x>> \in R <=> y < x
  BY DEF OpToRel
<1> HIDE DEF R
<1>3. PICK x \in S : \A y \in S : ~(<<y, x>> \in R)
  BY <1>1, WFMin
<1>4. ASSUME NEW y \in S
      PROVE  x <= y
  <2>1. x \in Nat /\ y \in Nat
    OBVIOUS
  <2>2. ~(y < x)
    BY <1>2, <1>3, <2>1
  <2> QED
    BY <2>1, <2>2
<1> QED
  BY <1>4 DEF Earliest

LEMMA DeadlineTypes ==
    ASSUME NEW r \in Job, now \in 0..MaxTime
    PROVE  /\ r.born \in Nat
           /\ {ReplayUntil(r), ObserveUntil(r), AutoRetryUntil(r)}
                 \subseteq 0..MaxTime + Admission + Replay
           /\ Soon(r) \in 0..MaxTime + Admission + Replay
           /\ NextAction(r) \in 0..MaxTime + Admission + Replay
<1> USE ClockType, Deadlines
<1>1. r.born \in 0..MaxTime + Admission /\ r.next \in 0..MaxTime + Admission + Replay
  BY DEF Job
<1>2. r.born \in Nat /\ {ReplayUntil(r), ObserveUntil(r), AutoRetryUntil(r)}
                            \subseteq 0..MaxTime + Admission + Replay
  BY <1>1 DEF ReplayUntil, ObserveUntil, AutoRetryUntil
<1>3. Soon(r) \in 0..MaxTime + Admission + Replay
  BY <1>2 DEF Soon, AtOnce
<1> DEFINE S == {ReplayUntil(r)} \cup
             (IF r.frozen THEN {} ELSE {ObserveUntil(r)}) \cup
             (IF r.next >= AutoRetryUntil(r) THEN {} ELSE
              IF ~r.frozen /\ ~r.known /\ r.phase = "observing"
              THEN {ObserveUntil(r)} ELSE {r.next})
<1>4. S \subseteq 0..MaxTime + Admission + Replay /\ S # {}
  BY <1>1, <1>2
<1>5. NextAction(r) = Earliest(S)
  BY DEF NextAction
<1> HIDE DEF S
<1>6. S \in SUBSET Nat
  BY <1>4
<1>7. NextAction(r) \in S
  BY <1>4, <1>5, <1>6, EarliestIsFirst
<1> QED
  BY <1>2, <1>3, <1>4, <1>7

LEMMA ScheduledType ==
    ASSUME NEW rows \in [Jobs -> Job], now \in 0..MaxTime,
           NEW current \in 0..(MaxTime + Admission + Replay) \cup {Never}
    PROVE  Scheduled(rows, current) \in 0..(MaxTime + Admission + Replay) \cup {Never}
<1> USE ClockType, Deadlines
<1> DEFINE D == DueTimes(rows)
<1>1. D \subseteq 0..MaxTime + Admission + Replay
  BY DeadlineTypes DEF DueTimes
<1>2. CASE D = {}
  BY <1>2 DEF Scheduled
<1>3. CASE D # {}
  <2>1. D \in SUBSET Nat
    BY <1>1
  <2>2. Earliest(D) \in D
    BY <1>3, <2>1, EarliestIsFirst
  <2>3. Earliest(D) \in 0..MaxTime + Admission + Replay
    BY <1>1, <2>2
  <2> QED
    BY <1>3, <2>3 DEF Scheduled, AtOnce
<1> QED
  BY <1>2, <1>3

-----------------------------------------------------------------------------
(* One transaction of the owner.                                           *)
LEMMA IdParts ==
    ASSUME NEW i \in Ids
    PROVE  i[1] \in Jobs /\ i[2] \in Legs /\ i = <<i[1], i[2]>>
  BY JobsType

LEMMA ReceiptShape ==
    ASSUME NEW r \in Job, NEW a \in 0..MaxMicros, now \in 0..MaxTime
    PROVE  LET s == Receipt(r, a) IN
           /\ s \in Job
           /\ s = r \/ /\ r.phase \in Live /\ ~r.frozen /\ s.phase = "outbox" /\ s.frozen
                       /\ s.amount = a /\ ~s.known
                       /\ s.born = r.born /\ s.egress = r.egress
           /\ r.phase \in Live => s.frozen
<1> DEFINE s == [r EXCEPT !.phase = "outbox", !.frozen = TRUE, !.amount = a,
                          !.known = FALSE, !.next = Soon(r)]
<1>1. CASE r.phase \notin Live \/ r.frozen
  BY <1>1 DEF Receipt
<1>2. CASE ~(r.phase \notin Live \/ r.frozen)
  <2>1. Receipt(r, a) = s
    BY <1>2 DEF Receipt
  <2>2. Soon(r) \in 0..MaxTime + Admission + Replay
    BY DeadlineTypes
  <2>3. s \in Job
    BY <2>2 DEF Job, Live
  <2>4. /\ s.phase = "outbox" /\ s.frozen /\ s.amount = a /\ ~s.known
        /\ s.born = r.born /\ s.egress = r.egress
    BY DEF Job
  <2> QED
    BY <1>2, <2>1, <2>3, <2>4
<1> QED
  BY <1>1, <1>2

LEMMA LegAtFreezeShape ==
    ASSUME NEW l \in Leg
    PROVE  LET n == LegAtFreeze(l) IN
           /\ n \in Leg
           /\ n.reserve = l.reserve /\ n.dispatched = l.dispatched
           /\ \/ n.settlement = l.settlement
              \/ n.settlement = "settled" /\ l.reserve \in {"never", "denied"}
  BY DEF LegAtFreeze, Leg, Dispositions

LEMMA MutateShape ==
    ASSUME TypeOK, NEW rows \in [Jobs -> Job], NEW legs \in [Ids -> Leg],
           NEW bindings \in [Jobs -> {"none", "open", "closed"}],
           NEW current \in 0..(MaxTime + Admission + Replay) \cup {Never},
           Mutate(rows, legs, bindings, current)
    PROVE  /\ job' = rows
           /\ leg' \in [Ids -> Leg]
           /\ binding' \in [Jobs -> {"none", "open", "closed"}]
           /\ alarm' \in 0..(MaxTime + Admission + Replay) \cup {Never}
           /\ \A i \in Ids : IF rows[i[1]].frozen /\ ~job[i[1]].frozen
                             THEN leg'[i] = LegAtFreeze(legs[i]) ELSE leg'[i] = legs[i]
           /\ \A j \in Jobs : \/ binding'[j] = bindings[j]
                              \/ bindings[j] = "open" /\ binding'[j] = "closed"
           /\ \A j \in Jobs : rows[j].frozen /\ ~job[j].frozen => binding'[j] # "open"
<1>1. now \in 0..MaxTime
  BY DEF TypeOK
<1>2. \A i \in Ids : LegAtFreeze(legs[i]) \in Leg
  BY LegAtFreezeShape
<1>3. leg' = [i \in Ids |-> IF rows[i[1]].frozen /\ ~job[i[1]].frozen
                            THEN LegAtFreeze(legs[i]) ELSE legs[i]]
  BY DEF Mutate
<1>4. binding' = [j \in Jobs |-> IF (rows[j].frozen /\ ~job[j].frozen) /\ bindings[j] = "open"
                                 THEN "closed" ELSE bindings[j]]
  BY DEF Mutate
<1>5. job' = rows /\ alarm' = Scheduled(rows, current)
  BY DEF Mutate
<1>6. leg' \in [Ids -> Leg]
  BY <1>2, <1>3
<1>7. binding' \in [Jobs -> {"none", "open", "closed"}]
  BY <1>4
<1>8. alarm' \in 0..(MaxTime + Admission + Replay) \cup {Never}
  BY <1>1, <1>5, ScheduledType
<1> QED
  BY <1>3, <1>4, <1>5, <1>6, <1>7, <1>8

-----------------------------------------------------------------------------
(* A transaction keeps the admission of a job, and the receipt once it has *)
(* one; most keep its egress as well and complete nothing.                 *)
JobKeeps(r, s) ==
    /\ s.born = r.born
    /\ s.phase = "none" <=> r.phase = "none"
    /\ r.frozen => s.frozen /\ s.amount = r.amount
JobMove(r, s) ==
    /\ JobKeeps(r, s)
    /\ s.egress = r.egress
    /\ s.phase = "complete" => r.phase = "complete"

LegMove(i) ==
    \/ leg'[i] = leg[i]
    \/ leg'[i] = LegAtFreeze(leg[i]) /\ job'[i[1]].frozen

LEMMA LegMoveShape ==
    ASSUME TypeOK, NEW i \in Ids, LegMove(i)
    PROVE  /\ leg'[i].reserve = leg[i].reserve /\ leg'[i].dispatched = leg[i].dispatched
           /\ \/ leg'[i].settlement = leg[i].settlement
              \/ /\ leg'[i].settlement = "settled" /\ leg[i].reserve \in {"never", "denied"}
                 /\ job'[i[1]].frozen
<1>1. leg[i] \in Leg
  BY DEF TypeOK
<1> QED
  BY <1>1, LegAtFreezeShape DEF LegMove

(* The calls on their way for id i: no new one.                            *)
NoNewCall(i) ==
    /\ <<"reserve", i>> \in net' <=> <<"reserve", i>> \in net
    /\ <<"settle", i>> \in net' => <<"settle", i>> \in net

LEMMA MoveKeepsLeg ==
    ASSUME JobsInv, NEW i \in Ids, JobKeeps(job[i[1]], job'[i[1]]), LegMove(i),
           row' = row, now' = now, NoNewCall(i), receipt'[i] \in {receipt[i], "nothing"},
           job'[i[1]].egress => leg[i].dispatched,
           job'[i[1]].phase = "complete" => leg'[i].settlement = "settled"
    PROVE  LegOK(i)' /\ RowOK(i, row[i])' /\ ReceiptOK(i)'
<1>1. LegOK(i) /\ RowOK(i, row[i]) /\ ReceiptOK(i)
  BY DEF JobsInv
<1>2. /\ leg'[i].reserve = leg[i].reserve /\ leg'[i].dispatched = leg[i].dispatched
      /\ \/ leg'[i].settlement = leg[i].settlement
         \/ /\ leg'[i].settlement = "settled" /\ leg[i].reserve \in {"never", "denied"}
            /\ job'[i[1]].frozen
  BY LegMoveShape DEF JobsInv
<1>3. Unreserved(i)' <=> Unreserved(i)
  BY DEF Unreserved, NoNewCall
<1>4. LegOK(i)'
  BY <1>1, <1>2, <1>3 DEF LegOK, Gone, Dispatching, JobKeeps, ReplayUntil
<1>5. RowOK(i, row[i])'
  BY <1>1 DEF RowOK, JobKeeps
<1>6. ReceiptOK(i)'
  <2>1. /\ <<"settle", i>> \in net' \/ receipt'[i] # "nothing" => job'[i[1]].frozen
        /\ leg'[i].settlement # "pending" => job'[i[1]].frozen
    BY <1>1, <1>2 DEF ReceiptOK, NoNewCall, JobKeeps
  <2>2. receipt'[i] # "conflict" /\ leg'[i].settlement # "conflict"
    BY <1>1, <1>2 DEF ReceiptOK
  <2>3. ASSUME "settled" \in {receipt'[i], leg'[i].settlement}
        PROVE  Unreserved(i)' /\ SettledAs(i)'
    <3>1. CASE "settled" \in {receipt[i], leg[i].settlement}
      <4>1. job[i[1]].frozen
        BY <1>1, <3>1 DEF ReceiptOK
      <4> QED
        BY <1>1, <1>3, <3>1, <4>1 DEF ReceiptOK, SettledAs, JobKeeps
    <3>2. CASE "settled" \notin {receipt[i], leg[i].settlement}
      <4>1. leg[i].reserve \in {"never", "denied"}
        BY <1>2, <2>3, <3>2
      <4> QED
        BY <1>1, <1>3, <4>1 DEF LegOK, SettledAs
    <3> QED
      BY <3>1, <3>2
  <2> QED
    BY <2>1, <2>2, <2>3 DEF ReceiptOK
<1> QED
  BY <1>4, <1>5, <1>6

(* The call a job's owner is in does not change, or is over.               *)
LEMMA MoveKeepsAsked ==
    ASSUME JobsInv, NEW i \in Ids, JobKeeps(job[i[1]], job'[i[1]]), LegMove(i),
           row' = row, now' = now, NoNewCall(i),
           run'[i[1]] = run[i[1]], \A k \in LegsOf(i[1]) : asked'[k] = asked[k]
    PROVE  AskedOK(i)'
<1>1. AskedOK(i)
  BY DEF JobsInv
<1>2. leg'[i].reserve = leg[i].reserve
  BY LegMoveShape DEF JobsInv
<1>3. Unreserved(i)' <=> Unreserved(i)
  BY DEF Unreserved, NoNewCall
<1>4. asked'[i] = asked[i]
  BY DEF LegsOf
<1> QED
  BY <1>1, <1>2, <1>3, <1>4 DEF AskedOK, Gone, Dispatching, JobKeeps, ReplayUntil

LEMMA AskedNothing ==
    ASSUME NEW i \in Ids, run'[i[1]] \notin {"reserve", "dispatch"}, asked'[i] = "nothing"
    PROVE  AskedOK(i)'
  BY DEF AskedOK

LEMMA KeepStep ==
    ASSUME JobsInv, TypeOK', row' = row, now' = now,
           \A j \in Jobs : JobKeeps(job[j], job'[j]),
           \A i \in Ids : LegMove(i) /\ NoNewCall(i) /\ receipt'[i] \in {receipt[i], "nothing"},
           \A i \in Ids : job'[i[1]].egress => leg[i].dispatched,
           \A i \in Ids : job'[i[1]].phase = "complete" => leg'[i].settlement = "settled",
           \A i \in Ids : AskedOK(i)',
           \A j \in Jobs : JobOK(j)' /\ EgressOK(j)'
    PROVE  JobsInv'
<1>1. \A i \in Ids : LegOK(i)' /\ RowOK(i, row[i])' /\ ReceiptOK(i)'
  BY IdParts, MoveKeepsLeg
<1>2. \A j, k \in Jobs : KeyOK(j, k)'
  <2> SUFFICES ASSUME NEW j \in Jobs, NEW k \in Jobs PROVE KeyOK(j, k)'
    OBVIOUS
  <2>1. KeyOK(j, k) /\ JobKeeps(job[j], job'[j]) /\ JobKeeps(job[k], job'[k])
    BY DEF JobsInv
  <2> QED
    BY <2>1 DEF KeyOK, JobKeeps, ReplayUntil
<1> QED
  BY <1>1, <1>2 DEF JobsInv

LEMMA MoveStep ==
    ASSUME JobsInv, TypeOK', row' = row, now' = now,
           \A j \in Jobs : JobMove(job[j], job'[j]),
           \A i \in Ids : LegMove(i) /\ NoNewCall(i) /\ receipt'[i] \in {receipt[i], "nothing"},
           \A i \in Ids : AskedOK(i)',
           \A j \in Jobs : JobOK(j)' /\ EgressOK(j)'
    PROVE  JobsInv'
<1>1. \A j \in Jobs : JobKeeps(job[j], job'[j])
  BY DEF JobMove
<1>2. ASSUME NEW i \in Ids
      PROVE  /\ job'[i[1]].egress => leg[i].dispatched
             /\ job'[i[1]].phase = "complete" => leg'[i].settlement = "settled"
  <2>1. JobMove(job[i[1]], job'[i[1]])
    BY IdParts
  <2>2. LegOK(i) /\ ReceiptOK(i) /\ TypeOK
    BY DEF JobsInv
  <2>3. leg'[i].settlement \in {leg[i].settlement, "settled"}
    BY <2>2, LegMoveShape
  <2> QED
    BY <2>1, <2>2, <2>3 DEF JobMove, LegOK, ReceiptOK
<1> QED
  BY <1>1, <1>2, KeepStep

(* A job that a step leaves alone.                                         *)
LEMMA JobUntouched ==
    ASSUME JobsInv, NEW j \in Jobs, job'[j] = job[j], worker'[j] = worker[j],
           run'[j] = run[j], sent'[j] = sent[j], binding'[j] \in {binding[j], "closed"},
           now' = now
    PROVE  JobOK(j)' /\ EgressOK(j)' /\ JobMove(job[j], job'[j])
<1>1. JobOK(j) /\ EgressOK(j)
  BY DEF JobsInv
<1> QED
  BY <1>1 DEF JobOK, EgressOK, JobMove, JobKeeps, ReplayUntil

-----------------------------------------------------------------------------
(* A transaction about one job j.                                          *)
OwnerWrites(j) ==
    /\ job' \in [Jobs -> Job] /\ leg' \in [Ids -> Leg]
    /\ binding' \in [Jobs -> {"none", "open", "closed"}]
    /\ alarm' \in 0..(MaxTime + Admission + Replay) \cup {Never}
    /\ \A k \in Jobs \ {j} : job'[k] = job[k]
    /\ \A k \in Jobs : binding'[k] \in {binding[k], "closed"}
    /\ \A i \in Ids : LegMove(i)
    /\ JobMove(job[j], job'[j])
    /\ job'[j].frozen => binding'[j] # "open"

CallTypes ==
    /\ run \in [Jobs -> {"none", "reserve", "dispatch", "dispatched"}]
    /\ asked \in [Ids -> {"nothing", "reserve", "dispatch", "yes", "no", "lost"}]
    /\ process \in [Jobs -> {"none", "collect", "replay", "settling", "closing"}]
    /\ worker \in [Jobs -> {"idle", "admitting", "admitted", "dispatching", "ready",
                            "sent", "bound", "done"}]
    /\ sent \in [Jobs -> BOOLEAN]
    /\ faults \in 0..MaxFaults

LEMMA SameMove ==
    ASSUME NEW r, NEW s, r.born = s.born, r.phase = s.phase, r.egress = s.egress,
           r.frozen = s.frozen, r.amount = s.amount
    PROVE  JobMove(r, s)
  BY DEF JobMove, JobKeeps

LEMMA MutateMoves ==
    ASSUME JobsInv, NEW rows \in [Jobs -> Job],
           NEW current \in 0..(MaxTime + Admission + Replay) \cup {Never},
           Mutate(rows, leg, binding, current)
    PROVE  /\ job' = rows /\ leg' \in [Ids -> Leg]
           /\ binding' \in [Jobs -> {"none", "open", "closed"}]
           /\ alarm' \in 0..(MaxTime + Admission + Replay) \cup {Never}
           /\ \A k \in Jobs : binding'[k] \in {binding[k], "closed"}
           /\ \A i \in Ids : LegMove(i)
           /\ \A k \in Jobs : rows[k].frozen => binding'[k] # "open"
<1>1. TypeOK /\ leg \in [Ids -> Leg] /\ binding \in [Jobs -> {"none", "open", "closed"}]
  BY DEF JobsInv, TypeOK
<1>2. /\ job' = rows
      /\ leg' \in [Ids -> Leg]
      /\ binding' \in [Jobs -> {"none", "open", "closed"}]
      /\ alarm' \in 0..(MaxTime + Admission + Replay) \cup {Never}
      /\ \A i \in Ids : IF rows[i[1]].frozen /\ ~job[i[1]].frozen
                        THEN leg'[i] = LegAtFreeze(leg[i]) ELSE leg'[i] = leg[i]
      /\ \A j \in Jobs : \/ binding'[j] = binding[j]
                         \/ binding[j] = "open" /\ binding'[j] = "closed"
      /\ \A j \in Jobs : rows[j].frozen /\ ~job[j].frozen => binding'[j] # "open"
  BY <1>1, MutateShape
<1>3. \A i \in Ids : LegMove(i)
  BY <1>2 DEF LegMove
<1>4. \A k \in Jobs : job[k].frozen => binding[k] # "open"
  BY DEF JobsInv, JobOK
<1>5. \A k \in Jobs : rows[k].frozen => binding'[k] # "open"
  BY <1>2, <1>4
<1> QED
  BY <1>2, <1>3, <1>5

LEMMA SaveJobWrites ==
    ASSUME JobsInv, NEW j \in Jobs, NEW s \in Job, SaveJob(j, s), JobMove(job[j], s)
    PROVE  OwnerWrites(j) /\ job'[j] = s
<1> DEFINE rows == [job EXCEPT ![j] = s]
<1>1. job \in [Jobs -> Job] /\ alarm \in 0..(MaxTime + Admission + Replay) \cup {Never}
  BY DEF JobsInv, TypeOK
<1>2. rows \in [Jobs -> Job] /\ rows[j] = s /\ \A k \in Jobs \ {j} : rows[k] = job[k]
  BY <1>1
<1>3. Mutate(rows, leg, binding, alarm)
  BY DEF SaveJob
<1> HIDE DEF rows
<1>4. /\ job' = rows /\ leg' \in [Ids -> Leg]
      /\ binding' \in [Jobs -> {"none", "open", "closed"}]
      /\ alarm' \in 0..(MaxTime + Admission + Replay) \cup {Never}
      /\ \A k \in Jobs : binding'[k] \in {binding[k], "closed"}
      /\ \A i \in Ids : LegMove(i)
      /\ \A k \in Jobs : rows[k].frozen => binding'[k] # "open"
  BY <1>1, <1>2, <1>3, MutateMoves
<1> QED
  BY <1>2, <1>4 DEF OwnerWrites

LEMMA UnchangedWrites ==
    ASSUME JobsInv, NEW j \in Jobs, Unchanged
    PROVE  OwnerWrites(j) /\ job'[j] = job[j]
<1>1. job' = job /\ leg' = leg /\ binding' = binding /\ alarm' = alarm
  BY DEF Unchanged
<1>2. TypeOK /\ JobOK(j)
  BY DEF JobsInv
<1>3. \A i \in Ids : LegMove(i)
  BY <1>1 DEF LegMove
<1>4. JobMove(job[j], job'[j])
  BY <1>1, SameMove
<1> QED
  BY <1>1, <1>2, <1>3, <1>4 DEF OwnerWrites, TypeOK, JobOK

LEMMA FreezeWrites ==
    ASSUME JobsInv, NEW j \in Jobs, NEW a \in 0..MaxMicros, Freeze(j, a)
    PROVE  OwnerWrites(j) /\ job'[j] = Receipt(job[j], a)
<1> DEFINE s == Receipt(job[j], a)
<1>1. job[j] \in Job /\ now \in 0..MaxTime
  BY DEF JobsInv, TypeOK
<1>2. /\ s \in Job
      /\ s = job[j] \/ /\ job[j].phase \in Live /\ ~job[j].frozen /\ s.phase = "outbox"
                       /\ s.frozen /\ s.amount = a /\ ~s.known
                       /\ s.born = job[j].born /\ s.egress = job[j].egress
  BY <1>1, ReceiptShape
<1>3. SaveJob(j, s)
  BY DEF Freeze
<1> HIDE DEF s
<1>4. JobMove(job[j], s)
  BY <1>2 DEF JobMove, JobKeeps, Live
<1> QED
  BY <1>2, <1>3, <1>4, SaveJobWrites DEF s

(* The receipt of a job: what it costs, by what has left.                  *)
LEMMA FrozenJob ==
    ASSUME JobsInv, NEW j \in Jobs, NEW a \in 0..MaxMicros, now' = now,
           job'[j] = Receipt(job[j], a), job'[j].frozen => binding'[j] # "open",
           run'[j] \in {run[j], "none"}, worker'[j] \in {worker[j], "done"}, sent'[j] = sent[j],
           ~job[j].egress => a = Unbilled,
           job[j].egress /\ j \in Managed => a = Billed \/ (~sent[j] /\ worker'[j] = "done")
    PROVE  JobOK(j)' /\ EgressOK(j)'
<1> DEFINE r == job[j]
           s == Receipt(r, a)
<1>1. r \in Job /\ now \in 0..MaxTime /\ JobOK(j) /\ EgressOK(j)
  BY DEF JobsInv, TypeOK
<1>2. s = r \/ /\ r.phase \in Live /\ ~r.frozen /\ s.phase = "outbox"
               /\ s.frozen /\ s.amount = a /\ ~s.known
               /\ s.born = r.born /\ s.egress = r.egress
  BY <1>1, ReceiptShape
<1>3. job'[j] = s
  OBVIOUS
<1> HIDE DEF s
<1>4. CASE s = r
  BY <1>1, <1>3, <1>4 DEF JobOK, EgressOK, ReplayUntil
<1>5. CASE s # r
  <2>1. /\ r.phase \in Live /\ ~r.frozen /\ s.phase = "outbox"
        /\ s.frozen /\ s.amount = a /\ ~s.known /\ s.born = r.born /\ s.egress = r.egress
    BY <1>2, <1>5
  <2>2. r.phase # "none"
    BY <2>1 DEF Live
  <2>3. JobOK(j)'
    BY <1>1, <1>3, <2>1, <2>2 DEF JobOK, ReplayUntil
  <2>4. EgressOK(j)'
    BY <1>1, <1>3, <2>1 DEF EgressOK
  <2> QED
    BY <2>3, <2>4
<1> QED
  BY <1>4, <1>5

(* A step of job j, its worker and its calls, with what its owner writes.  *)
LEMMA WriteStep ==
    ASSUME JobsInv, NEW j \in Jobs, OwnerWrites(j), CallTypes',
           UNCHANGED <<row, now, receipt, net>>,
           \A k \in Jobs \ {j} : /\ run'[k] = run[k] /\ worker'[k] = worker[k]
                                 /\ sent'[k] = sent[k],
           \A i \in Ids : i[1] # j => asked'[i] = asked[i],
           \A i \in Ids : i[1] = j => AskedOK(i)',
           JobOK(j)' /\ EgressOK(j)'
    PROVE  JobsInv'
<1>1. TypeOK'
  BY DEF JobsInv, TypeOK, OwnerWrites, CallTypes
<1>2. \A k \in Jobs \ {j} : JobOK(k)' /\ EgressOK(k)' /\ JobMove(job[k], job'[k])
  <2> SUFFICES ASSUME NEW k \in Jobs \ {j}
               PROVE  JobOK(k)' /\ EgressOK(k)' /\ JobMove(job[k], job'[k])
    OBVIOUS
  <2>1. job'[k] = job[k] /\ binding'[k] \in {binding[k], "closed"}
    BY DEF OwnerWrites
  <2> QED
    BY <2>1, JobUntouched
<1>3. \A k \in Jobs : JobMove(job[k], job'[k])
  BY <1>2 DEF OwnerWrites
<1>4. \A i \in Ids : LegMove(i) /\ NoNewCall(i) /\ receipt'[i] \in {receipt[i], "nothing"}
  BY DEF OwnerWrites, NoNewCall
<1>5. \A i \in Ids : AskedOK(i)'
  <2> SUFFICES ASSUME NEW i \in Ids, i[1] # j PROVE AskedOK(i)'
    OBVIOUS
  <2>1. i[1] \in Jobs \ {j}
    BY IdParts
  <2>2. \A k \in LegsOf(i[1]) : asked'[k] = asked[k]
    BY DEF LegsOf
  <2>3. JobMove(job[i[1]], job'[i[1]]) /\ LegMove(i) /\ NoNewCall(i)
    BY <1>3, <1>4, <2>1
  <2> QED
    BY <2>1, <2>2, <2>3, MoveKeepsAsked DEF JobMove
<1> QED
  BY <1>1, <1>2, <1>3, <1>4, <1>5, MoveStep

LEMMA CallKept ==
    ASSUME JobsInv, NEW j \in Jobs, OwnerWrites(j), CallTypes',
           UNCHANGED <<row, now, receipt, net, run, asked>>,
           \A k \in Jobs \ {j} : worker'[k] = worker[k] /\ sent'[k] = sent[k],
           JobOK(j)' /\ EgressOK(j)'
    PROVE  JobsInv'
<1>1. \A i \in Ids : i[1] = j => AskedOK(i)'
  <2> SUFFICES ASSUME NEW i \in Ids, i[1] = j PROVE AskedOK(i)'
    OBVIOUS
  <2>1. JobKeeps(job[i[1]], job'[i[1]]) /\ LegMove(i) /\ NoNewCall(i)
    BY DEF OwnerWrites, JobMove, NoNewCall
  <2> QED
    BY <2>1, MoveKeepsAsked
<1> QED
  BY <1>1, WriteStep

LEMMA CallEnds ==
    ASSUME JobsInv, NEW j \in Jobs, OwnerWrites(j), CallTypes',
           UNCHANGED <<row, now, receipt, net>>,
           \A k \in Jobs \ {j} : /\ run'[k] = run[k] /\ worker'[k] = worker[k]
                                 /\ sent'[k] = sent[k],
           run'[j] \notin {"reserve", "dispatch"},
           \A i \in Ids : asked'[i] = IF i[1] = j THEN "nothing" ELSE asked[i],
           JobOK(j)' /\ EgressOK(j)'
    PROVE  JobsInv'
<1>1. \A i \in Ids : i[1] = j => AskedOK(i)'
  BY AskedNothing
<1> QED
  BY <1>1, WriteStep

(* Only the call of a job that reserves or dispatches awaits a ledger.     *)
LEMMA NothingAsked ==
    ASSUME JobsInv, NEW j \in Jobs, NoneAsked(j) \/ run[j] \notin {"reserve", "dispatch"}
    PROVE  \A i \in Ids : i[1] = j => asked[i] = "nothing"
  BY DEF NoneAsked, LegsOf, JobsInv, AskedOK

-----------------------------------------------------------------------------
(* The worker of a job.                                                    *)
LEMMA HearAdmittedStep ==
    ASSUME JobsInv, NEW j \in Jobs, HearAdmitted(j)
    PROVE  JobsInv'
<1>1. /\ worker[j] = "admitting" /\ run[j] = "reserve" /\ NoneAsked(j)
      /\ worker' = [worker EXCEPT ![j] = "admitted"] /\ run' = [run EXCEPT ![j] = "none"]
      /\ UNCHANGED <<row, now, job, leg, binding, asked, process, receipt, alarm, sent, net, faults>>
  BY DEF HearAdmitted, Works, Runs
<1>2. TypeOK /\ JobOK(j) /\ EgressOK(j)
  BY DEF JobsInv
<1>3. OwnerWrites(j)
  BY <1>1, UnchangedWrites DEF Unchanged
<1>4. CallTypes'
  BY <1>1, <1>2 DEF TypeOK, CallTypes
<1>5. worker'[j] = "admitted" /\ run'[j] = "none"
  BY <1>1, <1>2 DEF TypeOK
<1>6. JobOK(j)' /\ EgressOK(j)'
  BY <1>1, <1>2, <1>5 DEF JobOK, EgressOK, ReplayUntil
<1> QED
  BY <1>1, <1>2, <1>3, <1>4, <1>5, <1>6, NothingAsked, CallEnds DEF TypeOK

LEMMA HearDispatchedStep ==
    ASSUME JobsInv, NEW j \in Jobs, HearDispatched(j)
    PROVE  JobsInv'
<1>1. /\ worker[j] = "dispatching" /\ run[j] = "dispatched"
      /\ worker' = [worker EXCEPT ![j] = "ready"] /\ run' = [run EXCEPT ![j] = "none"]
      /\ UNCHANGED <<row, now, job, leg, binding, asked, process, receipt, alarm, sent, net, faults>>
  BY DEF HearDispatched, Works, Runs
<1>2. TypeOK /\ JobOK(j) /\ EgressOK(j)
  BY DEF JobsInv
<1>3. OwnerWrites(j)
  BY <1>1, UnchangedWrites DEF Unchanged
<1>4. CallTypes'
  BY <1>1, <1>2 DEF TypeOK, CallTypes
<1>5. worker'[j] = "ready" /\ run'[j] = "none"
  BY <1>1, <1>2 DEF TypeOK
<1>6. JobOK(j)' /\ EgressOK(j)'
  BY <1>1, <1>2, <1>5 DEF JobOK, EgressOK, ReplayUntil
<1> QED
  BY <1>1, <1>2, <1>3, <1>4, <1>5, <1>6, NothingAsked, CallEnds DEF TypeOK

LEMMA SendStep ==
    ASSUME JobsInv, NEW j \in Jobs, Send(j)
    PROVE  JobsInv'
<1>1. /\ worker[j] = "ready"
      /\ worker' = [worker EXCEPT ![j] = "sent"] /\ sent' = [sent EXCEPT ![j] = TRUE]
      /\ UNCHANGED <<row, now, job, leg, binding, run, asked, process, receipt, alarm, net, faults>>
  BY DEF Send, Works
<1>2. TypeOK /\ JobOK(j) /\ EgressOK(j)
  BY DEF JobsInv
<1>3. OwnerWrites(j)
  BY <1>1, UnchangedWrites DEF Unchanged
<1>4. CallTypes'
  BY <1>1, <1>2 DEF TypeOK, CallTypes
<1>5. worker'[j] = "sent" /\ sent'[j]
  BY <1>1, <1>2 DEF TypeOK
<1>6. JobOK(j)' /\ EgressOK(j)'
  BY <1>1, <1>2, <1>5 DEF JobOK, EgressOK, ReplayUntil
<1> QED
  BY <1>1, <1>2, <1>3, <1>4, <1>6, CallKept DEF TypeOK

(* A worker that ends with a receipt.                                      *)
LEMMA WorkerEnds ==
    ASSUME JobsInv, NEW j \in Jobs, NEW a \in 0..MaxMicros, Freeze(j, a), Works(j, "done"),
           UNCHANGED <<row, now, run, asked, process, receipt, sent, net, faults>>,
           ~job[j].egress => a = Unbilled,
           job[j].egress /\ j \in Managed => a = Billed \/ ~sent[j]
    PROVE  JobsInv'
<1>1. OwnerWrites(j) /\ job'[j] = Receipt(job[j], a)
  BY FreezeWrites
<1>2. TypeOK
  BY DEF JobsInv
<1>3. worker'[j] = "done" /\ \A k \in Jobs \ {j} : worker'[k] = worker[k]
  BY <1>2 DEF TypeOK, Works
<1>4. CallTypes'
  BY <1>2 DEF TypeOK, CallTypes, Works
<1>5. job'[j].frozen => binding'[j] # "open"
  BY <1>1 DEF OwnerWrites
<1>6. JobOK(j)' /\ EgressOK(j)'
  BY <1>1, <1>3, <1>5, FrozenJob
<1> QED
  BY <1>1, <1>3, <1>4, <1>6, CallKept

LEMMA UnsentStep ==
    ASSUME JobsInv, NEW j \in Jobs, Unsent(j)
    PROVE  JobsInv'
<1>1. EgressOK(j) /\ Unbilled \in 0..MaxMicros
  BY MicrosType DEF JobsInv, Unbilled
<1>2. j \in Managed => ~sent[j]
  BY <1>1 DEF Unsent, KnownUnsent, EgressOK
<1> QED
  BY <1>1, <1>2, WorkerEnds DEF Unsent

LEMMA RejectedStep ==
    ASSUME JobsInv, NEW j \in Jobs \ Managed, Rejected(j)
    PROVE  JobsInv'
<1>1. PICK a \in 0..MaxMicros : Freeze(j, a)
  BY DEF Rejected
<1>2. job[j].egress
  BY DEF Rejected, JobsInv, EgressOK
<1> QED
  BY <1>1, <1>2, WorkerEnds DEF Rejected

LEMMA WorkerDone ==
    ASSUME JobsInv, NEW j \in Jobs, worker[j] # "idle", Unchanged, Works(j, "done"),
           UNCHANGED <<row, now, run, asked, process, receipt, sent, net, faults>>
    PROVE  JobsInv'
<1>1. OwnerWrites(j) /\ job'[j] = job[j] /\ binding' = binding
  BY UnchangedWrites DEF Unchanged
<1>2. TypeOK /\ JobOK(j) /\ EgressOK(j)
  BY DEF JobsInv
<1>3. worker'[j] = "done" /\ \A k \in Jobs \ {j} : worker'[k] = worker[k]
  BY <1>2 DEF TypeOK, Works
<1>4. CallTypes'
  BY <1>2 DEF TypeOK, CallTypes, Works
<1>5. JobOK(j)' /\ EgressOK(j)'
  BY <1>1, <1>2, <1>3 DEF JobOK, EgressOK, ReplayUntil
<1> QED
  BY <1>1, <1>3, <1>4, <1>5, CallKept

LEMMA ObserveStep ==
    ASSUME JobsInv, NEW j \in Jobs, Observe(j)
    PROVE  JobsInv'
<1>1. job[j].egress
  BY DEF Observe, JobsInv, EgressOK
<1>2. CASE Observable(j)
  <2>1. PICK a \in (IF j \in Managed THEN {Billed} ELSE 0..MaxMicros) : Freeze(j, a)
    BY <1>2 DEF Observe, Observed
  <2>2. a \in 0..MaxMicros /\ (j \in Managed => a = Billed)
    BY <2>1, JobsType DEF Billed
  <2> QED
    BY <1>1, <2>1, <2>2, WorkerEnds DEF Observe
<1>3. CASE ~Observable(j)
  BY <1>3, WorkerDone DEF Observe, Observed
<1> QED
  BY <1>2, <1>3

(* A step of the owner's recovery that leaves the worker and its call.     *)
LEMMA RecoveryStep ==
    ASSUME JobsInv, NEW j \in Jobs, OwnerWrites(j),
           process' \in [Jobs -> {"none", "collect", "replay", "settling", "closing"}],
           faults' \in 0..MaxFaults,
           UNCHANGED <<row, now, run, asked, receipt, worker, sent, net>>,
           JobOK(j)' /\ EgressOK(j)'
    PROVE  JobsInv'
<1>1. CallTypes'
  BY DEF JobsInv, TypeOK, CallTypes
<1> QED
  BY <1>1, CallKept

LEMMA CollectStep ==
    ASSUME JobsInv, NEW j \in Jobs, Collect(j)
    PROVE  JobsInv'
<1>1. TypeOK /\ JobOK(j) /\ EgressOK(j)
  BY DEF JobsInv
<1>2. job[j].egress
  BY <1>1 DEF Collect, JobOK
<1>3. PICK a \in (IF j \in Managed THEN {Billed} ELSE 0..MaxMicros) : Freeze(j, a)
  BY DEF Collect, Observed
<1>4. a \in 0..MaxMicros /\ (j \in Managed => a = Billed)
  BY <1>3, JobsType DEF Billed
<1>5. OwnerWrites(j) /\ job'[j] = Receipt(job[j], a)
  BY <1>3, <1>4, FreezeWrites
<1>6. UNCHANGED <<row, now, run, asked, process, receipt, worker, sent, net, faults>>
  BY DEF Collect
<1>7. JobOK(j)' /\ EgressOK(j)'
  BY <1>2, <1>4, <1>5, <1>6, FrozenJob DEF OwnerWrites
<1> QED
  BY <1>1, <1>5, <1>6, <1>7, RecoveryStep DEF TypeOK

(* retry(): a later attempt, and nothing else of the job.                  *)
LEMMA RetryWrites ==
    ASSUME JobsInv, NEW j \in Jobs,
           IF IsLive(j) THEN SaveJob(j, [job[j] EXCEPT !.next = Soon(job[j])]) ELSE Unchanged,
           UNCHANGED <<now, run, worker, sent>>
    PROVE  OwnerWrites(j) /\ JobOK(j)' /\ EgressOK(j)'
<1>1. TypeOK /\ JobOK(j) /\ EgressOK(j) /\ job[j] \in Job /\ now \in 0..MaxTime
  BY DEF JobsInv, TypeOK
<1>2. CASE IsLive(j)
  <2> DEFINE s == [job[j] EXCEPT !.next = Soon(job[j])]
  <2>1. Soon(job[j]) \in 0..MaxTime + Admission + Replay
    BY <1>1, DeadlineTypes
  <2>2. /\ s \in Job /\ s.born = job[j].born /\ s.phase = job[j].phase
        /\ s.egress = job[j].egress /\ s.frozen = job[j].frozen
        /\ s.amount = job[j].amount /\ s.known = job[j].known
    BY <1>1, <2>1 DEF Job
  <2>3. SaveJob(j, s)
    BY <1>2
  <2> HIDE DEF s
  <2>4. OwnerWrites(j) /\ job'[j] = s
    BY <2>2, <2>3, SameMove, SaveJobWrites
  <2>5. job'[j].frozen => binding'[j] # "open"
    BY <2>4 DEF OwnerWrites
  <2> QED
    BY <1>1, <2>2, <2>4, <2>5 DEF JobOK, EgressOK, ReplayUntil
<1>3. CASE ~IsLive(j)
  <2>1. OwnerWrites(j) /\ job'[j] = job[j] /\ binding' = binding
    BY <1>3, UnchangedWrites DEF Unchanged
  <2> QED
    BY <1>1, <2>1 DEF JobOK, EgressOK, ReplayUntil
<1> QED
  BY <1>2, <1>3

LEMMA CollectFailsStep ==
    ASSUME JobsInv, NEW j \in Jobs, CollectFails(j)
    PROVE  JobsInv'
<1>1. /\ IF IsLive(j) THEN SaveJob(j, [job[j] EXCEPT !.next = Soon(job[j])]) ELSE Unchanged
      /\ process' = [process EXCEPT ![j] = "none"]
      /\ UNCHANGED <<row, now, run, asked, receipt, worker, sent, net, faults>>
  BY DEF CollectFails
<1>2. OwnerWrites(j) /\ JobOK(j)' /\ EgressOK(j)'
  BY <1>1, RetryWrites
<1>3. process' \in [Jobs -> {"none", "collect", "replay", "settling", "closing"}]
      /\ faults' \in 0..MaxFaults
  BY <1>1 DEF JobsInv, TypeOK
<1> QED
  BY <1>1, <1>2, <1>3, RecoveryStep

LEMMA ProcessDoneStep ==
    ASSUME JobsInv, NEW j \in Jobs, ProcessDone(j)
    PROVE  JobsInv'
<1>1. /\ IF IsLive(j) THEN SaveJob(j, [job[j] EXCEPT !.next = Soon(job[j])]) ELSE Unchanged
      /\ process' = [process EXCEPT ![j] = "none"]
      /\ UNCHANGED <<row, now, run, asked, receipt, worker, sent, net, faults>>
  BY DEF ProcessDone
<1>2. OwnerWrites(j) /\ JobOK(j)' /\ EgressOK(j)'
  BY <1>1, RetryWrites
<1>3. process' \in [Jobs -> {"none", "collect", "replay", "settling", "closing"}]
      /\ faults' \in 0..MaxFaults
  BY <1>1 DEF JobsInv, TypeOK
<1> QED
  BY <1>1, <1>2, <1>3, RecoveryStep

LEMMA BindWrites ==
    ASSUME JobsInv, NEW j \in Jobs, worker[j] = "sent", IsLive(j),
           NEW b \in {"open", "closed"}, job[j].frozen => b = "closed",
           Mutate([job EXCEPT ![j] = Identified(j)], leg, [binding EXCEPT ![j] = b], alarm),
           Works(j, "bound"),
           UNCHANGED <<row, now, run, asked, process, receipt, sent, net, faults>>
    PROVE  JobsInv'
<1> DEFINE s == Identified(j)
           rows == [job EXCEPT ![j] = s]
           bindings == [binding EXCEPT ![j] = b]
<1>1. TypeOK /\ JobOK(j) /\ EgressOK(j) /\ job[j] \in Job
  BY DEF JobsInv, TypeOK
<1>2. /\ s \in Job /\ s.born = job[j].born /\ s.phase = job[j].phase
      /\ s.egress = job[j].egress /\ s.frozen = job[j].frozen
      /\ s.amount = job[j].amount
  <2>1. CASE Observable(j)
    <3>1. s = [job[j] EXCEPT !.known = TRUE]
      BY <2>1 DEF Identified
    <3> QED
      BY <1>1, <3>1 DEF Job
  <2>2. CASE ~Observable(j)
    BY <1>1, <2>2 DEF Identified
  <2> QED
    BY <2>1, <2>2
<1>3. job[j].egress
  BY <1>1 DEF EgressOK
<1> HIDE DEF s
<1>4. /\ rows \in [Jobs -> Job] /\ rows[j] = s /\ \A k \in Jobs \ {j} : rows[k] = job[k]
      /\ leg \in [Ids -> Leg]
      /\ bindings \in [Jobs -> {"none", "open", "closed"}] /\ bindings[j] = b
      /\ \A k \in Jobs \ {j} : bindings[k] = binding[k]
      /\ alarm \in 0..(MaxTime + Admission + Replay) \cup {Never}
  BY <1>1, <1>2 DEF TypeOK
<1>5. Mutate(rows, leg, bindings, alarm)
  BY DEF s
<1> HIDE DEF rows, bindings
<1>6. /\ job' = rows
      /\ leg' \in [Ids -> Leg]
      /\ binding' \in [Jobs -> {"none", "open", "closed"}]
      /\ alarm' \in 0..(MaxTime + Admission + Replay) \cup {Never}
      /\ \A i \in Ids : IF rows[i[1]].frozen /\ ~job[i[1]].frozen
                        THEN leg'[i] = LegAtFreeze(leg[i]) ELSE leg'[i] = leg[i]
      /\ \A k \in Jobs : \/ binding'[k] = bindings[k]
                         \/ bindings[k] = "open" /\ binding'[k] = "closed"
      /\ \A k \in Jobs : rows[k].frozen /\ ~job[k].frozen => binding'[k] # "open"
  <2>1. /\ TypeOK /\ rows \in [Jobs -> Job] /\ leg \in [Ids -> Leg]
        /\ bindings \in [Jobs -> {"none", "open", "closed"}]
        /\ alarm \in 0..(MaxTime + Admission + Replay) \cup {Never}
    BY <1>1, <1>4
  <2> QED
    BY <1>5, <2>1, MutateShape
<1>7. \A i \in Ids : LegMove(i) /\ NoNewCall(i) /\ receipt'[i] \in {receipt[i], "nothing"}
  BY <1>6 DEF LegMove, NoNewCall
<1>8. JobMove(job[j], job'[j])
  <2>1. JobMove(job[j], s)
    BY <1>2, SameMove
  <2> QED
    BY <1>4, <1>6, <2>1
<1>9. worker' = [worker EXCEPT ![j] = "bound"]
  BY DEF Works
<1>10. worker'[j] = "bound" /\ \A k \in Jobs \ {j} : worker'[k] = worker[k]
  BY <1>1, <1>9 DEF TypeOK
<1>11. TypeOK'
  BY <1>1, <1>4, <1>6, <1>9 DEF TypeOK
<1>12. JobOK(j)' /\ EgressOK(j)'
  <2>1. binding'[j] = b \/ binding'[j] = "closed"
    BY <1>4, <1>6
  <2>2. job'[j] = s
    BY <1>4, <1>6
  <2>3. worker[j] = "sent" /\ job[j].phase # "none"
    BY DEF IsLive, Live
  <2> QED
    BY <1>1, <1>2, <1>3, <1>10, <2>1, <2>2, <2>3 DEF JobOK, EgressOK, ReplayUntil
<1>13. \A k \in Jobs \ {j} : JobOK(k)' /\ EgressOK(k)' /\ JobMove(job[k], job'[k])
  <2> SUFFICES ASSUME NEW k \in Jobs \ {j}
               PROVE  JobOK(k)' /\ EgressOK(k)' /\ JobMove(job[k], job'[k])
    OBVIOUS
  <2>1. job'[k] = job[k] /\ binding'[k] \in {binding[k], "closed"} /\ worker'[k] = worker[k]
    BY <1>4, <1>6, <1>10
  <2> QED
    BY <2>1, JobUntouched
<1>14. \A k \in Jobs : JobMove(job[k], job'[k]) /\ JobKeeps(job[k], job'[k])
  BY <1>8, <1>13 DEF JobMove
<1>15. \A i \in Ids : AskedOK(i)'
  BY <1>7, <1>14, IdParts, MoveKeepsAsked
<1> QED
  BY <1>7, <1>11, <1>12, <1>13, <1>14, <1>15, MoveStep

LEMMA BindStep ==
    ASSUME JobsInv, NEW j \in Jobs, Bind(j)
    PROVE  JobsInv'
<1>1. /\ worker[j] = "sent"
      /\ UNCHANGED <<row, now, run, asked, process, receipt, sent, net, faults>>
  BY DEF Bind
<1>2. CASE j \in Managed /\ Observable(j) /\ job[j].phase = "observing"
  <2>1. /\ Mutate([job EXCEPT ![j] = Identified(j)], leg, [binding EXCEPT ![j] = "open"], alarm)
        /\ Works(j, "bound") /\ IsLive(j) /\ ~job[j].frozen
    BY <1>2 DEF Bind, Observable
  <2> QED
    BY <1>1, <2>1, BindWrites
<1>3. CASE j \notin Managed /\ IsLive(j)
  <2> DEFINE b == IF job[j].frozen THEN "closed" ELSE "open"
  <2>1. /\ Mutate([job EXCEPT ![j] = Identified(j)], leg, [binding EXCEPT ![j] = b], alarm)
        /\ Works(j, "bound")
    BY <1>3 DEF Bind
  <2>2. b \in {"open", "closed"} /\ (job[j].frozen => b = "closed")
    OBVIOUS
  <2> HIDE DEF b
  <2> QED
    BY <1>1, <1>3, <2>1, <2>2, BindWrites
<1>4. CASE ~(j \in Managed /\ Observable(j) /\ job[j].phase = "observing")
           /\ ~(j \notin Managed /\ IsLive(j))
  <2>1. Unchanged /\ Works(j, "done")
    BY <1>4 DEF Bind
  <2> QED
    BY <1>1, <2>1, WorkerDone
<1> QED
  BY <1>2, <1>3, <1>4

-----------------------------------------------------------------------------
(* A step about one leg i.                                                 *)
LEMMA IdStep ==
    ASSUME JobsInv, TypeOK', NEW i \in Ids, row' = row, now' = now,
           \A j \in Jobs : JobKeeps(job[j], job'[j]),
           \A k \in Ids \ {i} : /\ LegMove(k) /\ NoNewCall(k)
                                /\ receipt'[k] \in {receipt[k], "nothing"}
                                /\ job'[k[1]].egress => leg[k].dispatched
                                /\ job'[k[1]].phase = "complete" => leg'[k].settlement = "settled",
           \A k \in Ids : k[1] # i[1] => asked'[k] = asked[k] /\ run'[k[1]] = run[k[1]],
           LegOK(i)' /\ ReceiptOK(i)', \A k \in LegsOf(i[1]) : AskedOK(k)',
           \A j \in Jobs : JobOK(j)' /\ EgressOK(j)'
    PROVE  JobsInv'
<1>1. \A k \in Ids \ {i} : LegOK(k)' /\ RowOK(k, row[k])' /\ ReceiptOK(k)'
  BY IdParts, MoveKeepsLeg
<1>2. RowOK(i, row[i])'
  <2>1. RowOK(i, row[i]) /\ JobKeeps(job[i[1]], job'[i[1]])
    BY IdParts DEF JobsInv
  <2> QED
    BY <2>1 DEF RowOK, JobKeeps
<1>3. ASSUME NEW k \in Ids
      PROVE  AskedOK(k)'
  <2>1. CASE k[1] = i[1]
    BY <2>1 DEF LegsOf
  <2>2. CASE k[1] # i[1]
    <3>1. \A m \in LegsOf(k[1]) : asked'[m] = asked[m]
      BY <2>2 DEF LegsOf
    <3>2. JobKeeps(job[k[1]], job'[k[1]]) /\ k # i
      BY <2>2, IdParts
    <3> QED
      BY <2>2, <3>1, <3>2, MoveKeepsAsked
  <2> QED
    BY <2>1, <2>2
<1>4. \A j, k \in Jobs : KeyOK(j, k)'
  <2> SUFFICES ASSUME NEW j \in Jobs, NEW k \in Jobs PROVE KeyOK(j, k)'
    OBVIOUS
  <2>1. KeyOK(j, k) /\ JobKeeps(job[j], job'[j]) /\ JobKeeps(job[k], job'[k])
    BY DEF JobsInv
  <2> QED
    BY <2>1 DEF KeyOK, JobKeeps, ReplayUntil
<1> QED
  BY <1>1, <1>2, <1>3, <1>4 DEF JobsInv

LEMMA SaveLegWrites ==
    ASSUME JobsInv, NEW i \in Ids, NEW l \in Leg, SaveLeg(i, l)
    PROVE  /\ job' = job /\ leg' = [leg EXCEPT ![i] = l]
           /\ binding' \in [Jobs -> {"none", "open", "closed"}]
           /\ \A k \in Jobs : binding'[k] \in {binding[k], "closed"}
           /\ alarm' \in 0..(MaxTime + Admission + Replay) \cup {Never}
<1> DEFINE legs == [leg EXCEPT ![i] = l]
<1>1. /\ TypeOK /\ job \in [Jobs -> Job] /\ leg \in [Ids -> Leg]
      /\ binding \in [Jobs -> {"none", "open", "closed"}]
      /\ alarm \in 0..(MaxTime + Admission + Replay) \cup {Never}
  BY DEF JobsInv, TypeOK
<1>2. legs \in [Ids -> Leg]
  BY <1>1
<1>3. Mutate(job, legs, binding, alarm)
  BY DEF SaveLeg
<1> HIDE DEF legs
<1>4. /\ job' = job
      /\ leg' \in [Ids -> Leg]
      /\ binding' \in [Jobs -> {"none", "open", "closed"}]
      /\ alarm' \in 0..(MaxTime + Admission + Replay) \cup {Never}
      /\ \A k \in Ids : IF job[k[1]].frozen /\ ~job[k[1]].frozen
                        THEN leg'[k] = LegAtFreeze(legs[k]) ELSE leg'[k] = legs[k]
      /\ \A j \in Jobs : \/ binding'[j] = binding[j]
                         \/ binding[j] = "open" /\ binding'[j] = "closed"
      /\ \A j \in Jobs : job[j].frozen /\ ~job[j].frozen => binding'[j] # "open"
  BY <1>1, <1>2, <1>3, MutateShape
<1>5. \A k \in Ids : leg'[k] = legs[k]
  BY <1>4
<1>6. leg' = legs
  BY <1>2, <1>4, <1>5
<1> QED
  BY <1>4, <1>6 DEF legs

(* The owner stores something about leg i of its running call.             *)
LEMMA SaveLegStep ==
    ASSUME JobsInv, NEW i \in Ids, NEW l \in Leg, SaveLeg(i, l),
           asked' \in [Ids -> {"nothing", "reserve", "dispatch", "yes", "no", "lost"}],
           net' \subseteq {"reserve", "dispatch", "settle"} \X Ids,
           UNCHANGED <<row, now, run, process, receipt, worker, sent, faults>>,
           \A k \in Ids \ {i} : NoNewCall(k) /\ asked'[k] = asked[k],
           LegOK(i)' /\ ReceiptOK(i)', \A k \in LegsOf(i[1]) : AskedOK(k)'
    PROVE  JobsInv'
<1>1. /\ job' = job /\ leg' = [leg EXCEPT ![i] = l]
      /\ binding' \in [Jobs -> {"none", "open", "closed"}]
      /\ \A k \in Jobs : binding'[k] \in {binding[k], "closed"}
      /\ alarm' \in 0..(MaxTime + Admission + Replay) \cup {Never}
  BY SaveLegWrites
<1>2. TypeOK
  BY DEF JobsInv
<1>3. TypeOK'
  BY <1>1, <1>2 DEF TypeOK
<1>4. \A j \in Jobs : JobOK(j)' /\ EgressOK(j)' /\ JobMove(job[j], job'[j])
  BY <1>1, JobUntouched
<1>5. \A j \in Jobs : JobKeeps(job[j], job'[j])
  BY <1>4 DEF JobMove
<1>6. ASSUME NEW k \in Ids \ {i}
      PROVE  /\ LegMove(k)
             /\ job'[k[1]].egress => leg[k].dispatched
             /\ job'[k[1]].phase = "complete" => leg'[k].settlement = "settled"
  <2>1. leg'[k] = leg[k] /\ LegOK(k) /\ ReceiptOK(k)
    BY <1>1, <1>2 DEF TypeOK, JobsInv
  <2> QED
    BY <1>1, <2>1 DEF LegMove, LegOK, ReceiptOK
<1>7. \A k \in Ids : k[1] # i[1] => asked'[k] = asked[k] /\ run'[k[1]] = run[k[1]]
  OBVIOUS
<1> QED
  BY <1>3, <1>4, <1>5, <1>6, <1>7, IdStep

(* The owner gives up the call it is in, with or without a receipt.        *)
LEMMA CallGivenUp ==
    ASSUME JobsInv, NEW j \in Jobs, run[j] \in {"reserve", "dispatch"},
           Freeze(j, Unbilled) \/ Unchanged, Runs(j, "none"),
           asked' \in [Ids -> {"nothing", "reserve", "dispatch", "yes", "no", "lost"}],
           \A i \in Ids : asked'[i] = IF i[1] = j THEN "nothing" ELSE asked[i],
           UNCHANGED <<row, now, process, receipt, worker, sent, net, faults>>
    PROVE  JobsInv'
<1>1. TypeOK /\ JobOK(j) /\ EgressOK(j) /\ Unbilled \in 0..MaxMicros
  BY MicrosType DEF JobsInv, Unbilled
<1>2. run'[j] = "none" /\ \A k \in Jobs \ {j} : run'[k] = run[k]
  BY <1>1 DEF Runs, TypeOK
<1>3. CallTypes'
  BY <1>1 DEF Runs, TypeOK, CallTypes
<1>4. ~job[j].egress
  BY <1>1 DEF EgressOK
<1>5. OwnerWrites(j) /\ JobOK(j)' /\ EgressOK(j)'
  <2>1. CASE Freeze(j, Unbilled)
    <3>1. OwnerWrites(j) /\ job'[j] = Receipt(job[j], Unbilled)
      BY <1>1, <2>1, FreezeWrites
    <3>2. job'[j].frozen => binding'[j] # "open"
      BY <3>1 DEF OwnerWrites
    <3> QED
      BY <1>1, <1>2, <1>4, <3>1, <3>2, FrozenJob
  <2>2. CASE Unchanged
    <3>1. OwnerWrites(j) /\ job'[j] = job[j] /\ binding' = binding
      BY <2>2, UnchangedWrites DEF Unchanged
    <3> QED
      BY <1>1, <1>2, <3>1 DEF JobOK, EgressOK, ReplayUntil
  <2> QED
    BY <2>1, <2>2
<1> QED
  BY <1>2, <1>3, <1>5, CallEnds

(* A leg that is awaited is the only one of its job.                       *)
LEMMA OneAwaited ==
    ASSUME JobsInv, NEW i \in Ids, asked[i] # "nothing", Forget(i)
    PROVE  /\ asked' \in [Ids -> {"nothing", "reserve", "dispatch", "yes", "no", "lost"}]
           /\ \A k \in Ids : asked'[k] = IF k[1] = i[1] THEN "nothing" ELSE asked[k]
<1>1. TypeOK
  BY DEF JobsInv
<1>2. asked' = [asked EXCEPT ![i] = "nothing"]
  BY DEF Forget
<1>3. \A k \in Ids : k[1] = i[1] /\ k # i => asked[k] = "nothing"
  BY DEF JobsInv, AskedOK, LegsOf
<1> QED
  BY <1>1, <1>2, <1>3 DEF TypeOK

-----------------------------------------------------------------------------
(* The calls to the ledgers.                                               *)
LEMMA BeginReserveStep ==
    ASSUME JobsInv, NEW i \in Ids, BeginReserve(i)
    PROVE  JobsInv'
<1> DEFINE j == i[1]
           l == [leg[i] EXCEPT !.reserve = "sent"]
<1>1. /\ run[j] = "reserve" /\ NoneAsked(j) /\ leg[i].reserve = "never"
      /\ UNCHANGED <<row, now, process, receipt, worker, sent, faults>>
  BY DEF BeginReserve
<1>2. j \in Jobs /\ TypeOK /\ leg[i] \in Leg
  BY IdParts DEF JobsInv, TypeOK
<1>3. \A k \in Ids : k[1] = j => asked[k] = "nothing"
  BY <1>1, <1>2, NothingAsked
<1>4. CASE Admitting(j)
  <2>1. SaveLeg(i, l) /\ Ask("reserve", i) /\ run' = run
    BY <1>4 DEF BeginReserve
  <2>2. /\ l \in Leg /\ l.reserve = "sent" /\ l.dispatched = leg[i].dispatched
        /\ l.settlement = leg[i].settlement
    BY <1>2 DEF Leg
  <2> HIDE DEF l
  <2>3. /\ asked' = [asked EXCEPT ![i] = "reserve"]
        /\ net' = net \cup {<<"reserve", i>>}
    BY <2>1 DEF Ask
  <2>4. /\ asked' \in [Ids -> {"nothing", "reserve", "dispatch", "yes", "no", "lost"}]
        /\ asked'[i] = "reserve" /\ \A k \in Ids \ {i} : asked'[k] = asked[k]
    BY <1>2, <2>3 DEF TypeOK
  <2>5. net' \subseteq {"reserve", "dispatch", "settle"} \X Ids
    BY <1>2, <2>3 DEF TypeOK
  <2>6. \A k \in Ids \ {i} : NoNewCall(k)
    BY <2>3 DEF NoNewCall
  <2>7. job' = job /\ leg'[i] = l /\ \A k \in Ids \ {i} : leg'[k] = leg[k]
    BY <1>2, <2>1, <2>2, SaveLegWrites DEF TypeOK
  <2>8. LegOK(i) /\ ReceiptOK(i) /\ JobOK(j)
    BY <1>2 DEF JobsInv
  <2>9. job[j].phase = "admitting" /\ ~job[j].frozen /\ ~job[j].egress
    BY <1>4, <2>8 DEF Admitting, JobOK
  <2>10. LegOK(i)'
    BY <1>1, <2>2, <2>7, <2>8, <2>9 DEF LegOK, Dispatching
  <2>11. ReceiptOK(i)'
    <3>1. receipt[i] = "nothing" /\ leg[i].settlement = "pending" /\ <<"settle", i>> \notin net
      BY <2>8, <2>9 DEF ReceiptOK
    <3>2. <<"settle", i>> \notin net'
      BY <2>3, <3>1
    <3> QED
      BY <1>1, <2>2, <2>7, <2>9, <3>1, <3>2 DEF ReceiptOK
  <2>12. ASSUME NEW k \in LegsOf(j)
         PROVE  AskedOK(k)'
    <3>1. k \in Ids /\ k[1] = j
      BY DEF LegsOf
    <3>2. \A m \in LegsOf(k[1]) : m # i => asked'[m] = "nothing"
      BY <1>3, <2>4, <3>1 DEF LegsOf
    <3>3. CASE k = i
      BY <1>1, <2>1, <2>2, <2>4, <2>7, <3>2, <3>3 DEF AskedOK
    <3>4. CASE k # i
      <4>1. asked'[k] = "nothing" /\ asked[k] = "nothing" /\ leg'[k] = leg[k] /\ AskedOK(k)
        BY <1>3, <2>4, <2>7, <3>1, <3>4 DEF JobsInv
      <4> QED
        BY <1>1, <2>1, <3>1, <4>1 DEF AskedOK
    <3> QED
      BY <3>3, <3>4
  <2> QED
    BY <1>1, <2>1, <2>2, <2>4, <2>5, <2>6, <2>10, <2>11, <2>12, SaveLegStep
<1>5. CASE ~Admitting(j)
  <2>1. Runs(j, "none") /\ Unchanged /\ UNCHANGED <<asked, net>>
    BY <1>5 DEF BeginReserve
  <2> QED
    BY <1>1, <1>2, <1>3, <2>1, CallGivenUp DEF TypeOK
<1> QED
  BY <1>4, <1>5

(* The reply to a reservation, or to the dispatch of one, is stored.       *)
LEMMA LegAnswered ==
    ASSUME JobsInv, NEW i \in Ids, asked[i] = "yes", Forget(i), Admitting(i[1]),
           NEW l \in Leg, SaveLeg(i, l), l.settlement = leg[i].settlement,
           UNCHANGED <<row, now, run, process, receipt, worker, sent, net, faults>>,
           \/ run[i[1]] = "reserve" /\ l.reserve = "accepted" /\ l.dispatched = leg[i].dispatched
           \/ /\ run[i[1]] = "dispatch" /\ leg[i].reserve = "accepted"
              /\ l.reserve = leg[i].reserve /\ l.dispatched
    PROVE  JobsInv'
<1> DEFINE j == i[1]
<1>1. j \in Jobs /\ TypeOK
  BY IdParts DEF JobsInv
<1>2. /\ asked' \in [Ids -> {"nothing", "reserve", "dispatch", "yes", "no", "lost"}]
      /\ \A k \in Ids : asked'[k] = IF k[1] = i[1] THEN "nothing" ELSE asked[k]
  BY OneAwaited
<1>3. \A k \in Ids \ {i} : NoNewCall(k) /\ asked'[k] = asked[k]
  BY <1>1 DEF NoNewCall, Forget, TypeOK
<1>4. job' = job /\ leg'[i] = l /\ \A k \in Ids \ {i} : leg'[k] = leg[k]
  BY <1>1, SaveLegWrites DEF TypeOK
<1>5. LegOK(i) /\ AskedOK(i) /\ ReceiptOK(i) /\ JobOK(j)
  BY <1>1 DEF JobsInv
<1>6. job[j].phase = "admitting" /\ ~job[j].frozen /\ ~job[j].egress
  BY <1>5 DEF Admitting, JobOK
<1>7. Unreserved(i) /\ (l.reserve = "accepted" => row[i] # NoRow \/ Gone(i))
  BY <1>5 DEF AskedOK, LegOK
<1>8. l.dispatched => l.reserve = "accepted" /\ Dispatching(i)
  BY <1>5 DEF AskedOK, LegOK
<1>9. l.reserve = "accepted"
  OBVIOUS
<1>10. LegOK(i)'
  BY <1>4, <1>6, <1>7, <1>8, <1>9 DEF LegOK, Gone, Dispatching, Unreserved, ReplayUntil
<1>11. ReceiptOK(i)'
  BY <1>4, <1>5, <1>6 DEF ReceiptOK, Unreserved, SettledAs
<1>12. ASSUME NEW k \in LegsOf(j)
       PROVE  AskedOK(k)'
  <2>1. k \in Ids /\ k[1] = j /\ asked'[k] = "nothing" /\ AskedOK(k)
    BY <1>2 DEF LegsOf, JobsInv
  <2>2. CASE run[j] = "reserve"
    <3>1. leg'[k].reserve \in {"never", "accepted"}
      <4>1. CASE k = i
        BY <1>4, <1>9, <4>1
      <4>2. CASE k # i
        <5>1. asked[k] = "nothing"
          BY <1>3, <2>1, <4>2
        <5> QED
          BY <1>4, <2>1, <2>2, <4>2, <5>1 DEF AskedOK
      <4> QED
        BY <4>1, <4>2
    <3> QED
      BY <2>1, <3>1 DEF AskedOK
  <2>3. CASE run[j] # "reserve"
    BY <2>1, <2>3 DEF AskedOK
  <2> QED
    BY <2>2, <2>3
<1> QED
  BY <1>1, <1>2, <1>3, <1>10, <1>11, <1>12, SaveLegStep DEF TypeOK

(* A denial and the receipt of the job, stored in one transaction.         *)
LEMMA Denied ==
    ASSUME JobsInv, NEW i \in Ids, run[i[1]] = "reserve", asked[i] = "no", Forget(i),
           Admitting(i[1]), Runs(i[1], "none"),
           Mutate([job EXCEPT ![i[1]] = Receipt(@, Unbilled)],
                  [leg EXCEPT ![i].reserve = "denied"], binding, alarm),
           UNCHANGED <<row, now, process, receipt, worker, sent, net, faults>>
    PROVE  JobsInv'
<1> DEFINE j == i[1]
           s == Receipt(job[j], Unbilled)
           l == [leg[i] EXCEPT !.reserve = "denied"]
           rows == [job EXCEPT ![j] = s]
           legs == [leg EXCEPT ![i] = l]
<1>1. /\ j \in Jobs /\ TypeOK /\ job[j] \in Job /\ leg[i] \in Leg /\ now \in 0..MaxTime
      /\ Unbilled \in 0..MaxMicros /\ job \in [Jobs -> Job] /\ leg \in [Ids -> Leg]
      /\ binding \in [Jobs -> {"none", "open", "closed"}]
      /\ alarm \in 0..(MaxTime + Admission + Replay) \cup {Never}
  BY IdParts, MicrosType DEF JobsInv, TypeOK, Unbilled
<1>2. /\ LegOK(i) /\ AskedOK(i) /\ ReceiptOK(i) /\ JobOK(j) /\ EgressOK(j)
  BY <1>1 DEF JobsInv
<1>3. job[j].phase = "admitting" /\ ~job[j].frozen /\ ~job[j].egress
  BY <1>2 DEF Admitting, JobOK
<1>4. s \in Job /\ s.phase = "outbox" /\ s.frozen /\ s.amount = Unbilled
      /\ s.born = job[j].born /\ s.egress = job[j].egress
  BY <1>1, <1>3, ReceiptShape DEF Live
<1>5. l \in Leg /\ l.reserve = "denied" /\ l.dispatched = leg[i].dispatched
  BY <1>1 DEF Leg
<1>6. LegAtFreeze(l) = [l EXCEPT !.settlement = "settled"]
  BY <1>5 DEF LegAtFreeze
<1>7. /\ LegAtFreeze(l).reserve = "denied" /\ LegAtFreeze(l).dispatched = leg[i].dispatched
      /\ LegAtFreeze(l).settlement = "settled"
  BY <1>5, <1>6 DEF Leg
<1>8. rows \in [Jobs -> Job] /\ rows[j] = s /\ \A k \in Jobs \ {j} : rows[k] = job[k]
  BY <1>1, <1>4
<1>9. legs \in [Ids -> Leg] /\ legs[i] = l /\ \A k \in Ids \ {i} : legs[k] = leg[k]
  BY <1>1, <1>5
<1>10. Mutate(rows, legs, binding, alarm)
  <2>1. rows = [job EXCEPT ![i[1]] = Receipt(@, Unbilled)]
    BY <1>1
  <2>2. legs = [leg EXCEPT ![i].reserve = "denied"]
    BY <1>1
  <2> QED
    BY <2>1, <2>2
<1> HIDE DEF s, l, rows, legs
<1>11. /\ job' = rows
       /\ leg' \in [Ids -> Leg]
       /\ binding' \in [Jobs -> {"none", "open", "closed"}]
       /\ alarm' \in 0..(MaxTime + Admission + Replay) \cup {Never}
       /\ \A k \in Ids : IF rows[k[1]].frozen /\ ~job[k[1]].frozen
                         THEN leg'[k] = LegAtFreeze(legs[k]) ELSE leg'[k] = legs[k]
       /\ \A k \in Jobs : \/ binding'[k] = binding[k]
                          \/ binding[k] = "open" /\ binding'[k] = "closed"
       /\ \A k \in Jobs : rows[k].frozen /\ ~job[k].frozen => binding'[k] # "open"
  BY <1>1, <1>8, <1>9, <1>10, MutateShape
<1>12. leg'[i] = LegAtFreeze(l) /\ job'[j] = s /\ binding'[j] # "open"
  BY <1>1, <1>3, <1>4, <1>8, <1>9, <1>11
<1>13. \A k \in Ids \ {i} : LegMove(k)
  BY <1>8, <1>9, <1>11 DEF LegMove
<1>14. /\ asked' \in [Ids -> {"nothing", "reserve", "dispatch", "yes", "no", "lost"}]
       /\ \A k \in Ids : asked'[k] = IF k[1] = i[1] THEN "nothing" ELSE asked[k]
  BY <1>2, OneAwaited
<1>15. run'[j] = "none" /\ \A k \in Jobs \ {j} : run'[k] = run[k]
  BY <1>1 DEF Runs, TypeOK
<1>16. TypeOK'
  BY <1>1, <1>8, <1>11, <1>14 DEF TypeOK, Runs
<1>17. JobMove(job[j], job'[j])
  BY <1>3, <1>4, <1>12 DEF JobMove, JobKeeps
<1>18. JobOK(j)' /\ EgressOK(j)'
  BY <1>1, <1>3, <1>12, <1>15, FrozenJob DEF s
<1>19. ASSUME NEW k \in Jobs \ {j}
       PROVE  JobOK(k)' /\ EgressOK(k)' /\ JobMove(job[k], job'[k])
  <2>1. job'[k] = job[k] /\ binding'[k] \in {binding[k], "closed"} /\ run'[k] = run[k]
    BY <1>8, <1>11, <1>15
  <2> QED
    BY <2>1, JobUntouched
<1>20. \A k \in Jobs : JobKeeps(job[k], job'[k]) /\ JobMove(job[k], job'[k])
  BY <1>17, <1>19 DEF JobMove
<1>21. ASSUME NEW k \in Ids \ {i}
       PROVE  /\ NoNewCall(k)
              /\ job'[k[1]].egress => leg[k].dispatched
              /\ job'[k[1]].phase = "complete" => leg'[k].settlement = "settled"
  <2>1. LegOK(k) /\ ReceiptOK(k) /\ JobMove(job[k[1]], job'[k[1]])
    BY <1>20, IdParts DEF JobsInv
  <2>2. leg'[k].settlement \in {leg[k].settlement, "settled"}
    BY <1>1, <1>13, LegMoveShape
  <2> QED
    BY <2>1, <2>2 DEF LegOK, ReceiptOK, JobMove, NoNewCall
<1>22. LegOK(i)'
  BY <1>2, <1>3, <1>4, <1>7, <1>12 DEF LegOK, AskedOK, Unreserved
<1>23. ReceiptOK(i)'
  <2>1. receipt[i] = "nothing"
    BY <1>2, <1>3 DEF ReceiptOK
  <2> QED
    BY <1>2, <1>4, <1>7, <1>12, <2>1 DEF ReceiptOK, AskedOK, Unreserved, SettledAs
<1>24. \A k \in LegsOf(j) : AskedOK(k)'
  BY <1>14, <1>15, AskedNothing DEF LegsOf
<1>25. \A k \in Ids : k[1] # j => asked'[k] = asked[k] /\ run'[k[1]] = run[k[1]]
  BY <1>14, <1>15, IdParts
<1> QED
  BY <1>13, <1>16, <1>18, <1>19, <1>20, <1>21, <1>22, <1>23, <1>24, <1>25, IdStep

LEMMA ReserveAnsweredStep ==
    ASSUME JobsInv, NEW i \in Ids, ReserveAnswered(i)
    PROVE  JobsInv'
<1> DEFINE j == i[1]
<1>1. /\ run[j] = "reserve" /\ asked[i] \in {"yes", "no", "lost"} /\ Forget(i)
      /\ UNCHANGED <<row, now, process, receipt, worker, sent, net, faults>>
  BY DEF ReserveAnswered
<1>2. j \in Jobs /\ TypeOK /\ leg[i] \in Leg
  BY IdParts DEF JobsInv, TypeOK
<1>3. CASE asked[i] = "yes" /\ Admitting(j)
  <2> DEFINE l == [leg[i] EXCEPT !.reserve = "accepted"]
  <2>1. SaveLeg(i, l) /\ run' = run
    BY <1>3 DEF ReserveAnswered
  <2>2. /\ l \in Leg /\ l.reserve = "accepted" /\ l.dispatched = leg[i].dispatched
        /\ l.settlement = leg[i].settlement
    BY <1>2 DEF Leg
  <2> HIDE DEF l
  <2> QED
    BY <1>1, <1>3, <2>1, <2>2, LegAnswered
<1>4. CASE asked[i] = "no" /\ Admitting(j)
  BY <1>1, <1>4, Denied DEF ReserveAnswered
<1>5. CASE ~(asked[i] = "yes" /\ Admitting(j)) /\ ~(asked[i] = "no" /\ Admitting(j))
  <2>1. Runs(j, "none") /\ (Freeze(j, Unbilled) \/ Unchanged)
    BY <1>5 DEF ReserveAnswered
  <2>2. /\ asked' \in [Ids -> {"nothing", "reserve", "dispatch", "yes", "no", "lost"}]
        /\ \A k \in Ids : asked'[k] = IF k[1] = i[1] THEN "nothing" ELSE asked[k]
    BY <1>1, OneAwaited
  <2> QED
    BY <1>1, <1>2, <2>1, <2>2, CallGivenUp
<1> QED
  BY <1>3, <1>4, <1>5

LEMMA DispatchAnsweredStep ==
    ASSUME JobsInv, NEW i \in Ids, DispatchAnswered(i)
    PROVE  JobsInv'
<1> DEFINE j == i[1]
<1>1. /\ run[j] = "dispatch" /\ asked[i] \in {"yes", "no", "lost"} /\ Forget(i)
      /\ UNCHANGED <<row, now, process, receipt, worker, sent, net, faults>>
  BY DEF DispatchAnswered
<1>2. j \in Jobs /\ TypeOK /\ leg[i] \in Leg
  BY IdParts DEF JobsInv, TypeOK
<1>3. CASE asked[i] = "yes" /\ Admitting(j) /\ leg[i].reserve = "accepted"
  <2> DEFINE l == [leg[i] EXCEPT !.dispatched = TRUE]
  <2>1. SaveLeg(i, l) /\ run' = run
    BY <1>3 DEF DispatchAnswered
  <2>2. /\ l \in Leg /\ l.reserve = leg[i].reserve /\ l.dispatched
        /\ l.settlement = leg[i].settlement
    BY <1>2 DEF Leg
  <2> HIDE DEF l
  <2> QED
    BY <1>1, <1>3, <2>1, <2>2, LegAnswered
<1>4. CASE ~(asked[i] = "yes" /\ Admitting(j) /\ leg[i].reserve = "accepted")
  <2>1. Runs(j, "none") /\ Freeze(j, Unbilled)
    BY <1>4 DEF DispatchAnswered
  <2>2. /\ asked' \in [Ids -> {"nothing", "reserve", "dispatch", "yes", "no", "lost"}]
        /\ \A k \in Ids : asked'[k] = IF k[1] = i[1] THEN "nothing" ELSE asked[k]
    BY <1>1, OneAwaited
  <2> QED
    BY <1>1, <1>2, <2>1, <2>2, CallGivenUp
<1> QED
  BY <1>3, <1>4

LEMMA BeginDispatchStep ==
    ASSUME JobsInv, NEW j \in Jobs, BeginDispatch(j)
    PROVE  JobsInv'
<1>1. /\ worker[j] = "admitted" /\ worker' = [worker EXCEPT ![j] = "dispatching"]
      /\ UNCHANGED <<row, now, asked, process, receipt, sent, net, faults>>
  BY DEF BeginDispatch, Works
<1>2. TypeOK /\ JobOK(j) /\ EgressOK(j) /\ job[j] \in Job
  BY DEF JobsInv, TypeOK
<1>3. worker'[j] = "dispatching" /\ \A k \in Jobs \ {j} : worker'[k] = worker[k]
  BY <1>1, <1>2 DEF TypeOK
<1>4. \A i \in Ids : i[1] = j => asked[i] = "nothing"
  BY <1>1, <1>2, NothingAsked DEF EgressOK
<1>5. CASE Admitting(j) /\ ~job[j].claimed
  <2> DEFINE s == [job[j] EXCEPT !.claimed = TRUE]
  <2>1. SaveJob(j, s) /\ run' = [run EXCEPT ![j] = "dispatch"]
    BY <1>5 DEF BeginDispatch, Runs
  <2>2. /\ s \in Job /\ s.born = job[j].born /\ s.phase = job[j].phase
        /\ s.egress = job[j].egress /\ s.frozen = job[j].frozen
        /\ s.amount = job[j].amount /\ s.known = job[j].known
    BY <1>2 DEF Job
  <2> HIDE DEF s
  <2>3. OwnerWrites(j) /\ job'[j] = s
    BY <2>1, <2>2, SameMove, SaveJobWrites
  <2>4. run'[j] = "dispatch" /\ \A k \in Jobs \ {j} : run'[k] = run[k]
    BY <1>2, <2>1 DEF TypeOK
  <2>5. CallTypes'
    BY <1>1, <1>2, <2>1 DEF TypeOK, CallTypes
  <2>6. job[j].phase = "admitting"
    BY <1>5 DEF Admitting
  <2>7. job'[j].frozen => binding'[j] # "open"
    BY <2>3 DEF OwnerWrites
  <2>8. JobOK(j)' /\ EgressOK(j)'
    BY <1>1, <1>2, <1>3, <2>2, <2>3, <2>4, <2>6, <2>7 DEF JobOK, EgressOK, ReplayUntil
  <2>9. \A i \in Ids : i[1] = j => AskedOK(i)'
    BY <1>1, <1>4, <2>4 DEF AskedOK
  <2> QED
    BY <1>1, <1>3, <2>3, <2>4, <2>5, <2>8, <2>9, WriteStep
<1>6. CASE ~(Admitting(j) /\ ~job[j].claimed)
  <2>1. Unchanged /\ run' = [run EXCEPT ![j] = "none"]
    BY <1>6 DEF BeginDispatch, Runs
  <2>2. OwnerWrites(j) /\ job'[j] = job[j] /\ binding' = binding
    BY <2>1, UnchangedWrites DEF Unchanged
  <2>3. run'[j] = "none" /\ \A k \in Jobs \ {j} : run'[k] = run[k]
    BY <1>2, <2>1 DEF TypeOK
  <2>4. CallTypes'
    BY <1>1, <1>2, <2>1 DEF TypeOK, CallTypes
  <2>5. JobOK(j)' /\ EgressOK(j)'
    BY <1>1, <1>2, <1>3, <2>2, <2>3 DEF JobOK, EgressOK, ReplayUntil
  <2> QED
    BY <1>1, <1>3, <1>4, <2>2, <2>3, <2>4, <2>5, CallEnds
<1> QED
  BY <1>5, <1>6

LEMMA AskDispatchStep ==
    ASSUME JobsInv, NEW i \in Ids, AskDispatch(i)
    PROVE  JobsInv'
<1> DEFINE j == i[1]
<1>1. /\ run[j] = "dispatch" /\ NoneAsked(j)
      /\ net' = net \cup {<<"dispatch", i>>} /\ asked' = [asked EXCEPT ![i] = "dispatch"]
      /\ UNCHANGED <<row, now, job, leg, binding, run, process, receipt, alarm, worker, sent, faults>>
  BY DEF AskDispatch, Ask
<1>2. j \in Jobs /\ TypeOK
  BY IdParts DEF JobsInv
<1>3. TypeOK'
  BY <1>1, <1>2 DEF TypeOK
<1>4. \A k \in Jobs : JobOK(k)' /\ EgressOK(k)' /\ JobMove(job[k], job'[k])
  BY <1>1, JobUntouched
<1>5. \A k \in Ids : LegMove(k) /\ NoNewCall(k) /\ receipt'[k] \in {receipt[k], "nothing"}
  BY <1>1 DEF LegMove, NoNewCall
<1>6. \A k \in Ids : k[1] = j => asked[k] = "nothing"
  BY <1>1, <1>2, NothingAsked
<1>7. asked'[i] = "dispatch" /\ \A k \in Ids \ {i} : asked'[k] = asked[k]
  BY <1>1, <1>2 DEF TypeOK
<1>8. ASSUME NEW k \in Ids
      PROVE  AskedOK(k)'
  <2>1. CASE k[1] = j
    <3>1. \A m \in LegsOf(k[1]) : m # i => asked'[m] = "nothing"
      BY <1>6, <1>7, <2>1 DEF LegsOf
    <3> QED
      BY <1>1, <1>6, <1>7, <2>1, <3>1 DEF AskedOK
  <2>2. CASE k[1] # j
    <3>1. \A m \in LegsOf(k[1]) : asked'[m] = asked[m]
      BY <1>7, <2>2 DEF LegsOf
    <3>2. JobKeeps(job[k[1]], job'[k[1]])
      BY <1>4, IdParts DEF JobMove
    <3> QED
      BY <1>1, <1>5, <3>1, <3>2, MoveKeepsAsked
  <2> QED
    BY <2>1, <2>2
<1> QED
  BY <1>1, <1>3, <1>4, <1>5, <1>8, MoveStep

LEMMA BeginEgressStep ==
    ASSUME JobsInv, NEW j \in Jobs, BeginEgress(j)
    PROVE  JobsInv'
<1>1. /\ run[j] = "dispatch" /\ NoneAsked(j) /\ \A i \in LegsOf(j) : leg[i].dispatched
      /\ UNCHANGED <<row, now, asked, process, receipt, worker, sent, net, faults>>
  BY DEF BeginEgress
<1>2. TypeOK /\ JobOK(j) /\ EgressOK(j) /\ job[j] \in Job /\ now \in 0..MaxTime
  BY DEF JobsInv, TypeOK
<1>3. \A i \in Ids : i[1] = j => asked[i] = "nothing"
  BY <1>1, NothingAsked
<1>4. CASE Admitting(j) /\ \A i \in LegsOf(j) : leg[i].reserve = "accepted"
  <2> DEFINE s == [job[j] EXCEPT !.egress = TRUE, !.phase = "observing", !.next = Soon(job[j])]
             rows == [job EXCEPT ![j] = s]
  <2>1. SaveJob(j, s) /\ run' = [run EXCEPT ![j] = "dispatched"]
    BY <1>4 DEF BeginEgress, Runs
  <2>2. Soon(job[j]) \in 0..MaxTime + Admission + Replay
    BY <1>2, DeadlineTypes
  <2>3. /\ s \in Job /\ s.born = job[j].born /\ s.phase = "observing"
        /\ s.egress /\ s.frozen = job[j].frozen
        /\ s.amount = job[j].amount /\ s.known = job[j].known
    BY <1>2, <2>2 DEF Job, Live
  <2>4. Mutate(rows, leg, binding, alarm)
    BY <2>1 DEF SaveJob
  <2> HIDE DEF s
  <2>5. /\ rows \in [Jobs -> Job] /\ rows[j] = s /\ \A k \in Jobs \ {j} : rows[k] = job[k]
        /\ alarm \in 0..(MaxTime + Admission + Replay) \cup {Never}
    BY <1>2, <2>3 DEF TypeOK
  <2> HIDE DEF rows
  <2>6. /\ job' = rows /\ leg' \in [Ids -> Leg]
        /\ binding' \in [Jobs -> {"none", "open", "closed"}]
        /\ alarm' \in 0..(MaxTime + Admission + Replay) \cup {Never}
        /\ \A k \in Jobs : binding'[k] \in {binding[k], "closed"}
        /\ \A i \in Ids : LegMove(i)
        /\ \A k \in Jobs : rows[k].frozen => binding'[k] # "open"
    BY <2>4, <2>5, MutateMoves
  <2>7. run'[j] = "dispatched" /\ \A k \in Jobs \ {j} : run'[k] = run[k]
    BY <1>2, <2>1 DEF TypeOK
  <2>8. TypeOK'
    BY <1>1, <1>2, <2>1, <2>5, <2>6 DEF TypeOK
  <2>9. job[j].phase = "admitting" /\ ~job[j].frozen
    BY <1>2, <1>4 DEF Admitting, JobOK
  <2>10. JobKeeps(job[j], job'[j])
    BY <2>3, <2>5, <2>6, <2>9 DEF JobKeeps
  <2>11. JobOK(j)' /\ EgressOK(j)'
    <3>1. job'[j] = s
      BY <2>5, <2>6
    <3>2. ~s.frozen
      BY <2>3, <2>9
    <3> QED
      BY <1>1, <1>2, <2>3, <2>7, <2>9, <3>1, <3>2 DEF JobOK, EgressOK, ReplayUntil
  <2>12. ASSUME NEW k \in Jobs \ {j}
         PROVE  JobOK(k)' /\ EgressOK(k)' /\ JobMove(job[k], job'[k])
    <3>1. job'[k] = job[k] /\ binding'[k] \in {binding[k], "closed"} /\ run'[k] = run[k]
      BY <2>5, <2>6, <2>7
    <3> QED
      BY <1>1, <3>1, JobUntouched
  <2>13. \A k \in Jobs : JobKeeps(job[k], job'[k])
    BY <2>10, <2>12 DEF JobMove
  <2>14. \A i \in Ids : NoNewCall(i) /\ receipt'[i] \in {receipt[i], "nothing"}
    BY <1>1 DEF NoNewCall
  <2>15. ASSUME NEW i \in Ids
         PROVE  /\ job'[i[1]].egress => leg[i].dispatched
                /\ job'[i[1]].phase = "complete" => leg'[i].settlement = "settled"
                /\ AskedOK(i)'
    <3>1. CASE i[1] = j
      <4>1. job'[i[1]] = s
        BY <2>5, <2>6, <3>1
      <4> QED
        BY <1>1, <1>3, <2>3, <2>7, <3>1, <4>1, AskedNothing DEF LegsOf
    <3>2. CASE i[1] # j
      <4>1. i[1] \in Jobs \ {j} /\ job'[i[1]] = job[i[1]] /\ LegOK(i) /\ ReceiptOK(i)
        BY <2>5, <2>6, <3>2, IdParts DEF JobsInv
      <4>2. leg'[i].settlement \in {leg[i].settlement, "settled"}
        BY <1>2, <2>6, LegMoveShape
      <4>3. AskedOK(i)'
        BY <1>1, <2>6, <2>7, <2>13, <2>14, <4>1, MoveKeepsAsked
      <4> QED
        BY <4>1, <4>2, <4>3 DEF LegOK, ReceiptOK
    <3> QED
      BY <3>1, <3>2
  <2> QED
    BY <1>1, <2>6, <2>8, <2>11, <2>12, <2>13, <2>14, <2>15, KeepStep
<1>5. CASE ~(Admitting(j) /\ \A i \in LegsOf(j) : leg[i].reserve = "accepted")
  <2>1. Freeze(j, Unbilled) /\ Runs(j, "none")
    BY <1>5 DEF BeginEgress
  <2> QED
    BY <1>1, <1>2, <1>3, <2>1, CallGivenUp DEF TypeOK
<1> QED
  BY <1>4, <1>5

-----------------------------------------------------------------------------
(* The owner recovers its jobs.                                            *)
LEMMA ClaimShape ==
    ASSUME NEW r \in Job, r.phase \in Live, now \in 0..MaxTime
    PROVE  LET s == Claim(r) IN
           /\ s \in Job /\ s.born = r.born /\ s.egress = r.egress
           /\ \/ /\ s.frozen = r.frozen /\ s.amount = r.amount /\ s.known = r.known
                 /\ s.phase \in {r.phase, "expired"}
              \/ /\ ~r.frozen /\ s.frozen /\ s.phase = "outbox" /\ ~s.known
                 /\ s.amount = IF r.egress THEN Billed ELSE Unbilled
<1> DEFINE a == IF r.egress THEN Billed ELSE Unbilled
           lost == r.phase = "admitting" \/ (~r.frozen /\ now >= ObserveUntil(r))
           x == IF lost THEN Receipt(r, a) ELSE r
           s == Claim(r)
<1> SUFFICES /\ s \in Job /\ s.born = r.born /\ s.egress = r.egress
             /\ \/ /\ s.frozen = r.frozen /\ s.amount = r.amount /\ s.known = r.known
                   /\ s.phase \in {r.phase, "expired"}
                \/ /\ ~r.frozen /\ s.frozen /\ s.phase = "outbox" /\ ~s.known
                   /\ s.amount = a
  OBVIOUS
<1>1. CASE now >= ReplayUntil(r)
  <2>1. s = [r EXCEPT !.phase = "expired"]
    BY <1>1 DEF Claim
  <2> QED
    BY <2>1 DEF Job, Tombstones
<1>2. CASE ~(now >= ReplayUntil(r))
  <2>1. a \in 0..MaxMicros
    BY MicrosType, JobsType DEF Billed, Unbilled
  <2>2. Soon(r) \in 0..MaxTime + Admission + Replay
    BY DeadlineTypes
  <2>3. s = [x EXCEPT !.next = Soon(r)]
    BY <1>2 DEF Claim
  <2> HIDE DEF a, s
  <2>4. /\ x \in Job /\ x.born = r.born /\ x.egress = r.egress
        /\ \/ /\ x.frozen = r.frozen /\ x.amount = r.amount /\ x.known = r.known
              /\ x.phase = r.phase
           \/ /\ ~r.frozen /\ x.frozen /\ x.phase = "outbox" /\ ~x.known
              /\ x.amount = a
    BY <2>1, ReceiptShape
  <2> HIDE DEF x
  <2>5. /\ s \in Job /\ s.born = x.born /\ s.egress = x.egress /\ s.frozen = x.frozen
        /\ s.amount = x.amount /\ s.known = x.known /\ s.phase = x.phase
    BY <2>2, <2>3, <2>4 DEF Job
  <2> QED
    BY <2>4, <2>5
<1> QED
  BY <1>1, <1>2

LEMMA ClaimsStep ==
    ASSUME JobsInv, NEW due \in SUBSET Jobs, NEW manual \in BOOLEAN,
           \A j \in due : IsLive(j), Claims(due, manual),
           UNCHANGED <<row, now, run, asked, receipt, worker, sent, net, faults>>
    PROVE  JobsInv'
<1> DEFINE rows == [j \in Jobs |-> IF j \in due THEN Claim(job[j]) ELSE job[j]]
           current == IF manual THEN alarm ELSE Never
<1>1. TypeOK /\ now \in 0..MaxTime /\ job \in [Jobs -> Job]
  BY DEF JobsInv, TypeOK
<1>2. \A j \in due : LET s == Claim(job[j]) IN
         /\ s \in Job /\ s.born = job[j].born /\ s.egress = job[j].egress
         /\ \/ /\ s.frozen = job[j].frozen /\ s.amount = job[j].amount /\ s.known = job[j].known
               /\ s.phase \in {job[j].phase, "expired"}
            \/ /\ ~job[j].frozen /\ s.frozen /\ s.phase = "outbox" /\ ~s.known
               /\ s.amount = IF job[j].egress THEN Billed ELSE Unbilled
  BY <1>1, ClaimShape DEF IsLive
<1>3. rows \in [Jobs -> Job] /\ \A j \in Jobs \ due : rows[j] = job[j]
  BY <1>1, <1>2
<1>4. \A j \in due :
         /\ rows[j].born = job[j].born /\ rows[j].egress = job[j].egress
         /\ \/ /\ rows[j].frozen = job[j].frozen /\ rows[j].amount = job[j].amount
               /\ rows[j].known = job[j].known /\ rows[j].phase \in {job[j].phase, "expired"}
            \/ /\ ~job[j].frozen /\ rows[j].frozen /\ rows[j].phase = "outbox" /\ ~rows[j].known
               /\ rows[j].amount = IF job[j].egress THEN Billed ELSE Unbilled
  BY <1>2
<1>5. current \in 0..(MaxTime + Admission + Replay) \cup {Never}
  BY <1>1 DEF TypeOK
<1>6. Mutate(rows, leg, binding, current)
  BY DEF Claims
<1>7. process' \in [Jobs -> {"none", "collect", "replay", "settling", "closing"}]
  BY <1>1 DEF Claims, TypeOK
<1> HIDE DEF rows, current
<1>8. /\ job' = rows /\ leg' \in [Ids -> Leg]
      /\ binding' \in [Jobs -> {"none", "open", "closed"}]
      /\ alarm' \in 0..(MaxTime + Admission + Replay) \cup {Never}
      /\ \A k \in Jobs : binding'[k] \in {binding[k], "closed"}
      /\ \A i \in Ids : LegMove(i)
      /\ \A k \in Jobs : rows[k].frozen => binding'[k] # "open"
  BY <1>3, <1>5, <1>6, MutateMoves
<1>9. TypeOK'
  BY <1>1, <1>3, <1>7, <1>8 DEF TypeOK
<1>10. ASSUME NEW j \in Jobs
       PROVE  JobOK(j)' /\ EgressOK(j)' /\ JobMove(job[j], job'[j])
  <2>1. CASE j \notin due
    <3>1. job'[j] = job[j] /\ binding'[j] \in {binding[j], "closed"}
      BY <1>3, <1>8, <2>1
    <3> QED
      BY <3>1, JobUntouched
  <2>2. CASE j \in due
    <3>1. JobOK(j) /\ EgressOK(j) /\ job[j].phase \in Live
      BY <2>2 DEF JobsInv, IsLive
    <3>2. job'[j] = rows[j] /\ (rows[j].frozen => binding'[j] # "open")
      BY <1>8
    <3>3. rows[j].phase # "none" /\ rows[j].phase # "complete" /\ rows[j].phase # "evicted"
      BY <1>4, <2>2, <3>1 DEF Live
    <3>4. JobMove(job[j], job'[j])
      BY <1>4, <2>2, <3>1, <3>2, <3>3 DEF JobMove, JobKeeps, Live
    <3>5. EgressOK(j)'
      BY <1>4, <2>2, <3>1, <3>2 DEF EgressOK
    <3>6. JobOK(j)'
      BY <1>4, <2>2, <3>1, <3>2, <3>3 DEF JobOK, Live
    <3> QED
      BY <3>4, <3>5, <3>6
  <2> QED
    BY <2>1, <2>2
<1>11. \A i \in Ids : LegMove(i) /\ NoNewCall(i) /\ receipt'[i] \in {receipt[i], "nothing"}
  BY <1>8 DEF NoNewCall
<1>12. \A i \in Ids : AskedOK(i)'
  BY <1>10, <1>11, IdParts, MoveKeepsAsked DEF JobMove
<1> QED
  BY <1>9, <1>10, <1>11, <1>12, MoveStep

LEMMA AlarmStep ==
    ASSUME JobsInv, Alarm
    PROVE  JobsInv'
  BY ClaimsStep DEF Alarm

LEMMA ManualReplayStep ==
    ASSUME JobsInv, NEW j \in Jobs, ManualReplay(j)
    PROVE  JobsInv'
  BY ClaimsStep DEF ManualReplay

(* Only a frozen job is settled.                                           *)
LEMMA SettleStep ==
    ASSUME JobsInv, NEW j \in Jobs, Settle(j)
    PROVE  JobsInv'
<1> DEFINE open == {i \in LegsOf(j) : leg[i].settlement # "settled"}
           until == IF process[j] = "replay" THEN ReplayUntil(job[j]) ELSE AutoRetryUntil(job[j])
           call == IF now < until THEN open ELSE {}
<1>1. /\ job[j].frozen
      /\ UNCHANGED <<row, now, job, leg, binding, run, asked, alarm, worker, sent, faults>>
  BY DEF Settle
<1>2. TypeOK
  BY DEF JobsInv
<1>3. call \subseteq LegsOf(j) /\ open \subseteq LegsOf(j)
  OBVIOUS
<1>4. /\ process' \in [Jobs -> {"none", "collect", "replay", "settling", "closing"}]
      /\ \/ /\ net' = net \cup {<<"settle", i>> : i \in call}
            /\ receipt' = [i \in Ids |-> IF i \in call THEN "settle"
                                         ELSE IF i \in open THEN "unavailable" ELSE receipt[i]]
         \/ UNCHANGED <<net, receipt>>
  BY <1>2 DEF Settle, TypeOK
<1> HIDE DEF open, call
<1>5. /\ \A i \in Ids : i[1] # j => receipt'[i] = receipt[i]
      /\ \A i \in Ids : receipt'[i] \in {receipt[i], "settle", "unavailable"}
      /\ receipt' \in [Ids -> {"nothing", "settle"} \cup Dispositions]
  BY <1>2, <1>3, <1>4 DEF TypeOK, LegsOf, Dispositions
<1>6. /\ net' \subseteq {"reserve", "dispatch", "settle"} \X Ids
      /\ \A i \in Ids : <<"reserve", i>> \in net' <=> <<"reserve", i>> \in net
      /\ \A i \in Ids : i[1] # j => (<<"settle", i>> \in net' => <<"settle", i>> \in net)
  BY <1>2, <1>3, <1>4 DEF TypeOK, LegsOf
<1>7. TypeOK'
  BY <1>1, <1>2, <1>4, <1>5, <1>6 DEF TypeOK
<1>8. \A k \in Jobs : JobOK(k)' /\ EgressOK(k)'
  BY <1>1, JobUntouched
<1>9. ASSUME NEW i \in Ids
      PROVE  LegOK(i)' /\ AskedOK(i)' /\ RowOK(i, row[i])' /\ ReceiptOK(i)'
  <2>1. LegOK(i) /\ AskedOK(i) /\ RowOK(i, row[i]) /\ ReceiptOK(i)
    BY DEF JobsInv
  <2>2. Unreserved(i)' <=> Unreserved(i)
    BY <1>6 DEF Unreserved
  <2>3. LegOK(i)'
    BY <1>1, <2>1, <2>2 DEF LegOK, Gone, Dispatching, ReplayUntil
  <2>4. AskedOK(i)'
    BY <1>1, <2>1, <2>2 DEF AskedOK, Gone, Dispatching, ReplayUntil, LegsOf
  <2>5. RowOK(i, row[i])'
    BY <1>1, <2>1 DEF RowOK
  <2>6. ReceiptOK(i)'
    <3>1. <<"settle", i>> \in net' \/ receipt'[i] # "nothing" => job[i[1]].frozen
      BY <1>1, <1>5, <1>6, <2>1 DEF ReceiptOK
    <3> QED
      BY <1>1, <1>5, <2>1, <2>2, <3>1 DEF ReceiptOK, SettledAs
  <2> QED
    BY <2>3, <2>4, <2>5, <2>6
<1>10. \A k, m \in Jobs : KeyOK(k, m)'
  BY <1>1 DEF JobsInv, KeyOK, ReplayUntil
<1> QED
  BY <1>7, <1>8, <1>9, <1>10 DEF JobsInv

LEMMA AcknowledgedShape ==
    ASSUME NEW j \in Jobs, NEW r \in Job, NEW legs
    PROVE  LET s == Acknowledged(j, r, legs) IN
           /\ s \in Job /\ s.born = r.born /\ s.egress = r.egress /\ s.frozen = r.frozen
           /\ s.amount = r.amount /\ s.known = r.known /\ s.phase \in {r.phase, "complete"}
           /\ s.phase # r.phase => \A i \in LegsOf(j) : legs[i].settlement = "settled"
<1>1. CASE r.usage = "stored" /\ \A i \in LegsOf(j) : legs[i].settlement = "settled"
  <2>1. Acknowledged(j, r, legs) = [r EXCEPT !.phase = "complete"]
    BY <1>1 DEF Acknowledged
  <2> QED
    BY <1>1, <2>1 DEF Job, Tombstones
<1>2. CASE ~(r.usage = "stored" /\ \A i \in LegsOf(j) : legs[i].settlement = "settled")
  BY <1>2 DEF Acknowledged
<1> QED
  BY <1>1, <1>2

(* A job that is acknowledged: its phase may become complete.              *)
LEMMA AcknowledgedJob ==
    ASSUME JobsInv, NEW j \in Jobs, IsLive(j), job[j].frozen, now' = now,
           job'[j].born = job[j].born, job'[j].egress = job[j].egress,
           job'[j].frozen = job[j].frozen, job'[j].amount = job[j].amount,
           job'[j].known = job[j].known, job'[j].phase \in {job[j].phase, "complete"},
           worker'[j] = worker[j], run'[j] = run[j], sent'[j] = sent[j],
           binding'[j] \in {binding[j], "closed"}
    PROVE  JobOK(j)' /\ EgressOK(j)' /\ JobKeeps(job[j], job'[j])
<1>1. JobOK(j) /\ EgressOK(j) /\ job[j].phase # "none" /\ job[j].phase # "admitting"
  BY DEF JobsInv, JobOK, IsLive, Live
<1>2. job'[j].phase # "none" /\ (job'[j].phase = "evicted" => job[j].phase = "evicted")
  BY <1>1
<1> QED
  BY <1>1, <1>2 DEF JobOK, EgressOK, JobKeeps, ReplayUntil

LEMMA AcknowledgeUsageStep ==
    ASSUME JobsInv, NEW j \in Jobs, NEW disposition \in {"stored", "unavailable"},
           AcknowledgeUsage(j, disposition), faults' \in 0..MaxFaults
    PROVE  JobsInv'
<1>1. /\ process' = [process EXCEPT ![j] = "closing"]
      /\ UNCHANGED <<row, now, run, asked, receipt, worker, sent, net>>
  BY DEF AcknowledgeUsage
<1>2. TypeOK /\ JobOK(j) /\ EgressOK(j) /\ job[j] \in Job
  BY DEF JobsInv, TypeOK
<1>3. process' \in [Jobs -> {"none", "collect", "replay", "settling", "closing"}]
  BY <1>1, <1>2 DEF TypeOK
<1>4. CASE MayAcknowledge(j) /\ job[j].usage # "stored"
  <2> DEFINE r == [job[j] EXCEPT !.usage = disposition]
             s == Acknowledged(j, r, leg)
             rows == [job EXCEPT ![j] = s]
  <2>1. /\ r \in Job /\ r.born = job[j].born /\ r.egress = job[j].egress
        /\ r.frozen = job[j].frozen /\ r.amount = job[j].amount /\ r.known = job[j].known
        /\ r.phase = job[j].phase
    BY <1>2 DEF Job
  <2>2. Mutate(rows, leg, binding, alarm)
    BY <1>4 DEF AcknowledgeUsage, SaveJob
  <2> HIDE DEF r
  <2>3. /\ s \in Job /\ s.born = job[j].born /\ s.egress = job[j].egress
        /\ s.frozen = job[j].frozen /\ s.amount = job[j].amount /\ s.known = job[j].known
        /\ s.phase \in {job[j].phase, "complete"}
        /\ s.phase # job[j].phase => \A i \in LegsOf(j) : leg[i].settlement = "settled"
    BY <2>1, AcknowledgedShape
  <2> HIDE DEF s
  <2>4. /\ rows \in [Jobs -> Job] /\ rows[j] = s /\ \A k \in Jobs \ {j} : rows[k] = job[k]
        /\ alarm \in 0..(MaxTime + Admission + Replay) \cup {Never}
    BY <1>2, <2>3 DEF TypeOK
  <2> HIDE DEF rows
  <2>5. /\ job' = rows /\ leg' \in [Ids -> Leg]
        /\ binding' \in [Jobs -> {"none", "open", "closed"}]
        /\ alarm' \in 0..(MaxTime + Admission + Replay) \cup {Never}
        /\ \A k \in Jobs : binding'[k] \in {binding[k], "closed"}
        /\ \A i \in Ids : LegMove(i)
        /\ \A k \in Jobs : rows[k].frozen => binding'[k] # "open"
    BY <2>2, <2>4, MutateMoves
  <2>6. TypeOK'
    BY <1>1, <1>2, <1>3, <2>4, <2>5 DEF TypeOK
  <2>7. IsLive(j) /\ job[j].frozen /\ job'[j] = s
    BY <1>4, <2>4, <2>5 DEF MayAcknowledge
  <2>8. JobOK(j)' /\ EgressOK(j)' /\ JobKeeps(job[j], job'[j])
    BY <1>1, <2>3, <2>5, <2>7, AcknowledgedJob
  <2>9. ASSUME NEW k \in Jobs \ {j}
        PROVE  JobOK(k)' /\ EgressOK(k)' /\ JobKeeps(job[k], job'[k])
    <3>1. job'[k] = job[k] /\ binding'[k] \in {binding[k], "closed"}
      BY <2>4, <2>5
    <3> QED
      BY <1>1, <3>1, JobUntouched DEF JobMove
  <2>10. \A i \in Ids : NoNewCall(i) /\ receipt'[i] \in {receipt[i], "nothing"}
    BY <1>1 DEF NoNewCall
  <2>11. \A i \in Ids : AskedOK(i)'
    BY <1>1, <2>5, <2>8, <2>9, <2>10, IdParts, MoveKeepsAsked
  <2>12. ASSUME NEW i \in Ids
         PROVE  /\ job'[i[1]].egress => leg[i].dispatched
                /\ job'[i[1]].phase = "complete" => leg'[i].settlement = "settled"
    <3>1. LegOK(i) /\ ReceiptOK(i) /\ leg'[i].settlement \in {leg[i].settlement, "settled"}
      BY <1>2, <2>5, LegMoveShape DEF JobsInv
    <3>2. CASE i[1] = j
      BY <2>3, <2>7, <3>1, <3>2 DEF LegOK, ReceiptOK, LegsOf
    <3>3. CASE i[1] # j
      <4>1. job'[i[1]] = job[i[1]]
        BY <2>4, <2>5, <3>3, IdParts
      <4> QED
        BY <3>1, <4>1 DEF LegOK, ReceiptOK
    <3> QED
      BY <3>2, <3>3
  <2> QED
    BY <1>1, <2>5, <2>6, <2>8, <2>9, <2>10, <2>11, <2>12, KeepStep
<1>5. CASE ~(MayAcknowledge(j) /\ job[j].usage # "stored")
  <2>1. Unchanged
    BY <1>5 DEF AcknowledgeUsage
  <2>2. OwnerWrites(j) /\ job'[j] = job[j] /\ binding' = binding
    BY <2>1, UnchangedWrites DEF Unchanged
  <2>3. JobOK(j)' /\ EgressOK(j)'
    BY <1>1, <2>2, JobUntouched
  <2> QED
    BY <1>1, <1>3, <2>2, <2>3, RecoveryStep
<1> QED
  BY <1>4, <1>5

LEMMA AcknowledgeLegStep ==
    ASSUME JobsInv, NEW i \in Ids, AcknowledgeLeg(i)
    PROVE  JobsInv'
<1> DEFINE j == i[1]
           legs == [leg EXCEPT ![i].settlement = receipt[i]]
<1>1. /\ receipt[i] \in Dispositions /\ receipt' = [receipt EXCEPT ![i] = "nothing"]
      /\ UNCHANGED <<row, now, run, asked, process, worker, sent, net, faults>>
  BY DEF AcknowledgeLeg
<1>2. j \in Jobs /\ TypeOK /\ job[j] \in Job /\ leg[i] \in Leg
  BY IdParts DEF JobsInv, TypeOK
<1>3. /\ receipt' \in [Ids -> {"nothing", "settle"} \cup Dispositions]
      /\ receipt'[i] = "nothing" /\ \A k \in Ids : receipt'[k] \in {receipt[k], "nothing"}
  BY <1>1, <1>2 DEF TypeOK
<1>4. \A k \in Ids : NoNewCall(k)
  BY <1>1 DEF NoNewCall
<1>5. CASE MayAcknowledge(j) /\ leg[i].settlement # "settled"
  <2> DEFINE s == Acknowledged(j, job[j], legs)
             rows == [job EXCEPT ![j] = s]
  <2>1. Mutate(rows, legs, binding, alarm)
    <3>1. Mutate([job EXCEPT ![j] = Acknowledged(j, @, legs)], legs, binding, alarm)
      BY <1>5 DEF AcknowledgeLeg
    <3>2. rows = [job EXCEPT ![j] = Acknowledged(j, @, legs)]
      OBVIOUS
    <3> QED
      BY <3>1, <3>2
  <2> HIDE DEF legs
  <2>2. /\ s \in Job /\ s.born = job[j].born /\ s.egress = job[j].egress
        /\ s.frozen = job[j].frozen /\ s.amount = job[j].amount /\ s.known = job[j].known
        /\ s.phase \in {job[j].phase, "complete"}
        /\ s.phase # job[j].phase => \A k \in LegsOf(j) : legs[k].settlement = "settled"
    BY <1>2, AcknowledgedShape
  <2> HIDE DEF s
  <2>3. /\ rows \in [Jobs -> Job] /\ rows[j] = s /\ \A k \in Jobs \ {j} : rows[k] = job[k]
        /\ alarm \in 0..(MaxTime + Admission + Replay) \cup {Never}
        /\ binding \in [Jobs -> {"none", "open", "closed"}]
    BY <1>2, <2>2 DEF TypeOK
  <2>4. /\ legs \in [Ids -> Leg] /\ \A k \in Ids \ {i} : legs[k] = leg[k]
        /\ legs[i].reserve = leg[i].reserve /\ legs[i].dispatched = leg[i].dispatched
        /\ legs[i].settlement = receipt[i]
    BY <1>1, <1>2 DEF TypeOK, Leg, legs
  <2> HIDE DEF rows
  <2>5. /\ job' = rows
        /\ leg' \in [Ids -> Leg]
        /\ binding' \in [Jobs -> {"none", "open", "closed"}]
        /\ alarm' \in 0..(MaxTime + Admission + Replay) \cup {Never}
        /\ \A k \in Ids : IF rows[k[1]].frozen /\ ~job[k[1]].frozen
                          THEN leg'[k] = LegAtFreeze(legs[k]) ELSE leg'[k] = legs[k]
        /\ \A k \in Jobs : \/ binding'[k] = binding[k]
                           \/ binding[k] = "open" /\ binding'[k] = "closed"
        /\ \A k \in Jobs : rows[k].frozen /\ ~job[k].frozen => binding'[k] # "open"
    BY <1>2, <2>1, <2>3, <2>4, MutateShape
  <2>6. \A k \in Ids : leg'[k] = legs[k]
    BY <2>2, <2>3, <2>5, IdParts
  <2>7. IsLive(j) /\ job[j].frozen /\ job'[j] = s
    BY <1>5, <2>3, <2>5, <1>2 DEF MayAcknowledge
  <2>8. JobOK(j)' /\ EgressOK(j)' /\ JobKeeps(job[j], job'[j])
    BY <1>1, <1>2, <2>2, <2>5, <2>7, AcknowledgedJob
  <2>9. ASSUME NEW k \in Jobs \ {j}
        PROVE  JobOK(k)' /\ EgressOK(k)' /\ JobKeeps(job[k], job'[k])
    <3>1. job'[k] = job[k] /\ binding'[k] \in {binding[k], "closed"}
      BY <2>3, <2>5
    <3> QED
      BY <1>1, <3>1, JobUntouched DEF JobMove
  <2>10. TypeOK'
    BY <1>1, <1>2, <1>3, <2>3, <2>5 DEF TypeOK
  <2>11. ASSUME NEW k \in Ids
         PROVE  /\ job'[k[1]].egress => leg[k].dispatched
                /\ job'[k[1]].phase = "complete" => leg'[k].settlement = "settled" \/ k = i
                /\ k # i => LegMove(k)
    <3>1. LegOK(k) /\ ReceiptOK(k) /\ leg'[k] = legs[k]
      BY <2>6 DEF JobsInv
    <3>2. k # i => leg'[k] = leg[k]
      BY <2>4, <3>1
    <3>3. CASE k[1] = j
      BY <2>2, <2>7, <3>1, <3>2, <3>3 DEF LegOK, ReceiptOK, LegsOf, LegMove
    <3>4. CASE k[1] # j
      <4>1. job'[k[1]] = job[k[1]]
        BY <2>3, <2>5, <3>4, IdParts
      <4> QED
        BY <3>1, <3>2, <3>4, <4>1 DEF LegOK, ReceiptOK, LegMove
    <3> QED
      BY <3>3, <3>4
  <2>12. LegOK(i) /\ ReceiptOK(i) /\ AskedOK(i) /\ leg'[i] = legs[i]
    BY <2>6 DEF JobsInv
  <2>13. LegOK(i)'
    BY <1>1, <2>4, <2>8, <2>11, <2>12 DEF LegOK, Gone, Dispatching, Unreserved, JobKeeps, ReplayUntil
  <2>14. ReceiptOK(i)'
    <3>1. job'[j].frozen /\ job'[j].amount = job[j].amount
      BY <2>2, <2>7
    <3>2. leg'[i].settlement = receipt[i] /\ receipt[i] # "conflict"
      BY <2>4, <2>12 DEF ReceiptOK
    <3>3. receipt[i] = "settled" => Unreserved(i)' /\ SettledAs(i)'
      BY <1>1, <2>12, <3>1 DEF ReceiptOK, Unreserved, SettledAs
    <3>4. job'[j].phase = "complete" => leg'[i].settlement = "settled"
      <4>1. job[j].phase # "complete"
        BY <2>7 DEF IsLive, Live
      <4>2. i \in LegsOf(j)
        BY DEF LegsOf
      <4> QED
        BY <2>2, <2>7, <2>12, <4>1, <4>2
    <3> QED
      BY <1>3, <3>1, <3>2, <3>3, <3>4 DEF ReceiptOK
  <2>15. ASSUME NEW k \in LegsOf(j)
         PROVE  AskedOK(k)'
    <3>1. k \in Ids /\ k[1] = j /\ AskedOK(k) /\ leg'[k].reserve = leg[k].reserve
      BY <2>4, <2>6 DEF LegsOf, JobsInv
    <3> QED
      BY <1>1, <2>8, <3>1 DEF AskedOK, Gone, Dispatching, Unreserved, JobKeeps, ReplayUntil
  <2>16. /\ \A k \in Jobs : JobKeeps(job[k], job'[k]) /\ JobOK(k)' /\ EgressOK(k)'
         /\ \A k \in Ids : k[1] # i[1] => asked'[k] = asked[k] /\ run'[k[1]] = run[k[1]]
    BY <1>1, <2>8, <2>9
  <2> QED
    BY <1>1, <1>3, <1>4, <2>10, <2>11, <2>13, <2>14, <2>15, <2>16, IdStep
<1>6. CASE ~(MayAcknowledge(j) /\ leg[i].settlement # "settled")
  <2>1. UNCHANGED <<job, leg, binding, alarm>>
    BY <1>6 DEF AcknowledgeLeg, Unchanged
  <2>2. TypeOK'
    BY <1>1, <1>2, <1>3, <2>1 DEF TypeOK
  <2>3. \A k \in Jobs : JobOK(k)' /\ EgressOK(k)' /\ JobMove(job[k], job'[k])
    BY <1>1, <2>1, JobUntouched
  <2>4. \A k \in Ids : LegMove(k)
    BY <2>1 DEF LegMove
  <2>5. \A k \in Ids : AskedOK(k)'
    BY <1>1, <1>4, <2>3, <2>4, IdParts, MoveKeepsAsked DEF JobMove
  <2> QED
    BY <1>1, <1>3, <1>4, <2>2, <2>3, <2>4, <2>5, MoveStep
<1> QED
  BY <1>5, <1>6

-----------------------------------------------------------------------------
(* What a ledger does to the row x of a leg, a new reservation aside.      *)
RowMoves(i, x, n) ==
    /\ n \in Row \cup {NoRow}
    /\ x = NoRow => n = NoRow
    /\ n = NoRow => x = NoRow \/ ReplayUntil(job[i[1]]) <= now
    /\ n # NoRow => /\ RowOK(i, n)
                    /\ x.dispatched => n.dispatched
                    /\ x.settled = 1 => n.settled = 1 /\ n.micros = x.micros

LEMMA MaintainedMoves ==
    ASSUME JobsInv, NEW i \in Ids
    PROVE  RowMoves(i, row[i], MaintainedRow(row[i], now))
<1> DEFINE x == row[i]
           n == MaintainedRow(x, now)
           j == i[1]
<1> SUFFICES RowMoves(i, x, n)
  OBVIOUS
<1>1. x \in Row \cup {NoRow} /\ now \in 0..MaxTime /\ j \in Jobs /\ RowOK(i, x)
  BY IdParts DEF JobsInv, TypeOK, Table
<1>2. /\ n \in Row \cup {NoRow}
      /\ x = NoRow => n = NoRow
      /\ n # NoRow =>
           /\ x # NoRow
           /\ n.window = x.window /\ n.scope = x.scope
           /\ n.created = x.created /\ n.dispatched = x.dispatched
           /\ \/ n = x
              \/ /\ x.settled = 0 /\ x.dispatched /\ n.settled = 2
                 /\ n.micros = x.micros
              \/ /\ x.settled = 0 /\ ~x.dispatched /\ n.settled = 1
                 /\ n.micros = 0
      /\ x # NoRow /\ n = NoRow => x.created + Retention < now
  BY <1>1, MaintainedRowCases
<1> HIDE DEF n
<1>3. n = NoRow => x = NoRow \/ ReplayUntil(job[j]) <= now
  <2> SUFFICES ASSUME n = NoRow, x # NoRow PROVE ReplayUntil(job[j]) <= now
    OBVIOUS
  <2>1. x.created \in Nat /\ job[j].born \in Nat
    BY <1>1, ClockType, Deadlines DEF Row, JobsInv, TypeOK, Job
  <2>2. job[j].born <= x.created + Admission
    BY <1>1 DEF RowOK
  <2> QED
    BY <1>1, <1>2, <2>1, <2>2, Deadlines, ClockType DEF ReplayUntil
<1>4. ASSUME n # NoRow
      PROVE  /\ RowOK(i, n)
             /\ x.dispatched => n.dispatched
             /\ x.settled = 1 => n.settled = 1 /\ n.micros = x.micros
  <2>1. CASE n = x
    BY <1>1, <2>1
  <2>2. CASE x.settled = 0 /\ x.dispatched /\ n.settled = 2 /\ n.micros = x.micros
    <3>1. n.dispatched /\ n.created = x.created /\ x # NoRow
      BY <1>2, <1>4, <2>2
    <3>2. RowOK(i, n)
      BY <1>1, <2>2, <3>1 DEF RowOK
    <3> QED
      BY <2>2, <3>1, <3>2
  <2>3. CASE x.settled = 0 /\ ~x.dispatched /\ n.settled = 1 /\ n.micros = 0
    <3>1. ~n.dispatched /\ n.created = x.created /\ x # NoRow
      BY <1>2, <1>4, <2>3
    <3>2. RowOK(i, n)
      BY <1>1, <2>3, <3>1 DEF RowOK
    <3> QED
      BY <2>3, <3>2
  <2> QED
    BY <1>2, <1>4, <2>1, <2>2, <2>3
<1> QED
  BY <1>2, <1>3, <1>4 DEF RowMoves

LEMMA ObjectMoves ==
    ASSUME JobsInv, NEW l \in Legs
    PROVE  /\ ObjectMaintained(l) \in Table
           /\ \A i \in Ids : RowMoves(i, row[i], ObjectMaintained(l)[i])
<1>1. \A i \in Ids : RowMoves(i, row[i], row[i])
  <2> SUFFICES ASSUME NEW i \in Ids PROVE RowMoves(i, row[i], row[i])
    OBVIOUS
  <2>1. row[i] \in Row \cup {NoRow} /\ RowOK(i, row[i])
    BY DEF JobsInv, TypeOK, Table
  <2> QED
    BY <2>1 DEF RowMoves
<1>2. \A i \in Ids : RowMoves(i, row[i], ObjectMaintained(l)[i])
  BY <1>1, MaintainedMoves DEF ObjectMaintained
<1>3. ObjectMaintained(l) \in Table
  BY <1>2 DEF ObjectMaintained, RowMoves, Table
<1> QED
  BY <1>2, <1>3

LEMMA DispatchMoves ==
    ASSUME JobsInv, NEW table \in Table, NEW i \in Ids,
           \A k \in Ids : RowMoves(k, row[k], table[k])
    PROVE  /\ Dispatched(table, now, i) \in Table
           /\ \A k \in Ids : RowMoves(k, row[k], Dispatched(table, now, i)[k])
           /\ Dispatchable(table, now, i) =>
                 Dispatched(table, now, i)[i] # NoRow /\ Dispatched(table, now, i)[i].dispatched
<1>1. CASE ~Dispatchable(table, now, i)
  BY <1>1 DEF Dispatched
<1>2. CASE Dispatchable(table, now, i)
  <2> DEFINE x == [table[i] EXCEPT !.dispatched = TRUE]
  <2>1. table[i] \in Row /\ table[i] # NoRow /\ table[i].settled = 0
    BY <1>2 DEF Dispatchable, Known, Table
  <2>2. Dispatched(table, now, i) = [table EXCEPT ![i] = x]
    BY <1>2 DEF Dispatched
  <2>3. /\ x \in Row /\ x.created = table[i].created /\ x.settled = 0
        /\ x.micros = table[i].micros /\ x.dispatched
    BY <2>1 DEF Row
  <2>4. x # NoRow
    BY <2>3, NullsAreNull
  <2> HIDE DEF x
  <2>5. RowMoves(i, row[i], table[i]) /\ RowOK(i, table[i])
    BY <2>1 DEF RowMoves
  <2>6. row[i].settled # 1 /\ row[i] # NoRow
    BY <2>1, <2>5 DEF RowMoves
  <2>7. RowOK(i, x)
    BY <2>1, <2>3, <2>5 DEF RowOK
  <2>8. RowMoves(i, row[i], x)
    BY <2>3, <2>4, <2>6, <2>7 DEF RowMoves
  <2> QED
    BY <2>2, <2>3, <2>4, <2>8 DEF Table
<1> QED
  BY <1>1, <1>2

(* A frozen receipt is never in conflict with its row.                     *)
LEMMA SettleMoves ==
    ASSUME JobsInv, NEW table \in Table, NEW i \in Ids, job[i[1]].frozen,
           \A k \in Ids : RowMoves(k, row[k], table[k])
    PROVE  LET a == job[i[1]].amount IN
           /\ Settled(table, i, a) \in Table
           /\ \A k \in Ids : RowMoves(k, row[k], Settled(table, i, a)[k])
           /\ Known(table, i) => SettleAccepted(table, i, a)
           /\ SettleAccepted(table, i, a) =>
                 /\ Settled(table, i, a)[i] # NoRow
                 /\ Settled(table, i, a)[i].settled = 1 /\ Settled(table, i, a)[i].micros = a
<1> DEFINE j == i[1]
           a == job[j].amount
           x == Priced(table[i], a)
<1>1. j \in Jobs /\ a \in 0..MaxMicros /\ JobOK(j) /\ LegOK(i)
  BY IdParts DEF JobsInv, TypeOK, Job
<1>2. RowMoves(i, row[i], table[i])
  OBVIOUS
<1>3. CASE table[i] = NoRow
  BY <1>3 DEF Settled, SettleAccepted, Known
<1>4. CASE table[i] # NoRow
  <2>1. table[i] \in Row /\ RowOK(i, table[i]) /\ row[i] # NoRow
    BY <1>2, <1>4 DEF RowMoves, Table
  <2>2. ~table[i].dispatched => a = 0
    <3> SUFFICES ASSUME ~table[i].dispatched PROVE a = 0
      OBVIOUS
    <3>1. ~row[i].dispatched
      BY <1>2, <1>4 DEF RowMoves
    <3>2. ~job[j].egress
      BY <1>1, <2>1, <3>1 DEF LegOK, Dispatching
    <3> QED
      BY <1>1, <3>2 DEF JobOK, Unbilled
  <2>3. table[i].settled = 1 => table[i].micros = a
    BY <1>4, <2>1, <2>2 DEF RowOK
  <2>4. SettleAccepted(table, i, a)
    BY <1>4, <2>2, <2>3 DEF SettleAccepted, Known
  <2>5. Settled(table, i, a) = [table EXCEPT ![i] = x]
    BY <2>4 DEF Settled
  <2>6. /\ x \in Row /\ x.created = table[i].created /\ x.settled = 1 /\ x.micros = a
        /\ x.dispatched = table[i].dispatched
    BY <1>1, <2>1 DEF Row, Priced
  <2>7. x # NoRow
    BY <2>6, NullsAreNull
  <2> HIDE DEF x
  <2>8. RowOK(i, x)
    BY <1>4, <2>1, <2>2, <2>6 DEF RowOK
  <2>9. row[i].settled = 1 => x.micros = row[i].micros
    BY <1>2, <1>4, <2>3, <2>6 DEF RowMoves
  <2>10. row[i].dispatched => x.dispatched
    BY <1>2, <1>4, <2>6 DEF RowMoves
  <2>11. RowMoves(i, row[i], x)
    BY <2>1, <2>6, <2>7, <2>8, <2>9, <2>10 DEF RowMoves
  <2> QED
    BY <2>4, <2>5, <2>6, <2>7, <2>11 DEF Table
<1> QED
  BY <1>3, <1>4

(* A reservation: the id has no row yet.                                   *)
LEMMA ReserveMoves ==
    ASSUME JobsInv, NEW table \in Table, NEW i \in Ids, <<"reserve", i>> \in net,
           \A k \in Ids : RowMoves(k, row[k], table[k])
    PROVE  LET n == Reserved(table, now, ReserveRequest(i)) IN
           /\ n \in Table
           /\ \A k \in Ids \ {i} : RowMoves(k, row[k], n[k])
           /\ RowOK(i, n[i])
           /\ Allowed(table, ReserveRequest(i)) <=> n[i] # NoRow
<1> DEFINE q == ReserveRequest(i)
           x == NewRow(q, now)
           j == i[1]
           t == Reserved(table, now, q)
<1> SUFFICES /\ t \in Table /\ \A k \in Ids \ {i} : RowMoves(k, row[k], t[k])
             /\ RowOK(i, t[i]) /\ (Allowed(table, q) <=> t[i] # NoRow)
  OBVIOUS
<1>1. j \in Jobs /\ i[2] \in Kinds /\ JobOK(j) /\ LegOK(i) /\ now \in 0..MaxTime
  BY IdParts, JobsType DEF JobsInv, TypeOK
<1>2. row[i] = NoRow /\ leg[i].reserve = "sent"
  BY <1>1 DEF LegOK, Unreserved
<1>3. table[i] = NoRow
  BY <1>2 DEF RowMoves
<1>4. job[j].phase # "none" /\ job[j].born <= now + Admission
  BY <1>1, <1>2 DEF LegOK, JobOK
<1>5. Planned(i) \in Windows
  <2>1. job[j].born \in Nat
    BY <1>1, ClockType, Deadlines DEF JobsInv, TypeOK, Job
  <2>2. {job[j].born, MaxTime} \in SUBSET Nat /\ {job[j].born, MaxTime} # {}
    BY <2>1, ClockType
  <2> DEFINE e == Earliest({job[j].born, MaxTime})
  <2>3. e \in {job[j].born, MaxTime} /\ e <= MaxTime
    BY <2>2, EarliestIsFirst
  <2> HIDE DEF e
  <2>4. e \in 0..MaxTime
    BY <2>1, <2>3, ClockType
  <2>5. Index[i[2]][e] \in 0..MaxTime
    BY <1>1, <2>4, CalendarType
  <2> QED
    BY <1>1, <2>5 DEF Planned, WindowAt, Windows, e
<1>6. q.id = i /\ q.window = Planned(i) /\ q.scope = NoScope /\ q.cost = Cost /\ q.dispatched = FALSE
  BY DEF ReserveRequest
<1> HIDE DEF q
<1>7. /\ x \in Row /\ x.created = now /\ x.settled = 0 /\ x.micros = Cost
  <2>1. x = [window |-> Planned(i), scope |-> NoScope, micros |-> Cost, created |-> now,
             settled |-> 0, dispatched |-> FALSE]
    BY <1>6 DEF NewRow
  <2>2. Cost \in 0..MaxMicros /\ 0 \in 0..2
    BY JobsType
  <2> QED
    BY <1>1, <1>5, <2>1, <2>2 DEF Row
<1>8. x # NoRow
  BY <1>7, NullsAreNull
<1> HIDE DEF x
<1>9. RowOK(i, x)
  BY <1>4, <1>7 DEF RowOK
<1>10. CASE Admits(table, q)
  <2>1. t = [table EXCEPT ![i] = x]
    BY <1>6, <1>10 DEF Reserved, x
  <2> QED
    BY <1>6, <1>7, <1>8, <1>9, <1>10, <2>1 DEF Table, Allowed, Admits
<1>11. CASE ~Admits(table, q)
  <2>1. t = table
    BY <1>11 DEF Reserved
  <2> QED
    BY <1>3, <1>6, <1>11, <2>1 DEF Allowed, Admits, Known, RowOK
<1> QED
  BY <1>10, <1>11

-----------------------------------------------------------------------------
(* The reply to the call <<o, i>>, which may still be on its way.          *)
LEMMA ReplyStep ==
    ASSUME JobsInv, NEW o \in {"reserve", "dispatch", "settle"}, NEW i \in Ids,
           <<o, i>> \in net, row' \in Table,
           net' = net \/ net' = net \ {<<o, i>>},
           NEW answer, Reply(<<o, i>>, answer), faults' \in 0..MaxFaults,
           UNCHANGED <<now, job, leg, binding, run, process, alarm, worker, sent>>,
           \A k \in Ids : (k = i => o # "reserve") => RowMoves(k, row[k], row'[k]),
           o = "reserve" => RowOK(i, row'[i]) /\ (row'[i] # NoRow => net' = net \ {<<o, i>>}),
           o = "reserve" /\ answer # "lost" =>
               /\ net' = net \ {<<o, i>>}
               /\ answer = IF row'[i] # NoRow THEN "yes" ELSE "no",
           o = "dispatch" => answer \in {"yes", "no", "lost"},
           o = "dispatch" /\ answer = "yes" => row'[i] # NoRow /\ row'[i].dispatched,
           o = "settle" => answer \in {"settled", "missing", "unavailable"},
           o = "settle" /\ answer = "settled" => row'[i] # NoRow /\ SettledAs(i)'
    PROVE  JobsInv'
<1>1. TypeOK
  BY DEF JobsInv
<1>2. o # "settle" => answer \in {"yes", "no", "lost"}
  OBVIOUS
<1>3. /\ asked' = IF asked[i] = o THEN [asked EXCEPT ![i] = answer] ELSE asked
      /\ receipt' = IF o = "settle" /\ receipt[i] = "settle"
                    THEN [receipt EXCEPT ![i] = answer] ELSE receipt
  BY DEF Reply
<1>4. asked[i] # "settle"
  BY <1>1 DEF TypeOK
<1>5. /\ asked' \in [Ids -> {"nothing", "reserve", "dispatch", "yes", "no", "lost"}]
      /\ \A k \in Ids \ {i} : asked'[k] = asked[k]
      /\ asked'[i] = IF asked[i] = o THEN answer ELSE asked[i]
      /\ \A k \in Ids : asked'[k] # "nothing" <=> asked[k] # "nothing"
  BY <1>1, <1>2, <1>3, <1>4 DEF TypeOK
<1>6. /\ receipt' \in [Ids -> {"nothing", "settle"} \cup Dispositions]
      /\ \A k \in Ids \ {i} : receipt'[k] = receipt[k]
      /\ receipt'[i] = IF o = "settle" /\ receipt[i] = "settle" THEN answer ELSE receipt[i]
  BY <1>1, <1>3 DEF TypeOK, Dispositions
<1>7. TypeOK'
  BY <1>1, <1>5, <1>6 DEF TypeOK
<1>8. \A k \in Jobs : JobOK(k)' /\ EgressOK(k)'
  BY JobUntouched
<1>9. \A k, m \in Jobs : KeyOK(k, m)'
  BY DEF JobsInv, KeyOK, ReplayUntil
<1>10. ASSUME NEW k \in Ids
       PROVE  /\ Unreserved(k) => Unreserved(k)'
              /\ <<"settle", k>> \in net' => <<"settle", k>> \in net
              /\ k # i \/ o # "reserve" => (Unreserved(k) <=> Unreserved(k)')
  BY DEF Unreserved
<1>11. ASSUME NEW k \in Ids, k = i => o # "reserve"
       PROVE  /\ LegOK(k)' /\ RowOK(k, row[k])'
              /\ row[k] # NoRow \/ Gone(k) => row'[k] # NoRow \/ Gone(k)'
              /\ Dispatching(k) => Dispatching(k)'
              /\ SettledAs(k) => SettledAs(k)'
              /\ row[k] = NoRow => row'[k] = NoRow
  <2>1. RowMoves(k, row[k], row'[k]) /\ LegOK(k)
    BY <1>11 DEF JobsInv
  <2>2. row[k] # NoRow \/ Gone(k) => row'[k] # NoRow \/ Gone(k)'
    BY <2>1 DEF RowMoves, Gone, ReplayUntil
  <2>3. Dispatching(k) => Dispatching(k)'
    BY <2>1 DEF RowMoves, Dispatching
  <2>4. SettledAs(k) => SettledAs(k)'
    BY <2>1 DEF RowMoves, SettledAs
  <2>5. row[k] = NoRow => row'[k] = NoRow
    BY <2>1 DEF RowMoves
  <2>6. RowOK(k, row[k])'
    BY <2>1 DEF RowMoves, RowOK
  <2>7. LegOK(k)'
    BY <1>10, <1>11, <2>1, <2>2, <2>3, <2>5 DEF LegOK
  <2> QED
    BY <2>2, <2>3, <2>4, <2>5, <2>6, <2>7
<1>12. ASSUME NEW k \in Ids, k # i
       PROVE  AskedOK(k)' /\ ReceiptOK(k)'
  <2>1. AskedOK(k) /\ ReceiptOK(k) /\ asked'[k] = asked[k] /\ receipt'[k] = receipt[k]
    BY <1>5, <1>6, <1>12 DEF JobsInv
  <2>2. AskedOK(k)'
    <3>1. \A m \in LegsOf(k[1]) : asked'[k] # "nothing" /\ asked'[m] # "nothing" => k = m
      BY <1>5, <2>1 DEF AskedOK, LegsOf
    <3> QED
      BY <1>10, <1>11, <1>12, <2>1, <3>1 DEF AskedOK
  <2>3. ReceiptOK(k)'
    BY <1>10, <1>11, <1>12, <2>1 DEF ReceiptOK
  <2> QED
    BY <2>2, <2>3
<1>13. AskedOK(i) /\ ReceiptOK(i) /\ LegOK(i)
  BY DEF JobsInv
<1>14. \A m \in LegsOf(i[1]) : asked'[i] # "nothing" /\ asked'[m] # "nothing" => i = m
  BY <1>5, <1>13 DEF AskedOK, LegsOf
<1>15. CASE o = "reserve"
  <2>1. leg[i].reserve = "sent" /\ row[i] = NoRow /\ ~Unreserved(i)
    BY <1>13, <1>15 DEF LegOK, Unreserved
  <2>2. net' = net \ {<<o, i>>} => Unreserved(i)'
    BY <1>15 DEF Unreserved
  <2>3. ~leg[i].dispatched /\ ~job[i[1]].egress /\ job[i[1]].phase # "none"
    BY <1>13, <2>1 DEF LegOK
  <2>4. RowOK(i, row[i])'
    BY <1>15 DEF RowOK
  <2>5. LegOK(i)'
    BY <1>15, <2>1, <2>2, <2>3 DEF LegOK
  <2>6. ReceiptOK(i)'
    <3>1. receipt'[i] = receipt[i] /\ "settled" \notin {receipt[i], leg[i].settlement}
      BY <1>6, <1>13, <1>15, <2>1 DEF ReceiptOK
    <3> QED
      BY <1>10, <1>13, <3>1 DEF ReceiptOK
  <2>7. AskedOK(i)'
    <3>1. CASE asked[i] = "reserve"
      <4>1. run[i[1]] = "reserve" /\ asked'[i] = answer
        BY <1>5, <1>13, <1>15, <3>1 DEF AskedOK
      <4> QED
        BY <1>2, <1>13, <1>14, <1>15, <2>1, <2>2, <4>1 DEF AskedOK
    <3>2. CASE asked[i] # "reserve"
      <4>1. asked'[i] = asked[i]
        BY <1>5, <1>15, <3>2
      <4>2. /\ ~(run[i[1]] = "reserve" /\ asked[i] \in {"yes", "no"})
            /\ ~(run[i[1]] = "dispatch" /\ asked[i] = "yes")
        BY <1>13, <2>1 DEF AskedOK
      <4> QED
        BY <1>13, <1>14, <4>1, <4>2 DEF AskedOK
    <3> QED
      BY <3>1, <3>2
  <2> QED
    BY <1>7, <1>8, <1>9, <1>11, <1>12, <2>4, <2>5, <2>6, <2>7 DEF JobsInv
<1>16. CASE o = "dispatch"
  <2>1. receipt'[i] = receipt[i]
    BY <1>6, <1>16
  <2>2. ReceiptOK(i)'
    BY <1>10, <1>11, <1>13, <1>16, <2>1 DEF ReceiptOK
  <2>3. AskedOK(i)'
    <3>1. CASE asked[i] = "dispatch"
      <4>1. run[i[1]] = "dispatch" /\ asked'[i] = answer
        BY <1>5, <1>13, <1>16, <3>1 DEF AskedOK
      <4>2. answer = "yes" => Unreserved(i)' /\ Dispatching(i)'
        <5> SUFFICES ASSUME answer = "yes" PROVE Unreserved(i)' /\ Dispatching(i)'
          OBVIOUS
        <5>1. row'[i] # NoRow /\ row'[i].dispatched
          BY <1>16
        <5>2. row[i] # NoRow
          BY <1>11, <1>16, <5>1
        <5>3. Unreserved(i)
          BY <1>13, <5>2 DEF LegOK
        <5> QED
          BY <1>10, <5>1, <5>3 DEF Dispatching
      <4> QED
        BY <1>2, <1>14, <1>16, <4>1, <4>2 DEF AskedOK
    <3>2. CASE asked[i] # "dispatch"
      <4>1. asked'[i] = asked[i]
        BY <1>5, <1>16, <3>2
      <4> QED
        BY <1>10, <1>11, <1>13, <1>14, <1>16, <4>1 DEF AskedOK
    <3> QED
      BY <3>1, <3>2
  <2> QED
    BY <1>7, <1>8, <1>9, <1>11, <1>12, <1>16, <2>2, <2>3 DEF JobsInv
<1>17. CASE o = "settle"
  <2>1. asked'[i] = asked[i]
    BY <1>4, <1>5, <1>17
  <2>2. AskedOK(i)'
    BY <1>10, <1>11, <1>13, <1>14, <1>17, <2>1 DEF AskedOK
  <2>3. job[i[1]].frozen
    BY <1>13, <1>17 DEF ReceiptOK
  <2>4. receipt'[i] # "conflict"
    BY <1>6, <1>13, <1>17 DEF ReceiptOK
  <2>5. receipt'[i] = "settled" \/ leg[i].settlement = "settled" => Unreserved(i)' /\ SettledAs(i)'
    <3>1. CASE "settled" \in {receipt[i], leg[i].settlement}
      BY <1>10, <1>11, <1>13, <1>17, <3>1 DEF ReceiptOK
    <3>2. CASE receipt'[i] = answer /\ answer = "settled"
      <4>1. row'[i] # NoRow /\ SettledAs(i)'
        BY <1>17, <3>2
      <4>2. row[i] # NoRow
        BY <1>11, <1>17, <4>1
      <4>3. Unreserved(i)
        BY <1>13, <4>2 DEF LegOK
      <4> QED
        BY <1>10, <4>1, <4>3
    <3> QED
      BY <1>6, <3>1, <3>2
  <2>6. ReceiptOK(i)'
    BY <1>13, <2>3, <2>4, <2>5 DEF ReceiptOK
  <2> QED
    BY <1>7, <1>8, <1>9, <1>11, <1>12, <1>17, <2>2, <2>6 DEF JobsInv
<1> QED
  BY <1>15, <1>16, <1>17

(* What a call does to the table of its ledger, and what it answers.       *)
LEMMA CallApplied ==
    ASSUME JobsInv, NEW o \in {"reserve", "dispatch", "settle"}, NEW i \in Ids,
           <<o, i>> \in net
    PROVE  LET m == <<o, i>>
               table == ObjectMaintained(i[2])
               n == Applied(m, table)
               answer == Answer(m, table)
           IN  /\ n \in Table
               /\ \A k \in Ids : (k = i => o # "reserve") => RowMoves(k, row[k], n[k])
               /\ o = "reserve" => /\ RowOK(i, n[i])
                                   /\ answer = IF n[i] # NoRow THEN "yes" ELSE "no"
               /\ o = "dispatch" => /\ answer \in {"yes", "no"}
                                    /\ answer = "yes" => n[i] # NoRow /\ n[i].dispatched
               /\ o = "settle" => /\ answer \in {"settled", "missing"}
                                  /\ answer = "settled" =>
                                        /\ n[i] # NoRow /\ n[i].settled = 1
                                        /\ n[i].micros = job[i[1]].amount
<1> DEFINE m == <<o, i>>
           table == ObjectMaintained(i[2])
           n == Applied(m, table)
           answer == Answer(m, table)
<1> SUFFICES /\ n \in Table
             /\ \A k \in Ids : (k = i => o # "reserve") => RowMoves(k, row[k], n[k])
             /\ o = "reserve" => /\ RowOK(i, n[i])
                                 /\ answer = IF n[i] # NoRow THEN "yes" ELSE "no"
             /\ o = "dispatch" => /\ answer \in {"yes", "no"}
                                  /\ answer = "yes" => n[i] # NoRow /\ n[i].dispatched
             /\ o = "settle" => /\ answer \in {"settled", "missing"}
                                /\ answer = "settled" =>
                                      /\ n[i] # NoRow /\ n[i].settled = 1
                                      /\ n[i].micros = job[i[1]].amount
  OBVIOUS
<1>1. table \in Table /\ \A k \in Ids : RowMoves(k, row[k], table[k])
  BY IdParts, ObjectMoves
<1> HIDE DEF table
<1>2. CASE o = "reserve"
  <2>1. /\ n = Reserved(table, now, ReserveRequest(i))
        /\ answer = IF Allowed(table, ReserveRequest(i)) THEN "yes" ELSE "no"
    BY <1>2 DEF Applied, Answer
  <2> HIDE DEF n, answer
  <2>2. /\ n \in Table
        /\ \A k \in Ids \ {i} : RowMoves(k, row[k], n[k])
        /\ RowOK(i, n[i])
        /\ Allowed(table, ReserveRequest(i)) <=> n[i] # NoRow
    BY <1>1, <1>2, <2>1, ReserveMoves
  <2> QED
    BY <1>2, <2>1, <2>2
<1>3. CASE o = "dispatch"
  <2>1. /\ n = Dispatched(table, now, i)
        /\ answer = IF Dispatchable(table, now, i) THEN "yes" ELSE "no"
    BY <1>3 DEF Applied, Answer
  <2> HIDE DEF n, answer
  <2>2. /\ n \in Table /\ \A k \in Ids : RowMoves(k, row[k], n[k])
        /\ Dispatchable(table, now, i) => n[i] # NoRow /\ n[i].dispatched
    BY <1>1, <2>1, DispatchMoves
  <2> QED
    BY <1>3, <2>1, <2>2
<1>4. CASE o = "settle"
  <2> DEFINE a == job[i[1]].amount
  <2>1. /\ n = Settled(table, i, a)
        /\ answer = IF SettleAccepted(table, i, a) THEN "settled"
                    ELSE IF Known(table, i) THEN "conflict" ELSE "missing"
    BY <1>4 DEF Applied, Answer
  <2>2. job[i[1]].frozen
    BY <1>4 DEF JobsInv, ReceiptOK
  <2> HIDE DEF n, answer
  <2>3. /\ n \in Table /\ \A k \in Ids : RowMoves(k, row[k], n[k])
        /\ Known(table, i) => SettleAccepted(table, i, a)
        /\ SettleAccepted(table, i, a) =>
              n[i] # NoRow /\ n[i].settled = 1 /\ n[i].micros = a
    BY <1>1, <2>1, <2>2, SettleMoves
  <2> QED
    BY <1>4, <2>1, <2>3
<1> QED
  BY <1>2, <1>3, <1>4

LEMMA SameRows ==
    ASSUME JobsInv, row' = row
    PROVE  row' \in Table /\ \A k \in Ids : RowMoves(k, row[k], row'[k]) /\ RowOK(k, row'[k])
<1> SUFFICES ASSUME NEW k \in Ids PROVE RowMoves(k, row[k], row'[k]) /\ RowOK(k, row'[k])
  BY DEF JobsInv, TypeOK
<1>1. row[k] \in Row \cup {NoRow} /\ RowOK(k, row[k])
  BY DEF JobsInv, TypeOK, Table
<1> QED
  BY <1>1 DEF RowMoves

LEMMA CallParts ==
    ASSUME JobsInv, NEW m \in net
    PROVE  m[1] \in {"reserve", "dispatch", "settle"} /\ m[2] \in Ids /\ m = <<m[1], m[2]>>
  BY DEF JobsInv, TypeOK

LEMMA ServeStep ==
    ASSUME JobsInv, NEW m \in net, Serve(m)
    PROVE  JobsInv'
<1> DEFINE o == m[1]
           i == m[2]
           n == Applied(<<o, i>>, ObjectMaintained(i[2]))
           answer == Answer(<<o, i>>, ObjectMaintained(i[2]))
<1>1. o \in {"reserve", "dispatch", "settle"} /\ i \in Ids /\ m = <<o, i>>
  BY CallParts
<1>2. /\ row' = n /\ net' = net \ {<<o, i>>} /\ Reply(<<o, i>>, answer)
      /\ UNCHANGED <<now, job, leg, binding, run, process, alarm, worker, sent, faults>>
  BY <1>1 DEF Serve
<1>3. /\ n \in Table
      /\ \A k \in Ids : (k = i => o # "reserve") => RowMoves(k, row[k], n[k])
      /\ o = "reserve" => /\ RowOK(i, n[i])
                          /\ answer = IF n[i] # NoRow THEN "yes" ELSE "no"
      /\ o = "dispatch" => /\ answer \in {"yes", "no"}
                           /\ answer = "yes" => n[i] # NoRow /\ n[i].dispatched
      /\ o = "settle" => /\ answer \in {"settled", "missing"}
                         /\ answer = "settled" =>
                               /\ n[i] # NoRow /\ n[i].settled = 1
                               /\ n[i].micros = job[i[1]].amount
  BY <1>1, CallApplied
<1>4. faults' \in 0..MaxFaults
  BY <1>2 DEF JobsInv, TypeOK
<1> HIDE DEF n, answer, o, i
<1>5. o = "settle" /\ answer = "settled" => row'[i] # NoRow /\ SettledAs(i)'
  BY <1>2, <1>3 DEF SettledAs
<1>6. <<o, i>> \in net
  BY <1>1
<1> QED
  BY <1>1, <1>2, <1>3, <1>4, <1>5, <1>6, ReplyStep

LEMMA LoseStep ==
    ASSUME JobsInv, NEW m \in net, Lose(m)
    PROVE  JobsInv'
<1> DEFINE o == m[1]
           i == m[2]
           n == Applied(<<o, i>>, ObjectMaintained(i[2]))
           answer == IF o = "settle" THEN "unavailable" ELSE "lost"
<1>1. o \in {"reserve", "dispatch", "settle"} /\ i \in Ids /\ m = <<o, i>>
  BY CallParts
<1>2. /\ row' \in {row, n} /\ net' = net \ {<<o, i>>} /\ Reply(<<o, i>>, answer)
      /\ UNCHANGED <<now, job, leg, binding, run, process, alarm, worker, sent>>
  BY <1>1 DEF Lose
<1>3. /\ n \in Table
      /\ \A k \in Ids : (k = i => o # "reserve") => RowMoves(k, row[k], n[k])
      /\ o = "reserve" => RowOK(i, n[i])
  BY <1>1, CallApplied
<1>4. faults' \in 0..MaxFaults
  BY JobsType DEF Lose, Fault, JobsInv, TypeOK
<1>5. answer # "yes" /\ answer # "settled" /\ answer # "no"
      /\ answer \in {"lost", "unavailable"} /\ (o = "settle" <=> answer = "unavailable")
  OBVIOUS
<1> HIDE DEF n, answer, o, i
<1>6. /\ row' \in Table
      /\ \A k \in Ids : (k = i => o # "reserve") => RowMoves(k, row[k], row'[k])
      /\ o = "reserve" => RowOK(i, row'[i])
  BY <1>1, <1>2, <1>3, SameRows
<1>7. <<o, i>> \in net
  BY <1>1
<1> QED
  BY <1>1, <1>2, <1>4, <1>5, <1>6, <1>7, ReplyStep

LEMMA TimeOutStep ==
    ASSUME JobsInv, NEW m \in net, TimeOut(m)
    PROVE  JobsInv'
<1> DEFINE o == m[1]
           i == m[2]
           answer == IF o = "settle" THEN "unavailable" ELSE "lost"
<1>1. o \in {"reserve", "dispatch", "settle"} /\ i \in Ids /\ m = <<o, i>>
  BY CallParts
<1>2. /\ row' = row /\ net' = net /\ Reply(<<o, i>>, answer)
      /\ UNCHANGED <<now, job, leg, binding, run, process, alarm, worker, sent>>
  BY <1>1 DEF TimeOut
<1>3. faults' \in 0..MaxFaults
  BY JobsType DEF TimeOut, Fault, JobsInv, TypeOK
<1>4. answer # "yes" /\ answer # "settled" /\ answer # "no"
      /\ answer \in {"lost", "unavailable"} /\ (o = "settle" <=> answer = "unavailable")
  OBVIOUS
<1> HIDE DEF answer, o, i
<1>5. <<o, i>> \in net /\ (o = "reserve" => row[i] = NoRow)
  BY <1>1 DEF JobsInv, LegOK, Unreserved
<1>6. /\ row' \in Table
      /\ \A k \in Ids : RowMoves(k, row[k], row'[k]) /\ RowOK(k, row'[k])
  BY <1>2, SameRows
<1> QED
  BY <1>1, <1>2, <1>3, <1>4, <1>5, <1>6, ReplyStep

LEMMA RestartStep ==
    ASSUME JobsInv, Restart
    PROVE  JobsInv'
<1>1. /\ run' = [j \in Jobs |-> "none"] /\ asked' = [i \in Ids |-> "nothing"]
      /\ process' = [j \in Jobs |-> "none"] /\ receipt' = [i \in Ids |-> "nothing"]
      /\ faults' \in 0..MaxFaults
      /\ UNCHANGED <<row, now, job, leg, binding, alarm, worker, sent, net>>
  BY JobsType DEF Restart, Fault, JobsInv, TypeOK
<1>2. TypeOK
  BY DEF JobsInv
<1>3. TypeOK'
  BY <1>1, <1>2 DEF TypeOK
<1>4. \A j \in Jobs : JobOK(j)' /\ EgressOK(j)'
  BY <1>1 DEF JobsInv, JobOK, EgressOK, ReplayUntil
<1>5. \A j \in Jobs : JobMove(job[j], job'[j])
  BY <1>1, SameMove
<1>6. \A i \in Ids : LegMove(i) /\ NoNewCall(i) /\ receipt'[i] \in {receipt[i], "nothing"}
  BY <1>1 DEF LegMove, NoNewCall
<1>7. \A i \in Ids : AskedOK(i)'
  BY <1>1, IdParts, AskedNothing
<1> QED
  BY <1>1, <1>3, <1>4, <1>5, <1>6, <1>7, MoveStep

LEMMA TickStep ==
    ASSUME JobsInv, Tick
    PROVE  JobsInv'
<1>1. /\ now' = now + 1 /\ now' \in 0..MaxTime /\ now \in 0..MaxTime
      /\ UNCHANGED <<row, job, leg, binding, run, asked, process, receipt, alarm, worker, sent, net, faults>>
  BY ClockType DEF Tick, JobsInv, TypeOK
<1>2. TypeOK
  BY DEF JobsInv
<1>3. TypeOK'
  BY <1>1, <1>2 DEF TypeOK
<1>4. ASSUME NEW j \in Jobs
      PROVE  job[j].born \in Nat /\ ReplayUntil(job[j]) \in Nat
  BY <1>2, ClockType, Deadlines DEF TypeOK, Job, ReplayUntil
<1>5. ASSUME NEW j \in Jobs
      PROVE  JobOK(j)' /\ EgressOK(j)'
  <2>1. JobOK(j) /\ EgressOK(j)
    BY DEF JobsInv
  <2>2. job[j].born <= now + Admission => job[j].born <= now' + Admission
    BY <1>1, <1>4, Deadlines
  <2>3. ReplayUntil(job[j]) <= now => ReplayUntil(job[j]) <= now'
    BY <1>1, <1>4
  <2> QED
    BY <1>1, <2>1, <2>2, <2>3 DEF JobOK, EgressOK, ReplayUntil
<1>6. ASSUME NEW i \in Ids
      PROVE  LegOK(i)' /\ AskedOK(i)' /\ RowOK(i, row[i])' /\ ReceiptOK(i)'
  <2>1. LegOK(i) /\ AskedOK(i) /\ RowOK(i, row[i]) /\ ReceiptOK(i)
    BY DEF JobsInv
  <2>2. Gone(i) => Gone(i)'
    <3>1. ReplayUntil(job[i[1]]) <= now => ReplayUntil(job[i[1]]) <= now'
      BY <1>1, <1>4, IdParts
    <3> QED
      BY <1>1, <3>1 DEF Gone, ReplayUntil
  <2>3. LegOK(i)'
    BY <1>1, <2>1, <2>2 DEF LegOK, Unreserved, Dispatching
  <2>4. AskedOK(i)'
    BY <1>1, <2>1, <2>2 DEF AskedOK, Unreserved, Dispatching
  <2>5. RowOK(i, row[i])'
    BY <1>1, <2>1 DEF RowOK
  <2>6. ReceiptOK(i)'
    BY <1>1, <2>1 DEF ReceiptOK, Unreserved, SettledAs
  <2> QED
    BY <2>3, <2>4, <2>5, <2>6
<1>7. \A j, k \in Jobs : KeyOK(j, k)'
  BY <1>1 DEF JobsInv, KeyOK, ReplayUntil
<1> QED
  BY <1>3, <1>5, <1>6, <1>7 DEF JobsInv

-----------------------------------------------------------------------------
(* An admission, which may evict one tombstone.                            *)
LEMMA EvictedShape ==
    ASSUME JobsInv, NEW rows \in Evicted(job)
    PROVE  /\ rows \in [Jobs -> Job]
           /\ \A k \in Jobs : \/ rows[k] = job[k]
                              \/ /\ job[k].phase \in Tombstones /\ rows[k].phase = "evicted"
                                 /\ Key[k] # NoKey => ReplayUntil(job[k]) <= now
                                 /\ rows[k].born = job[k].born /\ rows[k].egress = job[k].egress
                                 /\ rows[k].frozen = job[k].frozen /\ rows[k].known = job[k].known
                                 /\ rows[k].amount = job[k].amount
<1>1. job \in [Jobs -> Job]
  BY DEF JobsInv, TypeOK
<1>2. CASE rows = job
  BY <1>1, <1>2
<1>3. CASE rows # job
  <2>1. PICK e \in Evictable : rows = [job EXCEPT ![e].phase = "evicted"]
    BY <1>3 DEF Evicted
  <2>2. /\ e \in Jobs /\ job[e] \in Job /\ job[e].phase \in Tombstones
        /\ e \notin Managed \/ ReplayUntil(job[e]) <= now
    BY <1>1 DEF Evictable
  <2>3. Key[e] # NoKey => ReplayUntil(job[e]) <= now
    BY <2>2, JobsType
  <2> DEFINE s == [job[e] EXCEPT !.phase = "evicted"]
  <2>4. /\ s \in Job /\ s.phase = "evicted" /\ s.born = job[e].born /\ s.egress = job[e].egress
        /\ s.frozen = job[e].frozen /\ s.known = job[e].known /\ s.amount = job[e].amount
    BY <2>2 DEF Job
  <2>5. rows = [job EXCEPT ![e] = s]
    BY <2>1
  <2> HIDE DEF s
  <2>6. rows \in [Jobs -> Job] /\ rows[e] = s /\ \A k \in Jobs \ {e} : rows[k] = job[k]
    BY <1>1, <2>2, <2>4, <2>5
  <2> QED
    BY <2>2, <2>3, <2>4, <2>6
<1> QED
  BY <1>2, <1>3

(* A job that has not been admitted: nothing is known or stored of it.     *)
LEMMA Unadmitted ==
    ASSUME JobsInv, NEW j \in Jobs, worker[j] = "idle"
    PROVE  /\ job[j].phase = "none" /\ run[j] = "none" /\ ~job[j].frozen
           /\ ~sent[j]
           /\ \A i \in Ids : i[1] = j =>
                /\ row[i] = NoRow /\ leg[i].reserve = "never" /\ Unreserved(i)
                /\ ~leg[i].dispatched /\ leg[i].settlement = "pending"
                /\ asked[i] = "nothing" /\ receipt[i] = "nothing" /\ <<"settle", i>> \notin net
<1>1. JobOK(j) /\ EgressOK(j)
  BY DEF JobsInv
<1>2. job[j].phase = "none" /\ run[j] = "none" /\ ~job[j].frozen /\ ~sent[j]
  BY <1>1 DEF JobOK, EgressOK
<1>3. ASSUME NEW i \in Ids, i[1] = j
      PROVE  /\ row[i] = NoRow /\ leg[i].reserve = "never" /\ Unreserved(i)
             /\ ~leg[i].dispatched /\ leg[i].settlement = "pending"
             /\ asked[i] = "nothing" /\ receipt[i] = "nothing" /\ <<"settle", i>> \notin net
  <2>1. LegOK(i) /\ AskedOK(i) /\ ReceiptOK(i)
    BY DEF JobsInv
  <2>2. leg[i].reserve = "never"
    BY <1>2, <1>3, <2>1 DEF LegOK
  <2>3. row[i] = NoRow /\ Unreserved(i) /\ ~leg[i].dispatched
    BY <2>1, <2>2 DEF LegOK
  <2> QED
    BY <1>2, <1>3, <2>1, <2>2, <2>3 DEF AskedOK, ReceiptOK
<1> QED
  BY <1>2, <1>3

LEMMA Admitted ==
    ASSUME JobsInv, NEW j \in Jobs, worker[j] = "idle", ~\E k \in Jobs : Guards(k, j),
           NEW born \in Stamps, NEW rows \in Evicted(job),
           Mutate([rows EXCEPT ![j] = [NoJob EXCEPT !.phase = "admitting", !.born = born,
                                                    !.next = born + Admission]],
                  leg, binding, alarm),
           Works(j, "admitting"), Runs(j, "reserve"),
           UNCHANGED <<row, now, asked, process, receipt, sent, net, faults>>
    PROVE  JobsInv'
<1> DEFINE new == [NoJob EXCEPT !.phase = "admitting", !.born = born, !.next = born + Admission]
           all == [rows EXCEPT ![j] = new]
<1>1. TypeOK /\ now \in 0..MaxTime /\ job \in [Jobs -> Job]
  BY DEF JobsInv, TypeOK
<1>2. born \in 0..MaxTime + Admission /\ born <= now + Admission /\ now <= born + Admission
  BY <1>1, Deadlines, ClockType DEF Stamps
<1>3. /\ new \in Job /\ new.phase = "admitting" /\ new.born = born /\ ~new.frozen /\ ~new.egress
      /\ ~new.known
  <2>1. born + Admission \in 0..MaxTime + Admission + Replay
    BY <1>2, Deadlines, ClockType
  <2>2. 0 \in 0..MaxMicros
    BY MicrosType
  <2>3. NoJob \in Job /\ ~NoJob.frozen /\ ~NoJob.egress /\ ~NoJob.known
    BY <1>2, <2>1, <2>2, Deadlines, ClockType DEF NoJob, Job
  <2> QED
    BY <1>2, <2>1, <2>3 DEF Job, Live
<1>4. /\ rows \in [Jobs -> Job]
      /\ \A k \in Jobs : \/ rows[k] = job[k]
                         \/ /\ job[k].phase \in Tombstones /\ rows[k].phase = "evicted"
                            /\ Key[k] # NoKey => ReplayUntil(job[k]) <= now
                            /\ rows[k].born = job[k].born /\ rows[k].egress = job[k].egress
                            /\ rows[k].frozen = job[k].frozen /\ rows[k].known = job[k].known
                            /\ rows[k].amount = job[k].amount
  BY EvictedShape
<1>5. Mutate(all, leg, binding, alarm)
  OBVIOUS
<1> HIDE DEF new
<1>6. /\ all \in [Jobs -> Job] /\ all[j] = new /\ \A k \in Jobs \ {j} : all[k] = rows[k]
      /\ alarm \in 0..(MaxTime + Admission + Replay) \cup {Never}
  BY <1>1, <1>3, <1>4 DEF TypeOK
<1> HIDE DEF all
<1>7. /\ job' = all /\ leg' \in [Ids -> Leg]
      /\ binding' \in [Jobs -> {"none", "open", "closed"}]
      /\ alarm' \in 0..(MaxTime + Admission + Replay) \cup {Never}
      /\ \A k \in Jobs : binding'[k] \in {binding[k], "closed"}
      /\ \A i \in Ids : LegMove(i)
      /\ \A k \in Jobs : all[k].frozen => binding'[k] # "open"
  BY <1>5, <1>6, MutateMoves
<1>8. /\ worker'[j] = "admitting" /\ run'[j] = "reserve"
      /\ \A k \in Jobs \ {j} : worker'[k] = worker[k] /\ run'[k] = run[k]
  BY <1>1 DEF Works, Runs, TypeOK
<1>9. TypeOK'
  BY <1>1, <1>6, <1>7 DEF TypeOK, Works, Runs
<1>10. /\ job[j].phase = "none" /\ run[j] = "none" /\ ~job[j].frozen
       /\ ~sent[j]
       /\ \A i \in Ids : i[1] = j =>
            /\ row[i] = NoRow /\ leg[i].reserve = "never" /\ Unreserved(i)
            /\ ~leg[i].dispatched /\ leg[i].settlement = "pending"
            /\ asked[i] = "nothing" /\ receipt[i] = "nothing" /\ <<"settle", i>> \notin net
  BY Unadmitted
<1>11. JobOK(j)' /\ EgressOK(j)'
  <2>1. job'[j] = new
    BY <1>6, <1>7
  <2> QED
    BY <1>2, <1>3, <1>8, <1>10, <2>1 DEF JobOK, EgressOK
<1>12. ASSUME NEW k \in Jobs \ {j}
       PROVE  JobOK(k)' /\ EgressOK(k)' /\ JobMove(job[k], job'[k])
  <2>1. /\ job'[k] = rows[k] /\ binding'[k] \in {binding[k], "closed"}
        /\ worker'[k] = worker[k] /\ run'[k] = run[k]
    BY <1>6, <1>7, <1>8
  <2>2. CASE rows[k] = job[k]
    BY <2>1, <2>2, JobUntouched
  <2>3. CASE rows[k] # job[k]
    <3>1. /\ job[k].phase \in Tombstones /\ rows[k].phase = "evicted"
          /\ Key[k] # NoKey => ReplayUntil(job[k]) <= now
          /\ rows[k].born = job[k].born /\ rows[k].egress = job[k].egress
          /\ rows[k].frozen = job[k].frozen /\ rows[k].known = job[k].known
          /\ rows[k].amount = job[k].amount
      BY <1>4, <2>3
    <3>2. JobOK(k) /\ EgressOK(k)
      BY DEF JobsInv
    <3>3. JobOK(k)'
      BY <2>1, <3>1, <3>2 DEF JobOK, Tombstones, ReplayUntil
    <3>4. EgressOK(k)'
      BY <2>1, <3>1, <3>2 DEF EgressOK
    <3>5. JobMove(job[k], job'[k])
      BY <2>1, <3>1 DEF JobMove, JobKeeps, Tombstones
    <3> QED
      BY <3>3, <3>4, <3>5
  <2> QED
    BY <2>2, <2>3
<1>13. ASSUME NEW i \in Ids
       PROVE  LegOK(i)' /\ AskedOK(i)' /\ RowOK(i, row[i])' /\ ReceiptOK(i)'
  <2>1. LegOK(i) /\ AskedOK(i) /\ ReceiptOK(i) /\ LegMove(i) /\ NoNewCall(i)
    BY <1>7 DEF JobsInv, NoNewCall
  <2>2. CASE i[1] = j
    <3>1. /\ row'[i] = NoRow /\ leg[i].reserve = "never" /\ Unreserved(i)'
          /\ ~leg[i].dispatched /\ leg[i].settlement = "pending"
          /\ asked'[i] = "nothing" /\ receipt'[i] = "nothing" /\ <<"settle", i>> \notin net'
      BY <1>10, <2>2 DEF Unreserved
    <3>2. job'[i[1]] = new /\ ~new.frozen
      BY <1>3, <1>6, <1>7, <2>2
    <3>3. leg'[i] = leg[i]
      BY <2>1, <3>2 DEF LegMove
    <3> QED
      BY <1>3, <1>8, <2>2, <3>1, <3>2, <3>3 DEF LegOK, AskedOK, RowOK, ReceiptOK
  <2>3. CASE i[1] # j
    <3>1. i[1] \in Jobs \ {j}
      BY <2>3, IdParts
    <3>2. JobMove(job[i[1]], job'[i[1]]) /\ run'[i[1]] = run[i[1]]
      BY <1>8, <1>12, <3>1
    <3>3. leg'[i].settlement \in {leg[i].settlement, "settled"}
      BY <1>1, <2>1, LegMoveShape
    <3>4. LegOK(i)' /\ RowOK(i, row[i])' /\ ReceiptOK(i)'
      BY <2>1, <3>2, <3>3, MoveKeepsLeg DEF JobMove, LegOK, ReceiptOK
    <3>5. AskedOK(i)'
      BY <2>1, <3>2, MoveKeepsAsked DEF JobMove
    <3> QED
      BY <3>4, <3>5
  <2> QED
    BY <2>2, <2>3
<1>14. ASSUME NEW k \in Jobs \ {j}, Key[j] # NoKey, Key[k] = Key[j], job'[k].phase # "none"
       PROVE  ReplayUntil(job'[k]) <= born + Admission
  <2>1. job[k].phase # "none" /\ job'[k].born = job[k].born
    BY <1>12, <1>14 DEF JobMove, JobKeeps
  <2>2. ReplayUntil(job[k]) \in Nat
    BY <1>1, ClockType, Deadlines DEF Job, ReplayUntil
  <2>3. ReplayUntil(job[k]) <= now
    <3>1. CASE job[k].phase = "evicted"
      BY <1>14, <3>1 DEF JobsInv, JobOK
    <3>2. CASE job[k].phase # "evicted"
      <4>1. Stored(k)
        BY <1>1, <2>1, <3>2 DEF Job, Stored
      <4>2. ~(now < ReplayUntil(job[k]))
        BY <1>14, <4>1 DEF Guards
      <4> QED
        BY <1>1, <2>2, <4>2
    <3> QED
      BY <3>1, <3>2
  <2> QED
    BY <1>1, <1>2, <2>1, <2>2, <2>3, Deadlines, ClockType DEF ReplayUntil
<1>15. ASSUME NEW k \in Jobs, NEW m \in Jobs
       PROVE  KeyOK(k, m)'
  <2>1. job'[j].born = born
    BY <1>3, <1>6, <1>7
  <2>2. CASE k = j
    BY <1>14, <2>1, <2>2 DEF KeyOK
  <2>3. CASE m = j
    BY <1>14, <2>1, <2>3 DEF KeyOK
  <2>4. CASE k # j /\ m # j
    <3>1. KeyOK(k, m) /\ JobKeeps(job[k], job'[k]) /\ JobKeeps(job[m], job'[m])
      BY <1>12, <2>4 DEF JobsInv, JobMove
    <3> QED
      BY <3>1 DEF KeyOK, JobKeeps, ReplayUntil
  <2> QED
    BY <2>2, <2>3, <2>4
<1> QED
  BY <1>9, <1>11, <1>12, <1>13, <1>15 DEF JobsInv

LEMMA AdmitStep ==
    ASSUME JobsInv, NEW j \in Jobs, Admit(j)
    PROVE  JobsInv'
<1> DEFINE refused ==
        (\E k \in Jobs : Guards(k, j))
          \/ Cardinality({k \in Jobs : job[k].phase \in {"admitting", "observing"}}) >= ActiveLimit
          \/ Evicted(job) = {}
<1>1. /\ worker[j] = "idle"
      /\ UNCHANGED <<row, now, asked, process, receipt, sent, net, faults>>
  BY DEF Admit
<1>2. CASE refused
  <2>1. worker' = [worker EXCEPT ![j] = "done"] /\ Unchanged /\ run' = run
    BY <1>2 DEF Admit, Works
  <2>2. TypeOK /\ JobOK(j) /\ EgressOK(j)
    BY DEF JobsInv
  <2>3. OwnerWrites(j) /\ job'[j] = job[j] /\ binding' = binding
    BY <2>1, UnchangedWrites DEF Unchanged
  <2>4. worker'[j] = "done" /\ \A k \in Jobs \ {j} : worker'[k] = worker[k]
    BY <2>1, <2>2 DEF TypeOK
  <2>5. CallTypes'
    BY <1>1, <2>1, <2>2 DEF TypeOK, CallTypes
  <2>6. JobOK(j)' /\ EgressOK(j)'
    BY <1>1, <2>1, <2>2, <2>3, <2>4 DEF JobOK, EgressOK, ReplayUntil
  <2> QED
    BY <1>1, <2>1, <2>3, <2>4, <2>5, <2>6, CallKept
<1>3. CASE ~refused
  <2>1. /\ \E born \in Stamps, rows \in Evicted(job) :
              Mutate([rows EXCEPT ![j] = [NoJob EXCEPT !.phase = "admitting", !.born = born,
                                                       !.next = born + Admission]],
                     leg, binding, alarm)
        /\ Works(j, "admitting") /\ Runs(j, "reserve")
    BY <1>3 DEF Admit
  <2>2. ~\E k \in Jobs : Guards(k, j)
    BY <1>3
  <2> QED
    BY <1>1, <2>1, <2>2, Admitted
<1> QED
  BY <1>2, <1>3

-----------------------------------------------------------------------------
LEMMA JobsInitially == Init => JobsInv
<1> SUFFICES ASSUME Init PROVE JobsInv
  OBVIOUS
<1>1. /\ \A i \in Ids : row[i] = NoRow /\ leg[i] = NewLeg /\ asked[i] = "nothing" /\ receipt[i] = "nothing"
      /\ \A j \in Jobs : /\ job[j] = NoJob /\ binding[j] = "none" /\ run[j] = "none"
                         /\ worker[j] = "idle" /\ sent[j] = FALSE
      /\ net = {} /\ now = 0
  BY DEF Init
<1>2. NoJob.phase = "none" /\ ~NoJob.frozen /\ ~NoJob.egress /\ ~NoJob.known
  BY DEF NoJob
<1>3. NewLeg.reserve = "never" /\ ~NewLeg.dispatched /\ NewLeg.settlement = "pending"
  BY DEF NewLeg
<1>4. TypeOK
  <2>1. 0 \in 0..MaxTime /\ 0 \in 0..MaxMicros /\ 0 \in 0..MaxTime + Admission
        /\ 0 \in 0..MaxTime + Admission + Replay /\ 0 \in 0..MaxFaults
    BY ClockType, MicrosType, Deadlines, JobsType
  <2>2. NoJob \in Job
    BY <2>1 DEF NoJob, Job
  <2>3. NewLeg \in Leg
    BY DEF NewLeg, Leg
  <2> QED
    BY <2>1, <2>2, <2>3 DEF Init, TypeOK, Table
<1>5. \A j \in Jobs : JobOK(j) /\ EgressOK(j)
  BY <1>1, <1>2 DEF JobOK, EgressOK
<1>6. ASSUME NEW i \in Ids
      PROVE  LegOK(i) /\ AskedOK(i) /\ RowOK(i, row[i]) /\ ReceiptOK(i)
  <2>1. /\ job[i[1]] = NoJob /\ run[i[1]] = "none" /\ row[i] = NoRow /\ leg[i] = NewLeg
        /\ asked[i] = "nothing" /\ receipt[i] = "nothing"
    BY <1>1, IdParts
  <2>2. <<"reserve", i>> \notin net /\ <<"settle", i>> \notin net
    BY <1>1
  <2> QED
    BY <1>2, <1>3, <2>1, <2>2 DEF LegOK, AskedOK, RowOK, ReceiptOK, Unreserved
<1>7. \A j, k \in Jobs : KeyOK(j, k)
  BY <1>1, <1>2 DEF KeyOK
<1> QED
  BY <1>4, <1>5, <1>6, <1>7 DEF JobsInv

LEMMA JobsStep == JobsInv /\ [Next]_vars => JobsInv'
<1> SUFFICES ASSUME JobsInv, [Next]_vars PROVE JobsInv'
  OBVIOUS
<1>1. ASSUME NEW j \in Jobs, WorkerStep(j)
      PROVE  JobsInv'
  BY <1>1, AdmitStep, HearAdmittedStep, BeginDispatchStep, HearDispatchedStep, UnsentStep,
     SendStep, BindStep, ObserveStep DEF WorkerStep
<1>2. ASSUME NEW j \in Jobs, OwnerStep(j)
      PROVE  JobsInv'
  <2>1. CASE BeginEgress(j) \/ ManualReplay(j) \/ Collect(j) \/ CollectFails(j)
             \/ Settle(j) \/ ProcessDone(j)
    BY <2>1, BeginEgressStep, ManualReplayStep, CollectStep, CollectFailsStep, SettleStep,
       ProcessDoneStep
  <2>2. CASE AcknowledgeUsage(j, "stored") /\ UNCHANGED faults
    <3>1. faults' \in 0..MaxFaults
      BY <2>2 DEF JobsInv, TypeOK
    <3> QED
      BY <2>2, <3>1, AcknowledgeUsageStep
  <2>3. CASE AcknowledgeUsage(j, "unavailable") /\ Fault
    <3>1. faults' \in 0..MaxFaults
      BY <2>3, JobsType DEF JobsInv, TypeOK, Fault
    <3> QED
      BY <2>3, <3>1, AcknowledgeUsageStep
  <2> QED
    BY <1>2, <2>1, <2>2, <2>3 DEF OwnerStep
<1>3. ASSUME NEW i \in Ids, LegStep(i)
      PROVE  JobsInv'
  BY <1>3, BeginReserveStep, ReserveAnsweredStep, AskDispatchStep, DispatchAnsweredStep,
     AcknowledgeLegStep DEF LegStep
<1>4. ASSUME NEW m \in net, Serve(m) \/ Lose(m) \/ TimeOut(m)
      PROVE  JobsInv'
  BY <1>4, ServeStep, LoseStep, TimeOutStep
<1>5. CASE UNCHANGED vars
  <2>1. UNCHANGED <<row, now, job, leg, binding, run, asked, process, receipt, alarm,
                    worker, sent, net, faults>>
    BY <1>5 DEF vars
  <2>2. TypeOK'
    BY <2>1 DEF JobsInv, TypeOK
  <2>3. \A j \in Jobs : JobOK(j)' /\ EgressOK(j)' /\ JobMove(job[j], job'[j])
    BY <2>1, JobUntouched
  <2>4. \A i \in Ids : LegMove(i) /\ NoNewCall(i) /\ receipt'[i] \in {receipt[i], "nothing"}
    BY <2>1 DEF LegMove, NoNewCall
  <2>5. \A i \in Ids : AskedOK(i)'
    BY <2>1, <2>3, <2>4, IdParts, MoveKeepsAsked DEF JobMove
  <2> QED
    BY <2>1, <2>2, <2>3, <2>4, <2>5, MoveStep
<1> QED
  BY <1>1, <1>2, <1>3, <1>4, <1>5, RejectedStep, AlarmStep, RestartStep, TickStep DEF Next

LEMMA JobsInvariant == Spec => []JobsInv
  BY JobsInitially, JobsStep, PTL DEF Spec

(* A generation is paid for from its dispatch to its tombstone             *)
(* (background-store.ts and managed-predictions.ts over the ledgers): what *)
(* was sent stays charged, a receipt finds its reservation for as long as  *)
(* it may be replayed, a complete job leaves every ledger settled.         *)
THEOREM GenerationsAreCharged == Spec => []JobsCharged
<1>1. JobsInv => JobsCharged
  <2> SUFFICES ASSUME JobsInv PROVE JobsCharged
    OBVIOUS
  <2>1. SentIsCharged
    <3> SUFFICES ASSUME NEW j \in Managed, sent[j]
                 PROVE  /\ job[j].frozen => job[j].amount = Billed
                        /\ \A i \in LegsOf(j) :
                              row[i] # NoRow => row[i].dispatched /\ row[i].micros = Cost
      BY DEF SentIsCharged
    <3>1. j \in Jobs /\ JobOK(j) /\ EgressOK(j)
      BY JobsType DEF JobsInv
    <3>2. job[j].egress
      BY <3>1 DEF EgressOK
    <3>3. job[j].frozen => job[j].amount = Billed
      BY <3>1, <3>2 DEF JobOK
    <3>4. ASSUME NEW i \in LegsOf(j), row[i] # NoRow
          PROVE  row[i].dispatched /\ row[i].micros = Cost
      <4>1. i \in Ids /\ i[1] = j /\ LegOK(i) /\ RowOK(i, row[i])
        BY DEF LegsOf, JobsInv
      <4>2. row[i].dispatched
        BY <3>2, <3>4, <4>1 DEF LegOK, Dispatching
      <4> QED
        BY <3>3, <3>4, <4>1, <4>2 DEF RowOK, Billed
    <3> QED
      BY <3>3, <3>4
  <2>2. CompleteIsSettled
    BY DEF JobsInv, ReceiptOK, SettledAs, CompleteIsSettled
  <2>3. ReplayFindsReservation
    <3> SUFFICES ASSUME NEW i \in Ids, MayAcknowledge(i[1]), leg[i].reserve = "accepted"
                 PROVE  row[i] # NoRow /\ leg[i].settlement # "conflict"
      BY DEF ReplayFindsReservation
    <3>1. LegOK(i) /\ ReceiptOK(i) /\ i[1] \in Jobs
      BY IdParts DEF JobsInv
    <3>2. now \in Nat /\ ReplayUntil(job[i[1]]) \in Nat
      BY <3>1, ClockType, Deadlines DEF JobsInv, TypeOK, Job, ReplayUntil
    <3>3. ~(ReplayUntil(job[i[1]]) <= now)
      BY <3>2 DEF MayAcknowledge
    <3> QED
      BY <3>1, <3>3 DEF LegOK, Gone, ReceiptOK
  <2> QED
    BY <2>1, <2>2, <2>3 DEF JobsCharged, JobsInv
<1> QED
  BY <1>1, JobsInvariant, PTL

(* admitManaged, capacity and the dispatch claim: however often a client   *)
(* repeats an idempotency key, one generation leaves per replay window.    *)
THEOREM KeysGenerateOnce == Spec => []OneGeneration
<1>1. JobsInv => OneGeneration
  <2> SUFFICES ASSUME JobsInv, NEW j \in Jobs, NEW k \in Jobs,
                      j # k, Key[j] # NoKey, Key[j] = Key[k], sent[j], sent[k]
               PROVE  \/ job[j].born + Replay <= job[k].born + Admission
                      \/ job[k].born + Replay <= job[j].born + Admission
    BY DEF OneGeneration
  <2>1. job[j].phase # "none" /\ job[k].phase # "none"
    BY DEF JobsInv, JobOK, EgressOK
  <2> QED
    BY <2>1 DEF JobsInv, KeyOK, ReplayUntil
<1> QED
  BY <1>1, JobsInvariant, PTL

(* freeze, bindManaged and register: an identity is open only while its    *)
(* job can still be collected, whichever of the two comes first.           *)
THEOREM IdentitiesClose == Spec => []FrozenIsClosed
<1>1. JobsInv => FrozenIsClosed
  BY DEF JobsInv, JobOK, FrozenIsClosed
<1> QED
  BY <1>1, JobsInvariant, PTL

-----------------------------------------------------------------------------
(***************************************************************************)
(* Response identities (Continuations).  A row that has not expired keeps  *)
(* its route and its producer whatever is registered, so what the owner    *)
(* granted a producer holds as long as the row does: while the grant is on *)
(* its way (TailHeld, ReplyHeld) and when it has been shown (ClaimHeld).   *)
(***************************************************************************)
Granted == {"owned", "legacy_unknown"}
Replies == Granted \cup {"stored", "conflict", "producer_conflict", "capacity",
                         "qualified", "unavailable"}
TailRecords == [kind : {"idle", "call", "alarm"}, to : Producers \cup {Nobody},
                reply : Replies \cup {Unset}, expires : Nat]
Rows == [Identities -> Binding \cup {Unset}]
ScopeRecords == [rows : Rows, count : 0..Room, alarm : Nat \cup {Unset}, tail : TailRecords,
                 firing : BOOLEAN, gap : BOOLEAN]
Early == {"new", "bound", "headers", "streaming"}
ProducerRecords == [pc : Early \cup {"body", "shown", "proving", "done", "failed"},
                    parent : ToolKnowledge, parents : SUBSET Producers,
                    claim : Granted \cup {Unset}, reply : Replies \cup {Unset}, expires : Nat]

IdentityTyped ==
    /\ scope \in ScopeRecords /\ plan \in Plans /\ producer \in [Producers -> ProducerRecords]
    /\ mail \subseteq Call /\ day \in 0..MaxDays

(* The request of a producer, and what it may have been told so far.       *)
RequestHeld(p) ==
    /\ producer[p].pc # "new" => plan.request[p] \in Request
    /\ producer[p].pc \in {"body", "shown", "proving"} => plan.request[p].id \in Responses
    /\ producer[p].claim # Unset => producer[p].pc \in {"shown", "proving", "done", "failed"}
                                    /\ plan.request[p].id \in Responses
    /\ producer[p].pc \in Early => producer[p].reply \notin Granted
    /\ \A q \in producer[p].parents : producer[q].pc # "new"

CallHeld(m) ==
    /\ producer[m.by].pc # "new"
    /\ m.claim # Unset => m.claim \in m.keys /\ m.claim = plan.request[m.by].id
                          /\ producer[m.by].pc \notin Early
    /\ m.action = "qualify" => m.claim # Unset

(* A row with a producer is its producer's: its route, and its own proof.  *)
BoundHeld(k, r) ==
    r # Unset =>
      /\ r.by = Nobody => r.proof = "none"
      /\ r.by # Nobody =>
           /\ producer[r.by].pc # "new" /\ plan.request[r.by].id = k
           /\ r.owner = plan.request[r.by].owner /\ r.proof \in {"pending", Proof(r.by)}

(* The row that was granted to p until e.                                  *)
GrantHeld(p, e, rows) ==
    e > day =>
      LET r == rows[plan.request[p].id] IN
      /\ r # Unset /\ r.expires >= e /\ r.owner = plan.request[p].owner
      /\ r.by \in {Nobody, p}

TailHeld ==
    scope.tail.reply \in Granted =>
      /\ scope.tail.to \in Producers /\ producer[scope.tail.to].pc \notin Early
      /\ plan.request[scope.tail.to].id \in Responses
      /\ GrantHeld(scope.tail.to, scope.tail.expires, scope.rows)
TailDone == scope.tail.kind = "idle" => scope.tail = Idle
ReplyHeld(p) ==
    producer[p].pc = "body" /\ producer[p].reply \in Granted =>
      GrantHeld(p, producer[p].expires, scope.rows)
ClaimHeld(p) == producer[p].claim # Unset => GrantHeld(p, producer[p].expires, scope.rows)

IdentityInv ==
    /\ IdentityTyped
    /\ \A p \in Producers : RequestHeld(p) /\ ReplyHeld(p) /\ ClaimHeld(p)
    /\ \A m \in mail : CallHeld(m)
    /\ \A k \in Identities : BoundHeld(k, scope.rows[k])
    /\ TailHeld /\ TailDone
    /\ InheritedIsProven /\ CountExact /\ AlarmArmed

LEMMA IdentityTypes ==
    ASSUME IdentityTyped
    PROVE  /\ scope.rows \in Rows /\ scope.count \in 0..Room /\ scope.alarm \in Nat \cup {Unset}
           /\ scope.tail \in TailRecords /\ scope.firing \in BOOLEAN /\ scope.gap \in BOOLEAN
           /\ day \in Nat /\ plan \in Plans
           /\ \A p \in Producers : producer[p] \in ProducerRecords
  BY ContinuationsType DEF IdentityTyped, ScopeRecords

(* The table.                                                              *)
LEMMA FewIdentities ==
    ASSUME NEW S \in SUBSET Identities
    PROVE  IsFiniteSet(S) /\ Cardinality(S) \in Nat
  BY FS_Subset, FS_CardinalityType, ContinuationsType

LEMMA DeletedRows ==
    ASSUME NEW rows \in Rows, NEW ks
    PROVE  /\ Deleted(rows, ks) \in Rows
           /\ \A k \in Identities : Deleted(rows, ks)[k] = IF k \in ks THEN Unset ELSE rows[k]
           /\ Bound(Deleted(rows, ks)) = Bound(rows) \ ks
  BY DEF Deleted, Rows, Bound

LEMMA CountDeleted ==
    ASSUME NEW rows \in Rows, NEW count \in 0..Room, count = Cardinality(Bound(rows)),
           NEW ks \in SUBSET Bound(rows)
    PROVE  /\ Remaining(count, ks) = Cardinality(Bound(Deleted(rows, ks)))
           /\ Remaining(count, ks) \in 0..Room
<1>1. IsFiniteSet(Bound(rows)) /\ Bound(rows) \in SUBSET Identities /\ ks \in SUBSET Identities
  BY FewIdentities DEF Bound
<1>2. Bound(rows) \cap ks = ks
  OBVIOUS
<1>3. Cardinality(Bound(rows) \ ks) = Cardinality(Bound(rows)) - Cardinality(ks)
  BY <1>1, <1>2, FS_Difference
<1>4. Cardinality(ks) \in Nat /\ Cardinality(Bound(rows) \ ks) \in Nat
  BY <1>1, FewIdentities
<1>5. Bound(Deleted(rows, ks)) = Bound(rows) \ ks
  BY DeletedRows
<1> QED
  BY <1>3, <1>4, <1>5, ContinuationsType DEF Remaining

Fresh(k, claim, w, o) ==
    [owner |-> o, by |-> IF k = claim THEN w ELSE Nobody,
     proof |-> IF k = claim THEN "pending" ELSE "none", expires |-> day + Keep]

LEMMA FreshRow ==
    ASSUME NEW k, NEW claim, NEW w \in Producers \cup {Nobody}, NEW o \in Routes, day \in Nat
    PROVE  /\ Fresh(k, claim, w, o) \in Binding /\ Fresh(k, claim, w, o) # Unset
           /\ Fresh(k, claim, w, o).owner = o /\ Fresh(k, claim, w, o).by \in {Nobody, w}
<1>1. Fresh(k, claim, w, o) \in Binding
  BY ContinuationsType DEF Fresh, Binding
<1> QED
  BY <1>1, UnsetIsNone DEF Fresh

(* register keeps what has not expired, counts what it leaves and binds    *)
(* what it stores.                                                         *)
TableCall(rows, count, ks, claim, w, o, batch) ==
    /\ rows \in Rows /\ count \in 0..Room /\ count = Cardinality(Bound(rows))
    /\ ks \in SUBSET Identities /\ w \in Producers \cup {Nobody} /\ o \in Routes /\ day \in Nat
    /\ batch \in Batches(Deleted(rows, ks \cap Expired(rows)))
TableAnswer(rows, ks, claim, w, o, r) ==
    /\ r.rows \in Rows /\ r.count \in 0..Room /\ r.count = Cardinality(Bound(r.rows))
    /\ r.reply \in {"stored", "conflict", "producer_conflict", "capacity"}
    /\ \A k \in Identities :
         /\ k \in Seen(rows) => r.rows[k] = rows[k]
         /\ \/ r.rows[k] = rows[k] \/ r.rows[k] = Unset
            \/ k \in ks /\ r.rows[k] = Fresh(k, claim, w, o)
    /\ r.reply = "stored" => \A k \in ks :
         /\ r.rows[k] # Unset /\ r.rows[k] \in Binding /\ r.rows[k].owner = o
         /\ r.rows[k].by \in {Nobody, w}

LEMMA RegisteredRows ==
    ASSUME NEW rows, NEW count, NEW ks, NEW claim, NEW w, NEW o, NEW batch,
           TableCall(rows, count, ks, claim, w, o, batch)
    PROVE  TableAnswer(rows, ks, claim, w, o, Registered(rows, count, ks, claim, w, o, batch))
<1> DEFINE r == Registered(rows, count, ks, claim, w, o, batch)
<1> SUFFICES TableAnswer(rows, ks, claim, w, o, r)
  OBVIOUS
<1>0. /\ rows \in Rows /\ count \in 0..Room /\ count = Cardinality(Bound(rows))
      /\ ks \in SUBSET Identities /\ w \in Producers \cup {Nobody} /\ o \in Routes /\ day \in Nat
      /\ batch \in Batches(Deleted(rows, ks \cap Expired(rows)))
  BY DEF TableCall
<1> DEFINE missing == ks \ Seen(rows)
           stale == ks \cap Expired(rows)
           gone == stale \cup batch
           left == Deleted(rows, gone)
           number == Remaining(count, gone)
<1>1. Bound(rows) \subseteq Identities /\ Seen(rows) \subseteq Bound(rows)
      /\ Expired(rows) = Bound(rows) \ Seen(rows)
  BY DEF Bound, Seen, Expired
<1>2. batch \subseteq Bound(rows) \ Seen(rows)
  <2>1. batch \subseteq Expired(Deleted(rows, stale))
    BY <1>0 DEF Batches
  <2>2. ASSUME NEW k \in batch
        PROVE  k \in Bound(rows) \ Seen(rows)
    <3>1. k \in Bound(Deleted(rows, stale)) /\ k \notin Seen(Deleted(rows, stale)) /\ k \in Identities
      BY <2>1 DEF Expired, Bound
    <3>2. k \in Bound(rows) /\ k \notin stale
      BY <1>0, <3>1, DeletedRows
    <3>3. Deleted(rows, stale)[k] = rows[k]
      BY <1>0, <3>1, <3>2, DeletedRows
    <3> QED
      BY <3>1, <3>2, <3>3 DEF Seen
  <2> QED
    BY <2>2
<1>3. gone \in SUBSET Bound(rows) /\ gone \cap Seen(rows) = {}
  BY <1>1, <1>2
<1>4. /\ left \in Rows /\ Bound(left) = Bound(rows) \ gone
      /\ \A k \in Identities : left[k] = IF k \in gone THEN Unset ELSE rows[k]
  BY <1>0, DeletedRows
<1>5. number = Cardinality(Bound(left)) /\ number \in 0..Room
  BY <1>0, <1>3, CountDeleted
<1> DEFINE full == Inserted(left, missing, claim, w, o)
<1>6. /\ full \in Rows /\ Bound(full) = Bound(left) \cup missing
      /\ \A k \in Identities : full[k] = IF k \in missing THEN Fresh(k, claim, w, o) ELSE left[k]
  <2>1. \A k \in Identities : Fresh(k, claim, w, o) \in Binding /\ Fresh(k, claim, w, o) # Unset
    BY <1>0, FreshRow
  <2>2. full = [k \in Identities |-> IF k \notin missing THEN left[k] ELSE Fresh(k, claim, w, o)]
    BY DEF Inserted, Fresh
  <2>3. left \in Rows /\ missing \in SUBSET Identities
    BY <1>0, <1>4
  <2> HIDE DEF left, missing, full
  <2>4. full \in Rows
    BY <2>1, <2>2, <2>3 DEF Rows
  <2>5. Bound(full) = Bound(left) \cup missing
    BY <2>1, <2>2, <2>3 DEF Bound
  <2> QED
    BY <2>2, <2>4, <2>5
<1>7. Cardinality(Bound(full)) = number + Cardinality(missing) /\ Cardinality(missing) \in Nat
  <2>1. Bound(left) \cap missing = {}
    BY <1>1, <1>4
  <2>0. Bound(left) \in SUBSET Identities /\ missing \in SUBSET Identities
    BY <1>0, <1>1, <1>4
  <2> HIDE DEF left, missing, number, full
  <2>2. IsFiniteSet(Bound(left)) /\ IsFiniteSet(missing) /\ Cardinality(missing) \in Nat
        /\ Cardinality(Bound(left)) \in Nat
    BY <2>0, FewIdentities
  <2>3. Cardinality(Bound(left) \cup missing)
          = Cardinality(Bound(left)) + Cardinality(missing) - Cardinality(Bound(left) \cap missing)
    BY <2>2, FS_Union
  <2>4. Cardinality(Bound(left) \cap missing) = 0
    BY <2>1, FS_EmptySet
  <2>5. Cardinality(Bound(full)) = Cardinality(Bound(left) \cup missing)
    BY <1>6
  <2>6. number = Cardinality(Bound(left))
    BY <1>5
  <2> QED
    BY <2>2, <2>3, <2>4, <2>5, <2>6
<1> HIDE DEF missing, gone, left, number, full
<1>8. r = IF OwnerConflict(rows, ks, o) THEN [rows |-> rows, count |-> count, reply |-> "conflict"]
          ELSE IF ProducerConflict(rows, ks, claim, w)
               THEN [rows |-> rows, count |-> count, reply |-> "producer_conflict"]
          ELSE IF number + Cardinality(missing) > Room
               THEN [rows |-> left, count |-> number, reply |-> "capacity"]
          ELSE [rows |-> full, count |-> number + Cardinality(missing), reply |-> "stored"]
  BY DEF Registered, missing, gone, left, number, full
<1> HIDE DEF r
<1>9. CASE OwnerConflict(rows, ks, o) \/ ProducerConflict(rows, ks, claim, w)
  <2>1. r.rows = rows /\ r.count = count /\ r.reply \in {"conflict", "producer_conflict"}
    BY <1>8, <1>9
  <2> QED
    BY <1>0, <2>1 DEF TableAnswer
<1>10. CASE /\ ~OwnerConflict(rows, ks, o) /\ ~ProducerConflict(rows, ks, claim, w)
            /\ number + Cardinality(missing) > Room
  <2>1. r.rows = left /\ r.count = number /\ r.reply = "capacity"
    BY <1>8, <1>10
  <2>2. \A k \in Identities : (k \in Seen(rows) => r.rows[k] = rows[k])
                             /\ (r.rows[k] = rows[k] \/ r.rows[k] = Unset)
    BY <1>3, <1>4, <2>1
  <2> QED
    BY <1>4, <1>5, <2>1, <2>2 DEF TableAnswer
<1>11. CASE /\ ~OwnerConflict(rows, ks, o) /\ ~ProducerConflict(rows, ks, claim, w)
            /\ ~(number + Cardinality(missing) > Room)
  <2>1. r.rows = full /\ r.count = number + Cardinality(missing) /\ r.reply = "stored"
    BY <1>8, <1>11
  <2>2. r.count \in 0..Room
    BY <1>5, <1>7, <1>11, <2>1, ContinuationsType
  <2>3. ASSUME NEW k \in Identities
        PROVE  /\ k \in Seen(rows) => r.rows[k] = rows[k]
               /\ r.rows[k] = rows[k] \/ r.rows[k] = Unset
                  \/ (k \in ks /\ r.rows[k] = Fresh(k, claim, w, o))
    BY <1>3, <1>4, <1>6, <2>1 DEF missing
  <2>4. ASSUME NEW k \in ks
        PROVE  /\ r.rows[k] # Unset /\ r.rows[k] \in Binding /\ r.rows[k].owner = o
               /\ r.rows[k].by \in {Nobody, w}
    <3>1. CASE k \in Seen(rows)
      <4>1. r.rows[k] = rows[k] /\ rows[k] # Unset /\ rows[k] \in Binding
        BY <1>0, <2>3, <3>1 DEF Seen, Bound, Rows
      <4> QED
        BY <1>11, <3>1, <4>1 DEF OwnerConflict, ProducerConflict
    <3>2. CASE k \notin Seen(rows)
      <4>1. r.rows[k] = Fresh(k, claim, w, o)
        BY <1>0, <1>6, <2>1, <3>2 DEF missing
      <4> QED
        BY <1>0, <4>1, FreshRow
    <3> QED
      BY <3>1, <3>2
  <2>5. r.rows \in Rows /\ r.count = Cardinality(Bound(r.rows))
    BY <1>6, <1>7, <2>1
  <2> QED
    BY <2>1, <2>2, <2>3, <2>4, <2>5 DEF TableAnswer
<1> QED
  BY <1>9, <1>10, <1>11

(* A producer moves: the table, the clock and the other producers stay.    *)
Told(p, z) ==
    /\ z \in ProducerRecords /\ z.pc # "new" /\ plan.request[p] \in Request
    /\ z.expires = producer[p].expires
    /\ producer[p].pc \notin Early => z.pc \notin Early
    /\ z.pc \in {"body", "shown", "proving"} \/ z.claim # Unset => plan.request[p].id \in Responses
    /\ z.claim # Unset => z.pc \in {"shown", "proving", "done", "failed"}
                          /\ GrantHeld(p, z.expires, scope.rows)
    /\ z.pc \in Early => z.reply \notin Granted
    /\ z.pc = "body" /\ z.reply \in Granted => GrantHeld(p, z.expires, scope.rows)
    /\ IF producer[p].pc # "new" THEN z.parent = producer[p].parent /\ z.parents = producer[p].parents
       ELSE \A q \in z.parents :
              q # p /\ producer[q].pc # "new" /\ (z.parent # "unknown" => Proof(q) = z.parent)

LEMMA ProducerMoves ==
    ASSUME IdentityInv, NEW p \in Producers, NEW z, Told(p, z),
           producer' = [producer EXCEPT ![p] = z], UNCHANGED <<scope, plan, day>>,
           mail' \subseteq Call,
           \A m \in mail' \ mail : m.by = p /\ (m.claim # Unset => m.claim \in m.keys
               /\ m.claim = plan.request[p].id /\ z.pc \notin Early)
               /\ (m.action = "qualify" => m.claim # Unset)
    PROVE  IdentityInv'
<1>1. /\ IdentityTyped /\ TailHeld /\ TailDone /\ InheritedIsProven /\ CountExact /\ AlarmArmed
      /\ \A q \in Producers : RequestHeld(q) /\ ReplyHeld(q) /\ ClaimHeld(q)
      /\ \A m \in mail : CallHeld(m)
      /\ \A k \in Identities : BoundHeld(k, scope.rows[k])
  BY DEF IdentityInv
<1>2. /\ \A q \in Producers : producer[q] \in ProducerRecords /\ producer'[q] \in ProducerRecords
      /\ producer'[p] = z /\ \A q \in Producers : q # p => producer'[q] = producer[q]
      /\ producer' \in [Producers -> ProducerRecords]
      /\ scope' = scope /\ plan' = plan /\ day' = day
      /\ z.pc # "new"
  BY <1>1 DEF IdentityTyped, Told
<1>3. \A q \in Producers :
        /\ producer'[q].pc = "new" => producer[q].pc = "new"
        /\ producer[q].pc \notin Early => producer'[q].pc \notin Early
        /\ producer[q].pc # "new" =>
             producer'[q].parent = producer[q].parent /\ producer'[q].parents = producer[q].parents
             /\ Proof(q)' = Proof(q)
  BY <1>2 DEF Told, Proof
<1>4. IdentityTyped'
  BY <1>1, <1>2 DEF IdentityTyped
<1>5. \A q \in Producers, e \in Nat : GrantHeld(q, e, scope.rows) => GrantHeld(q, e, scope.rows)'
  BY <1>2 DEF GrantHeld
<1>6. ASSUME NEW q \in Producers
      PROVE  RequestHeld(q)' /\ ReplyHeld(q)' /\ ClaimHeld(q)'
  <2>1. RequestHeld(q) /\ ReplyHeld(q) /\ ClaimHeld(q) /\ producer'[q].expires \in Nat
        /\ producer'[q].parents \subseteq Producers
    BY <1>1, <1>2 DEF ProducerRecords
  <2>2. CASE q = p
    <3>1. \A x \in z.parents : producer'[x].pc # "new"
      <4>1. CASE producer[p].pc = "new"
        BY <1>2, <1>3, <2>1, <2>2, <4>1 DEF Told
      <4>2. CASE producer[p].pc # "new"
        BY <1>2, <1>3, <2>1, <2>2, <4>2 DEF Told, RequestHeld
      <4> QED
        BY <4>1, <4>2
    <3>2. RequestHeld(q)'
      BY <1>2, <2>2, <3>1 DEF Told, RequestHeld
    <3>3. ReplyHeld(q)' /\ ClaimHeld(q)'
      BY <1>2, <1>5, <2>1, <2>2 DEF Told, ReplyHeld, ClaimHeld
    <3> QED
      BY <3>2, <3>3
  <2>3. CASE q # p
    <3>1. RequestHeld(q)'
      BY <1>2, <1>3, <2>1, <2>3 DEF RequestHeld
    <3>2. ReplyHeld(q)' /\ ClaimHeld(q)'
      BY <1>2, <1>5, <2>1, <2>3 DEF ReplyHeld, ClaimHeld
    <3> QED
      BY <3>1, <3>2
  <2> QED
    BY <2>2, <2>3
<1>7. ASSUME NEW m \in mail'
      PROVE  CallHeld(m)'
  <2>1. m.by \in Producers
    BY DEF Call
  <2>2. CASE m \in mail
    <3>1. CallHeld(m)
      BY <1>1, <2>2
    <3> QED
      BY <1>2, <1>3, <2>1, <3>1 DEF CallHeld
  <2>3. CASE m \notin mail
    BY <1>2, <2>3 DEF CallHeld, Told
  <2> QED
    BY <2>2, <2>3
<1>8. ASSUME NEW k \in Identities
      PROVE  BoundHeld(k, scope.rows[k])'
  <2>1. BoundHeld(k, scope.rows[k])
    BY <1>1
  <2>2. scope.rows[k] \in Binding \cup {Unset}
    BY <1>1, IdentityTypes DEF Rows
  <2>3. CASE scope.rows[k] = Unset \/ scope.rows[k].by = Nobody
    BY <1>2, <2>1, <2>3 DEF BoundHeld
  <2>4. CASE scope.rows[k] # Unset /\ scope.rows[k].by # Nobody
    <3>1. scope.rows[k].by \in Producers /\ producer[scope.rows[k].by].pc # "new"
      BY <2>1, <2>2, <2>4 DEF BoundHeld, Binding
    <3>2. Proof(scope.rows[k].by)' = Proof(scope.rows[k].by)
          /\ producer'[scope.rows[k].by].pc # "new"
      BY <1>2, <1>3, <3>1 DEF Proof
    <3> QED
      BY <1>2, <2>1, <2>4, <3>1, <3>2 DEF BoundHeld
  <2> QED
    BY <2>3, <2>4
<1>9. TailHeld'
  <2>1. scope.tail.expires \in Nat
    BY <1>1, IdentityTypes DEF TailRecords
  <2>2. CASE scope.tail.reply \in Granted
    <3>1. /\ scope.tail.to \in Producers /\ producer[scope.tail.to].pc \notin Early
          /\ plan.request[scope.tail.to].id \in Responses
          /\ GrantHeld(scope.tail.to, scope.tail.expires, scope.rows)
      BY <1>1, <2>2 DEF TailHeld
    <3>2. producer'[scope.tail.to].pc \notin Early
      BY <1>3, <3>1
    <3> QED
      BY <1>2, <3>1, <3>2 DEF TailHeld, GrantHeld
  <2>3. CASE scope.tail.reply \notin Granted
    BY <1>2, <2>3 DEF TailHeld
  <2> QED
    BY <2>2, <2>3
<1>10. InheritedIsProven'
  <2> SUFFICES ASSUME NEW q \in Producers, producer'[q].pc # "new", producer'[q].parent # "unknown",
                      NEW x \in producer'[q].parents
               PROVE  Proof(x)' = producer'[q].parent
    BY DEF InheritedIsProven
  <2>1. x \in Producers
    BY <1>2 DEF ProducerRecords
  <2>2. CASE producer[q].pc # "new"
    <3>1. x \in producer[q].parents /\ producer[q].parent = producer'[q].parent
      BY <1>3, <2>2
    <3>2. producer[x].pc # "new" /\ Proof(x) = producer[q].parent
      BY <1>1, <2>2, <3>1 DEF RequestHeld, InheritedIsProven
    <3> QED
      BY <1>3, <2>1, <3>1, <3>2
  <2>3. CASE producer[q].pc = "new"
    <3>1. q = p
      BY <1>2, <2>3
    <3>2. producer[x].pc # "new" /\ Proof(x) = producer'[q].parent
      BY <1>2, <2>3, <3>1 DEF Told
    <3> QED
      BY <1>3, <2>1, <3>2
  <2> QED
    BY <2>2, <2>3
<1>11. CountExact' /\ AlarmArmed' /\ TailDone'
  BY <1>1, <1>2 DEF CountExact, AlarmArmed, Bound, Free, NextDeadline, Idle, TailDone
<1> QED
  BY <1>4, <1>6, <1>7, <1>8, <1>9, <1>10, <1>11 DEF IdentityInv

LEMMA ResolveStep ==
    ASSUME IdentityInv, NEW p \in Producers, Resolve(p)
    PROVE  IdentityInv'
<1> DEFINE rows == scope.rows
           ks == plan.request[p].continues
           bound == ks \subseteq Seen(rows) /\ \A k \in ks : rows[k].owner = plan.request[p].owner
           parent == ks \cap Responses
           final == {rows[k].proof : k \in parent \cap Seen(rows)} \cap ToolKnowledge
           retains == IF parent = {} THEN "token_only"
                      ELSE IF final = {} THEN "unknown" ELSE CHOOSE x \in final : TRUE
           shown == {q \in Producers : Shown(q) /\ plan.request[q].id \in parent}
           z == [producer[p] EXCEPT !.pc = IF bound THEN "bound" ELSE "failed",
                                    !.parent = retains, !.parents = shown]
<1>1. /\ IdentityTyped /\ RequestHeld(p) /\ producer[p] \in ProducerRecords
      /\ producer[p].pc = "new" /\ plan.request[p] # Unset /\ plan \in Plans
      /\ UNCHANGED <<scope, plan, mail, day>> /\ mail \subseteq Call
  BY IdentityTypes DEF IdentityInv, Resolve, IdentityTyped
<1>2. producer' = [producer EXCEPT ![p] = z]
  BY DEF Resolve
<1>3. /\ plan.request[p] \in Request
      /\ \A j, k \in parent : j = k
  BY <1>1, PlansType
<1>4. retains \in ToolKnowledge
  <2>1. CASE parent # {} /\ final # {}
    <3>1. PICK x \in final : TRUE
      BY <2>1
    <3>2. retains \in final
      BY <2>1, <3>1
    <3> QED
      BY <3>2
  <2> QED
    BY <2>1 DEF ToolKnowledge
<1>5. ASSUME NEW q \in shown
      PROVE  /\ q # p /\ producer[q].pc # "new"
             /\ retains # "unknown" => Proof(q) = retains
  <2>1. /\ q \in Producers /\ RequestHeld(q) /\ ClaimHeld(q) /\ producer[q].claim # Unset
        /\ producer[q].expires > day /\ plan.request[q].id \in parent
    BY DEF IdentityInv, Shown
  <2>2. producer[q].pc # "new" /\ q # p
    BY <1>1, <2>1 DEF RequestHeld
  <2> DEFINE k == plan.request[q].id
  <2>3. /\ k \in parent /\ k \in Identities /\ rows[k] # Unset
        /\ rows[k].by \in {Nobody, q} /\ BoundHeld(k, rows[k])
    BY <2>1 DEF ClaimHeld, GrantHeld, IdentityInv, Identities
  <2>4. CASE final = {}
    BY <2>2, <2>3, <2>4
  <2>5. CASE final # {}
    <3>1. retains \in final
      BY <2>3, <2>5
    <3>2. PICK j \in parent : retains = rows[j].proof
      BY <3>1
    <3>3. retains = rows[k].proof
      BY <1>3, <2>3, <3>2
    <3>4. rows[k].proof \in ToolKnowledge
      BY <3>1, <3>3
    <3>5. q # Nobody
      BY <2>1, ContinuationsType
    <3>6. rows[k].by # Nobody
      BY <2>3, <3>4 DEF BoundHeld, ToolKnowledge
    <3>7. rows[k].by = q /\ rows[k].proof \in {"pending", Proof(q)}
      BY <2>3, <3>6 DEF BoundHeld
    <3> QED
      BY <2>2, <3>3, <3>4, <3>7 DEF ToolKnowledge
  <2> QED
    BY <2>4, <2>5
<1> HIDE DEF retains, shown, bound
<1>6. /\ z.pc = (IF bound THEN "bound" ELSE "failed") /\ z.parent = retains /\ z.parents = shown
      /\ z.claim = producer[p].claim /\ z.reply = producer[p].reply
      /\ z.expires = producer[p].expires
  BY <1>1 DEF ProducerRecords
<1>7. shown \subseteq Producers
  BY DEF shown
<1>8. z \in ProducerRecords
  BY <1>1, <1>4, <1>7 DEF ProducerRecords, Early
<1>9. producer[p].claim = Unset /\ producer[p].reply \notin Granted
  BY <1>1 DEF RequestHeld, Early
<1> HIDE DEF z
<1>10. Told(p, z)
  BY <1>1, <1>3, <1>5, <1>6, <1>8, <1>9 DEF Told, Early
<1> QED
  BY <1>1, <1>2, <1>10, ProducerMoves

LEMMA HeadersStep ==
    ASSUME IdentityInv, NEW p \in Producers, Headers(p)
    PROVE  IdentityInv'
<1> DEFINE turn == plan.request[p].turn
           z == [producer[p] EXCEPT !.pc = IF turn = {} THEN "streaming" ELSE "headers"]
           m == [by |-> p, action |-> "register", keys |-> turn, claim |-> Unset]
<1>1. /\ RequestHeld(p) /\ producer[p] \in ProducerRecords
      /\ producer[p].pc = "bound" /\ UNCHANGED <<scope, plan, day>> /\ mail \subseteq Call
      /\ mail' = mail \/ mail' = mail \cup {m}
  BY IdentityTypes DEF IdentityInv, Headers, IdentityTyped, Flush
<1>2. producer' = [producer EXCEPT ![p] = z]
  BY DEF Headers
<1>3. plan.request[p] \in Request
  BY <1>1 DEF RequestHeld
<1>4. m \in Call
  BY <1>3 DEF Call, Request, Identities
<1>5. Told(p, z)
  <2>1. z \in ProducerRecords
    BY <1>1 DEF ProducerRecords, Early
  <2>2. /\ z.pc \in {"streaming", "headers"} /\ z.parent = producer[p].parent
        /\ z.parents = producer[p].parents /\ z.claim = producer[p].claim
        /\ z.reply = producer[p].reply /\ z.expires = producer[p].expires
    BY <1>1 DEF ProducerRecords
  <2>3. producer[p].claim = Unset /\ producer[p].reply \notin Granted
    BY <1>1 DEF RequestHeld, Early
  <2> HIDE DEF z
  <2> QED
    BY <1>1, <1>3, <2>1, <2>2, <2>3 DEF Told, Early
<1> HIDE DEF z
<1>6. \A x \in mail' \ mail : x = m
  BY <1>1
<1>7. mail' \subseteq Call
  BY <1>1, <1>4
<1>8. \A x \in mail' \ mail : x.by = p /\ (x.claim # Unset => x.claim \in x.keys
               /\ x.claim = plan.request[p].id /\ z.pc \notin Early)
               /\ (x.action = "qualify" => x.claim # Unset)
  BY <1>6
<1> QED
  BY <1>1, <1>2, <1>5, <1>7, <1>8, ProducerMoves

LEMMA IdentifyStep ==
    ASSUME IdentityInv, NEW p \in Producers, Identify(p)
    PROVE  IdentityInv'
<1> DEFINE id == plan.request[p].id
           z == [producer[p] EXCEPT !.pc = "body"]
           m == [by |-> p, action |-> "register", keys |-> plan.request[p].turn \cup {id},
                 claim |-> id]
<1>1. /\ RequestHeld(p) /\ producer[p] \in ProducerRecords /\ id # Unset
      /\ producer[p].pc = "streaming" /\ UNCHANGED <<scope, plan, day>> /\ mail \subseteq Call
      /\ mail' = mail \cup {m}
  BY IdentityTypes DEF IdentityInv, Identify, IdentityTyped, Flush
<1>2. producer' = [producer EXCEPT ![p] = z]
  BY DEF Identify
<1>3. plan.request[p] \in Request /\ id \in Responses
  BY <1>1 DEF RequestHeld, Request
<1>4. m \in Call
  BY <1>3 DEF Call, Request, Identities
<1>5. z.pc = "body"
  BY <1>1 DEF ProducerRecords
<1>6. Told(p, z)
  <2>1. z \in ProducerRecords
    BY <1>1 DEF ProducerRecords, Early
  <2>2. /\ z.parent = producer[p].parent
        /\ z.parents = producer[p].parents /\ z.claim = producer[p].claim
        /\ z.reply = producer[p].reply /\ z.expires = producer[p].expires
    BY <1>1 DEF ProducerRecords
  <2>3. producer[p].claim = Unset /\ producer[p].reply \notin Granted
    BY <1>1 DEF RequestHeld, Early
  <2> HIDE DEF z
  <2> QED
    BY <1>1, <1>3, <1>5, <2>1, <2>2, <2>3 DEF Told, Early
<1> HIDE DEF z
<1>7. \A x \in mail' \ mail : x = m
  BY <1>1
<1>8. mail' \subseteq Call
  BY <1>1, <1>4
<1>9. \A x \in mail' \ mail : x.by = p /\ (x.claim # Unset => x.claim \in x.keys
               /\ x.claim = plan.request[p].id /\ z.pc \notin Early)
               /\ (x.action = "qualify" => x.claim # Unset)
  BY <1>1, <1>5, <1>7 DEF Early
<1> QED
  BY <1>1, <1>2, <1>6, <1>8, <1>9, ProducerMoves

LEMMA FlushAnsweredStep ==
    ASSUME IdentityInv, NEW p \in Producers, FlushAnswered(p)
    PROVE  IdentityInv'
<1> DEFINE reply == producer[p].reply
           owned == reply \in {"owned", "legacy_unknown"}
           next == IF producer[p].pc = "headers" THEN "streaming" ELSE "shown"
           pc == IF reply = "stored" \/ owned THEN next ELSE "failed"
           claim == IF owned THEN reply ELSE producer[p].claim
           z == [producer[p] EXCEPT !.reply = Unset, !.pc = pc, !.claim = claim]
<1>1. /\ RequestHeld(p) /\ ReplyHeld(p) /\ ClaimHeld(p) /\ producer[p] \in ProducerRecords
      /\ producer[p].pc \in {"headers", "body"} /\ UNCHANGED <<scope, plan, day, mail>>
      /\ mail \subseteq Call /\ reply # Unset
  BY IdentityTypes DEF IdentityInv, FlushAnswered, IdentityTyped
<1>2. producer' = [producer EXCEPT ![p] = z]
  BY DEF FlushAnswered
<1>3. plan.request[p] \in Request
  BY <1>1 DEF RequestHeld
<1>4. Told(p, z)
  <2>1. pc \in {"failed", "streaming", "shown"} /\ claim \in Granted \cup {Unset}
    BY <1>1 DEF ProducerRecords, Granted
  <2>2. producer[p].claim = Unset
    BY <1>1 DEF RequestHeld
  <2>3. CASE producer[p].pc = "headers"
    <3>1. reply \notin Granted
      BY <1>1, <2>3 DEF RequestHeld, Early
    <3>2. claim = Unset /\ pc \in {"failed", "streaming"}
      BY <2>2, <2>3, <3>1 DEF Granted
    <3> HIDE DEF pc, claim
    <3>3. z \in ProducerRecords
      BY <1>1, <2>1 DEF ProducerRecords, Early
    <3>4. /\ z.pc = pc /\ z.claim = claim /\ z.reply = Unset /\ z.parent = producer[p].parent
          /\ z.parents = producer[p].parents /\ z.expires = producer[p].expires
      BY <1>1 DEF ProducerRecords
    <3>5. Unset \notin Granted
      BY UnsetIsNone DEF Granted
    <3> HIDE DEF z
    <3> QED
      BY <1>3, <2>3, <3>2, <3>3, <3>4, <3>5 DEF Told, Early
  <2>4. CASE producer[p].pc = "body"
    <3>1. pc \in {"failed", "shown"} /\ plan.request[p].id \in Responses
      BY <1>1, <2>4 DEF RequestHeld
    <3>2. claim # Unset => GrantHeld(p, producer[p].expires, scope.rows)
      BY <1>1, <2>2, <2>4 DEF ReplyHeld, Granted
    <3> HIDE DEF pc, claim
    <3>3. z \in ProducerRecords
      BY <1>1, <2>1 DEF ProducerRecords, Early
    <3>4. /\ z.pc = pc /\ z.claim = claim /\ z.reply = Unset /\ z.parent = producer[p].parent
          /\ z.parents = producer[p].parents /\ z.expires = producer[p].expires
      BY <1>1 DEF ProducerRecords
    <3> HIDE DEF z
    <3> QED
      BY <1>3, <2>4, <3>1, <3>2, <3>3, <3>4 DEF Told, Early
  <2> QED
    BY <1>1, <2>3, <2>4
<1> HIDE DEF z
<1> QED
  BY <1>1, <1>2, <1>4, ProducerMoves

(* The request ends, or goes on without news of an identity.               *)
LEMMA ProducerEnds ==
    ASSUME IdentityInv, NEW p \in Producers, producer[p].pc \notin {"new", "bound", "streaming"},
           NEW pc, pc \in {"proving", "done", "failed"}, pc = "proving" => producer[p].pc = "shown",
           NEW reply, reply \in {producer[p].reply, Unset}
    PROVE  Told(p, [producer[p] EXCEPT !.pc = pc, !.reply = reply])
<1> DEFINE z == [producer[p] EXCEPT !.pc = pc, !.reply = reply]
<1>1. RequestHeld(p) /\ ClaimHeld(p) /\ producer[p] \in ProducerRecords
  BY IdentityTypes DEF IdentityInv
<1>2. plan.request[p] \in Request
  BY <1>1 DEF RequestHeld
<1>3. z \in ProducerRecords
  BY <1>1 DEF ProducerRecords
<1>4. /\ z.pc = pc /\ z.claim = producer[p].claim /\ z.parent = producer[p].parent
      /\ z.parents = producer[p].parents /\ z.expires = producer[p].expires
  BY <1>1 DEF ProducerRecords
<1> HIDE DEF z
<1>5. Told(p, z)
  BY <1>1, <1>2, <1>3, <1>4 DEF Told, Early, RequestHeld, ClaimHeld
<1> QED
  BY <1>5 DEF z

LEMMA QualifyStep ==
    ASSUME IdentityInv, NEW p \in Producers, Qualify(p)
    PROVE  IdentityInv'
<1> DEFINE id == plan.request[p].id
           m == [by |-> p, action |-> "qualify", keys |-> {id}, claim |-> id]
           pc == IF producer[p].claim = "owned" THEN "proving" ELSE "done"
           z == [producer[p] EXCEPT !.pc = pc, !.reply = producer[p].reply]
<1>1. /\ RequestHeld(p) /\ producer[p] \in ProducerRecords
      /\ producer[p].pc = "shown" /\ UNCHANGED <<scope, plan, day>> /\ mail \subseteq Call
      /\ IF producer[p].claim = "owned" THEN mail' = mail \cup {m} ELSE mail' = mail
  BY IdentityTypes DEF IdentityInv, Qualify, IdentityTyped
<1>2. producer' = [producer EXCEPT ![p] = z]
  <2>1. producer' = [producer EXCEPT ![p].pc = pc]
    BY DEF Qualify
  <2>2. z = [producer[p] EXCEPT !.pc = pc]
    BY <1>1 DEF ProducerRecords
  <2> QED
    BY <2>1, <2>2
<1>3. plan.request[p] \in Request /\ id \in Responses
  BY <1>1 DEF RequestHeld
<1>4. m \in Call
  BY <1>3 DEF Call, Request, Identities
<1>5. Told(p, z)
  BY <1>1, ProducerEnds
<1>6. z.pc \notin Early
  BY <1>1 DEF Early, ProducerRecords
<1> HIDE DEF z
<1>7. \A x \in mail' \ mail : x = m
  BY <1>1
<1>8. mail' \subseteq Call
  BY <1>1, <1>4
<1>9. id # Unset
  BY <1>3, ContinuationsType DEF Identities
<1>10. \A x \in mail' \ mail : x.by = p /\ (x.claim # Unset => x.claim \in x.keys
               /\ x.claim = plan.request[p].id /\ z.pc \notin Early)
               /\ (x.action = "qualify" => x.claim # Unset)
  BY <1>6, <1>7, <1>9
<1> QED
  BY <1>1, <1>2, <1>5, <1>8, <1>10, ProducerMoves

LEMMA QualifyAnsweredStep ==
    ASSUME IdentityInv, NEW p \in Producers, QualifyAnswered(p)
    PROVE  IdentityInv'
<1> DEFINE pc == IF producer[p].reply \in {"qualified", "unavailable"} THEN "done" ELSE "failed"
           z == [producer[p] EXCEPT !.pc = pc, !.reply = Unset]
<1>1. /\ producer[p] \in ProducerRecords /\ producer[p].pc = "proving"
      /\ UNCHANGED <<scope, plan, mail, day>> /\ mail \subseteq Call
  BY IdentityTypes DEF IdentityInv, QualifyAnswered, IdentityTyped
<1>2. producer' = [producer EXCEPT ![p] = z]
  <2>1. producer' = [producer EXCEPT ![p] = [producer[p] EXCEPT !.reply = Unset, !.pc = pc]]
    BY DEF QualifyAnswered
  <2>2. z = [producer[p] EXCEPT !.reply = Unset, !.pc = pc]
    BY <1>1 DEF ProducerRecords
  <2> QED
    BY <2>1, <2>2
<1>3. Told(p, z)
  BY <1>1, ProducerEnds
<1> HIDE DEF z
<1> QED
  BY <1>1, <1>2, <1>3, ProducerMoves

LEMMA GiveUpStep ==
    ASSUME IdentityInv, NEW p \in Producers, GiveUp(p)
    PROVE  IdentityInv'
<1> DEFINE pc == IF producer[p].pc \in {"headers", "body"} THEN "failed" ELSE "done"
           z == [producer[p] EXCEPT !.pc = pc, !.reply = producer[p].reply]
<1>1. /\ producer[p] \in ProducerRecords /\ producer[p].pc \in {"headers", "body", "shown", "proving"}
      /\ UNCHANGED <<scope, plan, mail, day>> /\ mail \subseteq Call
  BY IdentityTypes DEF IdentityInv, GiveUp, IdentityTyped
<1>2. producer' = [producer EXCEPT ![p] = z]
  <2>1. producer' = [producer EXCEPT ![p].pc = pc]
    BY DEF GiveUp
  <2>2. z = [producer[p] EXCEPT !.pc = pc]
    BY <1>1 DEF ProducerRecords
  <2> QED
    BY <2>1, <2>2
<1>3. Told(p, z)
  BY <1>1, ProducerEnds
<1> HIDE DEF z
<1> QED
  BY <1>1, <1>2, <1>3, ProducerMoves

(* A call reaches the table, or the alarm does: what has not expired stays *)
(* with its route, its producer and its date.                              *)
LEMMA TableMoves ==
    ASSUME IdentityInv, scope' \in ScopeRecords,
           scope'.count = Cardinality(Bound(scope'.rows)), scope'.tail.kind # "idle",
           scope'.tail.reply \in Granted =>
             /\ scope'.tail.to \in Producers /\ producer[scope'.tail.to].pc \notin Early
             /\ plan.request[scope'.tail.to].id \in Responses
             /\ GrantHeld(scope'.tail.to, scope'.tail.expires, scope'.rows),
           \A k \in Identities : scope.rows[k] # Unset /\ scope.rows[k].expires > day =>
             /\ scope'.rows[k] # Unset /\ scope'.rows[k].owner = scope.rows[k].owner
             /\ scope'.rows[k].by = scope.rows[k].by
             /\ scope'.rows[k].expires = scope.rows[k].expires,
           \A k \in Identities : BoundHeld(k, scope'.rows[k]),
           UNCHANGED <<plan, producer, day>>, mail' \subseteq mail
    PROVE  IdentityInv'
<1>1. /\ IdentityTyped /\ InheritedIsProven
      /\ \A q \in Producers : RequestHeld(q) /\ ReplyHeld(q) /\ ClaimHeld(q)
      /\ \A m \in mail : CallHeld(m)
  BY DEF IdentityInv
<1>2. plan' = plan /\ producer' = producer /\ day' = day /\ day \in Nat
  BY <1>1, IdentityTypes
<1>3. IdentityTyped'
  BY <1>1, <1>2 DEF IdentityTyped
<1>4. ASSUME NEW q \in Producers, plan.request[q].id \in Responses, NEW e \in Nat,
             GrantHeld(q, e, scope.rows)
      PROVE  GrantHeld(q, e, scope.rows)'
  <2> DEFINE k == plan.request[q].id
  <2>1. SUFFICES ASSUME e > day
                 PROVE  /\ scope'.rows[k] # Unset /\ scope'.rows[k].expires >= e
                        /\ scope'.rows[k].owner = plan.request[q].owner
                        /\ scope'.rows[k].by \in {Nobody, q}
    BY <1>2 DEF GrantHeld
  <2>2. /\ k \in Identities /\ scope.rows[k] # Unset /\ scope.rows[k].expires >= e
        /\ scope.rows[k].owner = plan.request[q].owner /\ scope.rows[k].by \in {Nobody, q}
    BY <1>4, <2>1 DEF GrantHeld, Identities
  <2>3. scope.rows[k].expires \in Nat
    BY <1>1, <2>2, IdentityTypes DEF Rows, Binding
  <2>4. scope.rows[k].expires > day
    BY <1>2, <2>1, <2>2, <2>3
  <2> QED
    BY <2>2, <2>4
<1>5. ASSUME NEW q \in Producers
      PROVE  RequestHeld(q)' /\ ReplyHeld(q)' /\ ClaimHeld(q)'
  <2>1. RequestHeld(q) /\ ReplyHeld(q) /\ ClaimHeld(q) /\ producer[q].expires \in Nat
    BY <1>1, IdentityTypes DEF ProducerRecords
  <2>2. RequestHeld(q)'
    BY <1>2, <2>1 DEF RequestHeld
  <2>3. ReplyHeld(q)' /\ ClaimHeld(q)'
    BY <1>2, <1>4, <2>1 DEF RequestHeld, ReplyHeld, ClaimHeld
  <2> QED
    BY <2>2, <2>3
<1>6. \A m \in mail' : CallHeld(m)'
  BY <1>1, <1>2 DEF CallHeld
<1>7. \A k \in Identities : BoundHeld(k, scope.rows[k])'
  BY <1>2 DEF BoundHeld, Proof
<1>8. TailHeld'
  BY <1>2 DEF TailHeld, GrantHeld
<1>9. InheritedIsProven'
  BY <1>1, <1>2 DEF InheritedIsProven, Proof
<1>10. CountExact' /\ AlarmArmed' /\ TailDone'
  BY DEF CountExact, AlarmArmed, Free, Idle, TailDone
<1> QED
  BY <1>3, <1>5, <1>6, <1>7, <1>8, <1>9, <1>10 DEF IdentityInv

Registering(ks, claim, w, o, batch) ==
    /\ ks \in SUBSET Identities /\ w \in Producers \cup {Nobody} /\ o \in Routes
    /\ batch \in Batches(AfterOwn(ks))
    /\ claim # Unset => /\ w \in Producers /\ producer[w].pc # "new"
                        /\ plan.request[w].id = claim /\ o = plan.request[w].owner
RegisteredWell(ks, w, o, r) ==
    /\ r.rows \in Rows /\ r.count \in 0..Room /\ r.count = Cardinality(Bound(r.rows))
    /\ r.reply \in {"stored", "conflict", "producer_conflict", "capacity"}
    /\ \A k \in Identities : BoundHeld(k, r.rows[k])
    /\ \A k \in Identities : scope.rows[k] # Unset /\ scope.rows[k].expires > day =>
         r.rows[k] = scope.rows[k]
    /\ r.reply = "stored" => \A k \in ks :
         /\ r.rows[k] # Unset /\ r.rows[k] \in Binding /\ r.rows[k].owner = o
         /\ r.rows[k].by \in {Nobody, w}

LEMMA RegisterBinds ==
    ASSUME IdentityInv, NEW ks, NEW claim, NEW w, NEW o, NEW batch,
           Registering(ks, claim, w, o, batch)
    PROVE  RegisteredWell(ks, w, o, Registered(scope.rows, scope.count, ks, claim, w, o, batch))
<1> DEFINE r == Registered(scope.rows, scope.count, ks, claim, w, o, batch)
<1>1. TableCall(scope.rows, scope.count, ks, claim, w, o, batch)
  BY IdentityTypes DEF IdentityInv, CountExact, AfterOwn, Registering, TableCall
<1>2. TableAnswer(scope.rows, ks, claim, w, o, r)
  BY <1>1, RegisteredRows
<1> HIDE DEF r
<1>3. ASSUME NEW k \in Identities
      PROVE  BoundHeld(k, r.rows[k])
  <2>1. CASE r.rows[k] = scope.rows[k]
    BY <2>1 DEF IdentityInv
  <2>2. CASE r.rows[k] = Unset
    BY <2>2 DEF BoundHeld
  <2>3. CASE r.rows[k] = Fresh(k, claim, w, o)
    <3>1. CASE k = claim
      <4>1. /\ r.rows[k].by = w /\ r.rows[k].owner = o /\ r.rows[k].proof = "pending"
        BY <2>3, <3>1 DEF Fresh
      <4>2. claim # Unset
        BY <3>1, ContinuationsType
      <4> QED
        BY <3>1, <4>1, <4>2, ContinuationsType DEF BoundHeld, Registering
    <3>2. CASE k # claim
      <4>1. r.rows[k].by = Nobody /\ r.rows[k].proof = "none"
        BY <2>3, <3>2 DEF Fresh
      <4> QED
        BY <4>1 DEF BoundHeld
    <3> QED
      BY <3>1, <3>2
  <2> QED
    BY <1>2, <2>1, <2>2, <2>3 DEF TableAnswer
<1>4. \A k \in Identities : scope.rows[k] # Unset /\ scope.rows[k].expires > day => k \in Seen(scope.rows)
  BY DEF Seen, Bound
<1>5. RegisteredWell(ks, w, o, r)
  BY <1>2, <1>3, <1>4 DEF TableAnswer, RegisteredWell
<1> QED
  BY <1>5 DEF r

LEMMA HandleRegisterStep ==
    ASSUME IdentityInv, NEW m \in mail, HandleRegister(m)
    PROVE  IdentityInv'
<1> DEFINE o == plan.request[m.by].owner
<1>1. /\ CallHeld(m) /\ m \in Call /\ m.by \in Producers /\ m.keys \in SUBSET Identities
      /\ RequestHeld(m.by) /\ IdentityTyped /\ scope \in ScopeRecords /\ day \in Nat
  BY IdentityTypes, ContinuationsType DEF IdentityInv, IdentityTyped, Call
<1>2. plan.request[m.by] \in Request /\ o \in Routes /\ producer[m.by].pc # "new"
  BY <1>1 DEF RequestHeld, CallHeld, Request
<1>3. PICK batch \in Batches(AfterOwn(m.keys)) :
        LET r == Registered(scope.rows, scope.count, m.keys, m.claim, m.by, o, batch)
            claimed == r.reply = "stored" /\ m.claim # Unset
            reply == IF ~claimed THEN r.reply
                     ELSE IF r.rows[m.claim].proof = "none" THEN "legacy_unknown" ELSE "owned"
        IN Commit(r.rows, r.count, "call", m.by, reply,
                  IF claimed THEN r.rows[m.claim].expires ELSE 0)
  BY DEF HandleRegister
<1> DEFINE r == Registered(scope.rows, scope.count, m.keys, m.claim, m.by, o, batch)
           claimed == r.reply = "stored" /\ m.claim # Unset
           reply == IF ~claimed THEN r.reply
                    ELSE IF r.rows[m.claim].proof = "none" THEN "legacy_unknown" ELSE "owned"
           expires == IF claimed THEN r.rows[m.claim].expires ELSE 0
<1>4. scope' = [scope EXCEPT !.rows = r.rows, !.count = r.count,
                             !.tail = [kind |-> "call", to |-> m.by, reply |-> reply,
                                       expires |-> expires]]
  BY <1>3 DEF Commit
<1>5. m.claim # Unset => /\ m.by \in Producers /\ producer[m.by].pc # "new"
                         /\ plan.request[m.by].id = m.claim /\ o = plan.request[m.by].owner
  BY <1>1, <1>2 DEF CallHeld
<1>6. /\ r.rows \in Rows /\ r.count \in 0..Room /\ r.count = Cardinality(Bound(r.rows))
      /\ r.reply \in {"stored", "conflict", "producer_conflict", "capacity"}
      /\ \A k \in Identities : BoundHeld(k, r.rows[k])
      /\ \A k \in Identities : scope.rows[k] # Unset /\ scope.rows[k].expires > day =>
           r.rows[k] = scope.rows[k]
      /\ r.reply = "stored" => \A k \in m.keys :
           /\ r.rows[k] # Unset /\ r.rows[k] \in Binding /\ r.rows[k].owner = o
           /\ r.rows[k].by \in {Nobody, m.by}
  <2>1. Registering(m.keys, m.claim, m.by, o, batch)
    BY <1>1, <1>2, <1>5 DEF Registering
  <2>2. RegisteredWell(m.keys, m.by, o, r)
    BY <2>1, RegisterBinds
  <2> QED
    BY <2>2 DEF RegisteredWell
<1> HIDE DEF r, o
<1>7. claimed => /\ m.claim \in m.keys /\ m.claim = plan.request[m.by].id /\ m.claim \in Responses
                 /\ producer[m.by].pc \notin Early
                 /\ r.rows[m.claim].expires \in Nat
  BY <1>1, <1>6 DEF CallHeld, Call, Binding
<1>8. reply \in Replies /\ expires \in Nat
  BY <1>6, <1>7 DEF Replies, Granted
<1>9. reply \in Granted => claimed
  BY <1>6 DEF Granted
<1> HIDE DEF reply, expires, claimed
<1>10. /\ scope'.rows = r.rows /\ scope'.count = r.count /\ scope'.tail.kind = "call"
       /\ scope'.tail.to = m.by /\ scope'.tail.reply = reply /\ scope'.tail.expires = expires
  BY <1>1, <1>4 DEF ScopeRecords
<1>11. scope' \in ScopeRecords
  <2>1. [kind |-> "call", to |-> m.by, reply |-> reply, expires |-> expires] \in TailRecords
    BY <1>1, <1>8 DEF TailRecords
  <2> QED
    BY <1>1, <1>4, <1>6, <2>1 DEF ScopeRecords
<1>12. scope'.tail.reply \in Granted =>
         /\ scope'.tail.to \in Producers /\ producer[scope'.tail.to].pc \notin Early
         /\ plan.request[scope'.tail.to].id \in Responses
         /\ GrantHeld(scope'.tail.to, scope'.tail.expires, scope'.rows)
  <2> SUFFICES ASSUME reply \in Granted
               PROVE  /\ m.by \in Producers /\ producer[m.by].pc \notin Early
                      /\ plan.request[m.by].id \in Responses
                      /\ GrantHeld(m.by, expires, r.rows)
    BY <1>10
  <2>1. claimed /\ expires = r.rows[m.claim].expires /\ r.reply = "stored"
    BY <1>9 DEF expires, claimed
  <2>2. GrantHeld(m.by, expires, r.rows)
    BY <1>6, <1>7, <2>1 DEF GrantHeld, o
  <2> QED
    BY <1>1, <1>7, <2>1, <2>2
<1>13. UNCHANGED <<plan, producer, day>> /\ mail' \subseteq mail
  BY DEF HandleRegister
<1> QED
  BY <1>6, <1>10, <1>11, <1>12, <1>13, TableMoves

LEMMA LegacyRegisterStep ==
    ASSUME IdentityInv, NEW k \in Identities, NEW o \in Routes, LegacyRegister(k, o)
    PROVE  IdentityInv'
<1>1. scope \in ScopeRecords /\ day \in Nat
  BY IdentityTypes DEF IdentityInv, IdentityTyped
<1>2. PICK batch \in Batches(AfterOwn({k})) :
        LET r == Registered(scope.rows, scope.count, {k}, Unset, Nobody, o, batch)
        IN Commit(r.rows, r.count, "call", Nobody, Unset, 0)
  BY DEF LegacyRegister
<1> DEFINE r == Registered(scope.rows, scope.count, {k}, Unset, Nobody, o, batch)
           t == [kind |-> "call", to |-> Nobody, reply |-> Unset, expires |-> 0]
<1>3. scope' = [scope EXCEPT !.rows = r.rows, !.count = r.count, !.tail = t]
  BY <1>2 DEF Commit
<1>4. /\ r.rows \in Rows /\ r.count \in 0..Room /\ r.count = Cardinality(Bound(r.rows))
      /\ \A j \in Identities : BoundHeld(j, r.rows[j])
      /\ \A j \in Identities : scope.rows[j] # Unset /\ scope.rows[j].expires > day =>
           r.rows[j] = scope.rows[j]
  <2>1. Registering({k}, Unset, Nobody, o, batch)
    BY DEF Registering
  <2>2. RegisteredWell({k}, Nobody, o, r)
    BY <2>1, RegisterBinds
  <2> QED
    BY <2>2 DEF RegisteredWell
<1> HIDE DEF r
<1>5. t \in TailRecords
  BY DEF TailRecords
<1>6. scope' \in ScopeRecords /\ scope'.rows = r.rows /\ scope'.count = r.count /\ scope'.tail = t
  BY <1>1, <1>3, <1>4, <1>5 DEF ScopeRecords
<1>7. scope'.tail.kind # "idle" /\ scope'.tail.reply \notin Granted
  BY <1>6, UnsetIsNone DEF Granted
<1>8. UNCHANGED <<plan, producer, day>> /\ mail' \subseteq mail
  BY DEF LegacyRegister
<1> QED
  BY <1>4, <1>6, <1>7, <1>8, TableMoves

LEMMA HandleQualifyStep ==
    ASSUME IdentityInv, NEW m \in mail, HandleQualify(m)
    PROVE  IdentityInv'
<1> DEFINE k == m.claim
           outcome == Qualified(scope.rows, k, m.by, plan.request[m.by].owner, Proof(m.by))
           rows == IF outcome = "qualified"
                   THEN [scope.rows EXCEPT ![k].proof = Proof(m.by)] ELSE scope.rows
           t == [kind |-> "call", to |-> m.by, reply |-> outcome, expires |-> 0]
<1>1. /\ CallHeld(m) /\ m.by \in Producers /\ scope \in ScopeRecords /\ scope.rows \in Rows
      /\ RequestHeld(m.by) /\ k \in Responses \cup {Unset} /\ m.action = "qualify"
      /\ producer[m.by] \in ProducerRecords /\ scope.count = Cardinality(Bound(scope.rows))
  BY IdentityTypes DEF IdentityInv, IdentityTyped, Call, HandleQualify, CountExact
<1>2. k \in Identities /\ plan.request[m.by] \in Request
  BY <1>1 DEF CallHeld, Identities, RequestHeld
<1>3. Proof(m.by) \in ToolKnowledge
  BY DEF Proof, Union, ToolKnowledge
<1>4. scope' = [scope EXCEPT !.rows = rows, !.count = scope.count, !.tail = t]
  BY DEF HandleQualify, Commit
<1>5. outcome \in Replies \ Granted
  BY DEF Qualified, Replies, Granted
<1>6. outcome = "qualified" => /\ k \in Seen(scope.rows) /\ scope.rows[k].by = m.by
                               /\ scope.rows[k] \in Binding /\ scope.rows[k] # Unset
  BY <1>1, <1>2 DEF Qualified, Seen, Bound, Rows
<1> HIDE DEF outcome
<1>7. \A j \in Identities :
        \/ rows[j] = scope.rows[j]
        \/ /\ j = k /\ outcome = "qualified"
           /\ rows[j] = [scope.rows[k] EXCEPT !.proof = Proof(m.by)]
  BY <1>1, <1>2 DEF Rows
<1>8. outcome = "qualified" => /\ [scope.rows[k] EXCEPT !.proof = Proof(m.by)] \in Binding
                               /\ [scope.rows[k] EXCEPT !.proof = Proof(m.by)] # Unset
  BY <1>3, <1>6, UnsetIsNone DEF Binding
<1>9. rows \in Rows /\ Bound(rows) = Bound(scope.rows)
  <2>1. CASE outcome # "qualified"
    BY <1>1, <2>1
  <2>2. CASE outcome = "qualified"
    <3>1. rows = [j \in Identities |->
                    IF j = k THEN [scope.rows[k] EXCEPT !.proof = Proof(m.by)] ELSE scope.rows[j]]
      BY <1>1, <2>2 DEF Rows
    <3>2. rows \in Rows
      BY <1>1, <1>8, <2>2, <3>1 DEF Rows
    <3>3. Bound(rows) = Bound(scope.rows)
      BY <1>6, <1>8, <2>2, <3>1 DEF Bound
    <3> QED
      BY <3>2, <3>3
  <2> QED
    BY <2>1, <2>2
<1>10. ASSUME NEW j \in Identities
       PROVE  /\ BoundHeld(j, rows[j])
              /\ scope.rows[j] # Unset =>
                   /\ rows[j] # Unset /\ rows[j].owner = scope.rows[j].owner
                   /\ rows[j].by = scope.rows[j].by /\ rows[j].expires = scope.rows[j].expires
  <2>1. BoundHeld(j, scope.rows[j])
    BY DEF IdentityInv
  <2>2. CASE rows[j] = scope.rows[j]
    BY <2>1, <2>2
  <2>3. CASE /\ j = k /\ outcome = "qualified"
             /\ rows[j] = [scope.rows[k] EXCEPT !.proof = Proof(m.by)]
    <3>1. /\ rows[j].owner = scope.rows[j].owner /\ rows[j].by = scope.rows[j].by
          /\ rows[j].expires = scope.rows[j].expires /\ rows[j].proof = Proof(m.by)
          /\ rows[j] # Unset
      BY <1>6, <1>8, <2>3 DEF Binding
    <3>2. scope.rows[j].by = m.by /\ m.by # Nobody
      BY <1>1, <1>6, <2>3, ContinuationsType
    <3> QED
      BY <1>6, <2>1, <2>3, <3>1, <3>2 DEF BoundHeld
  <2> QED
    BY <1>7, <2>2, <2>3
<1> HIDE DEF rows
<1>11. t \in TailRecords
  BY <1>1, <1>5 DEF TailRecords
<1>12. scope' \in ScopeRecords /\ scope'.rows = rows /\ scope'.count = scope.count /\ scope'.tail = t
  BY <1>1, <1>4, <1>9, <1>11 DEF ScopeRecords
<1>13. scope'.tail.kind # "idle" /\ scope'.tail.reply \notin Granted
  BY <1>5, <1>12
<1>14. UNCHANGED <<plan, producer, day>> /\ mail' \subseteq mail
  BY DEF HandleQualify
<1> QED
  BY <1>1, <1>9, <1>10, <1>12, <1>13, <1>14, TableMoves

LEMMA AlarmExpiresStep ==
    ASSUME IdentityInv, AlarmExpires
    PROVE  IdentityInv'
<1>1. /\ scope \in ScopeRecords /\ scope.rows \in Rows /\ scope.count \in 0..Room /\ day \in Nat
      /\ scope.count = Cardinality(Bound(scope.rows))
  BY IdentityTypes DEF IdentityInv, IdentityTyped, CountExact
<1>2. PICK batch \in Batches(scope.rows) :
        scope' = [scope EXCEPT !.rows = Deleted(scope.rows, batch),
                               !.count = Remaining(scope.count, batch),
                               !.firing = FALSE, !.tail = [Idle EXCEPT !.kind = "alarm"]]
  BY DEF AlarmExpires
<1> DEFINE rows == Deleted(scope.rows, batch)
           t == [Idle EXCEPT !.kind = "alarm"]
<1>3. batch \in SUBSET Bound(scope.rows) /\ batch \cap Seen(scope.rows) = {}
  BY DEF Batches, Expired
<1>4. /\ rows \in Rows
      /\ \A k \in Identities : rows[k] = IF k \in batch THEN Unset ELSE scope.rows[k]
      /\ Remaining(scope.count, batch) = Cardinality(Bound(rows))
      /\ Remaining(scope.count, batch) \in 0..Room
  BY <1>1, <1>3, DeletedRows, CountDeleted
<1> HIDE DEF rows
<1>5. t = [kind |-> "alarm", to |-> Nobody, reply |-> Unset, expires |-> 0]
  BY DEF Idle
<1>6. t \in TailRecords
  BY <1>5 DEF TailRecords
<1>7. /\ scope' \in ScopeRecords /\ scope'.rows = rows /\ scope'.tail = t
      /\ scope'.count = Cardinality(Bound(rows))
  BY <1>1, <1>2, <1>4, <1>6 DEF ScopeRecords, rows
<1>8. scope'.tail.kind # "idle" /\ scope'.tail.reply \notin Granted
  BY <1>5, <1>7, UnsetIsNone DEF Granted
<1>9. ASSUME NEW k \in Identities
      PROVE  /\ BoundHeld(k, rows[k])
             /\ scope.rows[k] # Unset /\ scope.rows[k].expires > day => rows[k] = scope.rows[k]
  <2>1. BoundHeld(k, rows[k])
    BY <1>4 DEF IdentityInv, BoundHeld
  <2>2. scope.rows[k] # Unset /\ scope.rows[k].expires > day => k \notin batch
    BY <1>3 DEF Seen, Bound
  <2> QED
    BY <1>4, <2>1, <2>2
<1>10. UNCHANGED <<plan, producer, day>> /\ mail' \subseteq mail
  BY DEF AlarmExpires
<1> QED
  BY <1>7, <1>8, <1>9, <1>10, TableMoves

LEMMA LaterOf ==
    ASSUME NEW a \in Nat, NEW b \in Nat
    PROVE  Max({a, b}) \in Nat /\ a <= Max({a, b}) /\ b <= Max({a, b})
           /\ (b <= a => Max({a, b}) = a) /\ (a <= b => Max({a, b}) = b)
<1>1. \E x \in {a, b} : \A y \in {a, b} : x >= y
  BY SMT
<1>2. Max({a, b}) \in {a, b} /\ \A y \in {a, b} : Max({a, b}) >= y
  BY <1>1 DEF Max
<1> QED
  BY <1>2

LEMMA DeadlineType ==
    ASSUME IdentityTyped, Bound(scope.rows) # {}
    PROVE  NextDeadline \in Nat
<1> DEFINE S == {scope.rows[k].expires : k \in Bound(scope.rows)}
<1>1. S \in SUBSET Nat /\ S # {}
  BY IdentityTypes DEF Bound, Rows, Binding
<1>2. Min(S) = Earliest(S)
  BY DEF Min, Earliest
<1>3. Earliest(S) \in S
  BY <1>1, EarliestIsFirst
<1> QED
  BY <1>1, <1>2, <1>3 DEF NextDeadline

(* The clock, the alarm and the stops of the owner: an answer may be lost  *)
(* and a grant may expire, but the table stays.                            *)
LEMMA QuietMoves ==
    ASSUME IdentityInv, scope' \in ScopeRecords, scope'.rows = scope.rows,
           scope'.count = scope.count, scope'.tail = scope.tail \/ scope'.tail = Idle,
           UNCHANGED <<plan, producer>>, day' \in 0..MaxDays, day <= day', mail' \subseteq mail,
           AlarmArmed'
    PROVE  IdentityInv'
<1>1. /\ IdentityTyped /\ InheritedIsProven /\ TailHeld /\ TailDone /\ CountExact
      /\ \A q \in Producers : RequestHeld(q) /\ ReplyHeld(q) /\ ClaimHeld(q)
      /\ \A m \in mail : CallHeld(m)
      /\ \A k \in Identities : BoundHeld(k, scope.rows[k])
  BY DEF IdentityInv
<1>2. plan' = plan /\ producer' = producer /\ day' \in Nat /\ day \in Nat
  BY <1>1, IdentityTypes, ContinuationsType
<1>3. IdentityTyped'
  BY <1>1, <1>2 DEF IdentityTyped
<1>4. ASSUME NEW q, NEW e \in Nat, GrantHeld(q, e, scope.rows)
      PROVE  GrantHeld(q, e, scope.rows)'
  <2>1. e > day' => e > day
    BY <1>2
  <2> QED
    BY <1>2, <1>4, <2>1 DEF GrantHeld
<1>5. ASSUME NEW q \in Producers
      PROVE  RequestHeld(q)' /\ ReplyHeld(q)' /\ ClaimHeld(q)'
  <2>1. RequestHeld(q) /\ ReplyHeld(q) /\ ClaimHeld(q) /\ producer[q].expires \in Nat
    BY <1>1, IdentityTypes DEF ProducerRecords
  <2>2. RequestHeld(q)'
    BY <1>2, <2>1 DEF RequestHeld
  <2>3. ReplyHeld(q)' /\ ClaimHeld(q)'
    BY <1>2, <1>4, <2>1 DEF RequestHeld, ReplyHeld, ClaimHeld
  <2> QED
    BY <2>2, <2>3
<1>6. \A m \in mail' : CallHeld(m)'
  BY <1>1, <1>2 DEF CallHeld
<1>7. \A k \in Identities : BoundHeld(k, scope.rows[k])'
  BY <1>1, <1>2 DEF BoundHeld, Proof
<1>8. TailHeld'
  <2>1. CASE scope'.tail.reply \notin Granted
    BY <2>1 DEF TailHeld
  <2>0. Idle.reply \notin Granted
    BY UnsetIsNone DEF Idle, Granted
  <2>2. CASE scope'.tail = scope.tail /\ scope.tail.reply \in Granted
    <3>1. /\ scope.tail.to \in Producers /\ producer[scope.tail.to].pc \notin Early
          /\ plan.request[scope.tail.to].id \in Responses
          /\ GrantHeld(scope.tail.to, scope.tail.expires, scope.rows)
      BY <1>1, <2>2 DEF TailHeld
    <3>2. scope.tail.expires \in Nat
      BY <1>1, IdentityTypes DEF TailRecords
    <3>3. GrantHeld(scope.tail.to, scope.tail.expires, scope.rows)'
      <4>1. scope'.tail.to = scope.tail.to /\ scope'.tail.expires = scope.tail.expires
        BY <2>2
      <4>2. scope.tail.expires > day' => scope.tail.expires > day
        BY <1>2, <3>2
      <4> QED
        BY <1>2, <3>1, <4>1, <4>2 DEF GrantHeld
    <3> QED
      BY <1>2, <2>2, <3>1, <3>3 DEF TailHeld
  <2> QED
    BY <2>0, <2>1, <2>2
<1>9. InheritedIsProven' /\ CountExact' /\ TailDone'
  BY <1>1, <1>2 DEF InheritedIsProven, Proof, CountExact, TailDone, Idle
<1> QED
  BY <1>3, <1>5, <1>6, <1>7, <1>8, <1>9 DEF IdentityInv

LEMMA TableKept ==
    ASSUME scope'.rows = scope.rows
    PROVE  Bound(scope.rows)' = Bound(scope.rows) /\ NextDeadline' = NextDeadline
  BY DEF Bound, NextDeadline

LEMMA CallLostStep ==
    ASSUME IdentityInv, NEW m \in mail, CallLost(m)
    PROVE  IdentityInv'
<1>1. /\ UNCHANGED <<scope, plan, producer, day>> /\ mail' \subseteq mail
      /\ IdentityTyped /\ AlarmArmed /\ scope \in ScopeRecords /\ day \in 0..MaxDays /\ day \in Nat
  BY IdentityTypes DEF CallLost, IdentityInv, IdentityTyped
<1>2. AlarmArmed'
  BY <1>1, TableKept DEF AlarmArmed, Free, Idle
<1> QED
  BY <1>1, <1>2, QuietMoves

LEMMA AlarmStartsStep ==
    ASSUME IdentityInv, AlarmStarts
    PROVE  IdentityInv'
<1>1. /\ UNCHANGED <<plan, producer, mail, day>>
      /\ scope \in ScopeRecords /\ day \in 0..MaxDays /\ day \in Nat
      /\ scope' = [scope EXCEPT !.alarm = Unset, !.firing = TRUE]
  BY IdentityTypes DEF AlarmStarts, IdentityInv, IdentityTyped
<1>2. /\ scope' \in ScopeRecords /\ scope'.rows = scope.rows /\ scope'.count = scope.count
      /\ scope'.tail = scope.tail /\ scope'.firing = TRUE
  BY <1>1 DEF ScopeRecords
<1>3. AlarmArmed'
  BY <1>2 DEF AlarmArmed
<1> QED
  BY <1>1, <1>2, <1>3, QuietMoves

LEMMA OwnerStopsStep ==
    ASSUME IdentityInv, OwnerStops
    PROVE  IdentityInv'
<1> DEFINE again == scope.firing \/ scope.tail.kind = "alarm"
           alarm1 == IF again THEN day ELSE scope.alarm
           gap1 == scope.gap \/ scope.tail.kind = "call"
<1>1. /\ UNCHANGED <<plan, producer, mail, day>> /\ AlarmArmed /\ IdentityTyped
      /\ scope \in ScopeRecords /\ day \in 0..MaxDays /\ day \in Nat
      /\ scope.alarm \in Nat \cup {Unset} /\ scope.gap \in BOOLEAN /\ scope.firing \in BOOLEAN
      /\ scope.tail \in TailRecords
  BY IdentityTypes DEF OwnerStops, IdentityInv, IdentityTyped
<1>2. scope' = [scope EXCEPT !.tail = Idle, !.firing = FALSE, !.alarm = alarm1, !.gap = gap1]
  BY DEF OwnerStops
<1>3. alarm1 \in Nat \cup {Unset} /\ gap1 \in BOOLEAN
  BY <1>1
<1>4. Idle \in TailRecords
  BY DEF Idle, TailRecords
<1> HIDE DEF alarm1, gap1
<1>5. /\ scope' \in ScopeRecords /\ scope'.rows = scope.rows /\ scope'.count = scope.count
      /\ scope'.tail = Idle /\ scope'.alarm = alarm1 /\ scope'.gap = gap1
  BY <1>1, <1>2, <1>3, <1>4 DEF ScopeRecords
<1>6. AlarmArmed'
  <2> SUFFICES ASSUME ~gap1, Bound(scope.rows) # {}
               PROVE  alarm1 # Unset /\ alarm1 <= Max({day, NextDeadline})
    BY <1>1, <1>5, TableKept DEF AlarmArmed
  <2>1. NextDeadline \in Nat
    BY <1>1, DeadlineType
  <2>2. CASE again
    <3>1. alarm1 = day
      BY <2>2 DEF alarm1
    <3>2. day # Unset
      BY <1>1, ContinuationsType
    <3> QED
      BY <1>1, <2>1, <3>1, <3>2, LaterOf
  <2>3. CASE ~again
    <3>1. /\ alarm1 = scope.alarm /\ ~scope.firing /\ ~scope.gap
          /\ scope.tail.kind \notin {"call", "alarm"}
      BY <2>3 DEF alarm1, gap1
    <3>2. CASE scope.tail = Idle
      BY <3>1, <3>2 DEF AlarmArmed, Free, IdentityInv
    <3>3. CASE scope.tail # Idle
      BY <1>1, <3>1, <3>3 DEF IdentityInv, TailDone, TailRecords
    <3> QED
      BY <3>2, <3>3
  <2> QED
    BY <2>2, <2>3
<1> QED
  BY <1>1, <1>4, <1>5, <1>6, QuietMoves

LEMMA TomorrowStep ==
    ASSUME IdentityInv, Tomorrow
    PROVE  IdentityInv'
<1>1. /\ UNCHANGED <<scope, plan, producer, mail>> /\ AlarmArmed /\ IdentityTyped
      /\ scope \in ScopeRecords /\ day \in 0..MaxDays /\ day \in Nat /\ day' = day + 1
      /\ day < MaxDays /\ MaxDays \in Nat /\ scope.alarm \in Nat \cup {Unset}
  BY IdentityTypes, ContinuationsType DEF Tomorrow, IdentityInv, IdentityTyped
<1>2. day' \in 0..MaxDays /\ day <= day' /\ day' \in Nat
  BY <1>1
<1>3. AlarmArmed'
  <2> SUFFICES ASSUME Free, ~scope.firing, ~scope.gap, Bound(scope.rows) # {}
               PROVE  scope.alarm # Unset /\ scope.alarm <= Max({day', NextDeadline})
    BY <1>1, TableKept DEF AlarmArmed, Free, Idle
  <2>1. NextDeadline \in Nat
    BY <1>1, DeadlineType
  <2>2. scope.alarm # Unset /\ scope.alarm <= Max({day, NextDeadline})
    BY <1>1 DEF AlarmArmed
  <2>3. Max({day, NextDeadline}) <= Max({day', NextDeadline})
    <3>1. /\ Max({day, NextDeadline}) \in Nat /\ Max({day', NextDeadline}) \in Nat
          /\ day' <= Max({day', NextDeadline}) /\ NextDeadline <= Max({day', NextDeadline})
          /\ Max({day, NextDeadline}) = day \/ Max({day, NextDeadline}) = NextDeadline
      BY <1>1, <1>2, <2>1, LaterOf
    <3> QED
      BY <1>1, <1>2, <2>1, <3>1
  <2>4. Max({day, NextDeadline}) \in Nat /\ Max({day', NextDeadline}) \in Nat
    BY <1>1, <1>2, <2>1, LaterOf
  <2> QED
    BY <1>1, <2>2, <2>3, <2>4
<1> QED
  BY <1>1, <1>2, <1>3, QuietMoves

LEMMA ArmedSoon ==
    ASSUME IdentityTyped, NEW current \in Nat \cup {Unset}
    PROVE  /\ Armed(current) \in Nat \cup {Unset}
           /\ Bound(scope.rows) # {} =>
                Armed(current) # Unset /\ Armed(current) <= Max({day, NextDeadline})
<1>1. CASE Bound(scope.rows) = {}
  BY <1>1 DEF Armed
<1>2. CASE Bound(scope.rows) # {}
  <2>1. NextDeadline \in Nat /\ day \in Nat
    BY <1>2, DeadlineType, IdentityTypes
  <2>2. Max({day, NextDeadline}) \in Nat
    BY <2>1, LaterOf
  <2>3. Armed(current) = IF current = Unset \/ current > Max({day, NextDeadline})
                         THEN Max({day, NextDeadline}) ELSE current
    BY <1>2 DEF Armed
  <2>4. Unset \notin Nat
    BY ContinuationsType
  <2> HIDE DEF Max
  <2> QED
    BY <2>2, <2>3, <2>4
<1> QED
  BY <1>1, <1>2

LEMMA ArmStep ==
    ASSUME IdentityInv, Arm
    PROVE  IdentityInv'
<1> DEFINE t == scope.tail
           alarm1 == Armed(IF t.kind = "alarm" THEN Unset ELSE scope.alarm)
<1>1. /\ UNCHANGED <<plan, mail, day>> /\ IdentityTyped /\ TailHeld /\ InheritedIsProven /\ CountExact
      /\ scope \in ScopeRecords /\ t \in TailRecords /\ mail \subseteq Call
      /\ scope.alarm \in Nat \cup {Unset} /\ producer \in [Producers -> ProducerRecords]
      /\ day \in Nat
  BY IdentityTypes DEF Arm, IdentityInv, IdentityTyped
<1>2. scope' = [scope EXCEPT !.alarm = alarm1, !.tail = Idle, !.gap = FALSE]
  BY DEF Arm
<1>3. /\ alarm1 \in Nat \cup {Unset}
      /\ Bound(scope.rows) # {} => alarm1 # Unset /\ alarm1 <= Max({day, NextDeadline})
  <2>1. (IF t.kind = "alarm" THEN Unset ELSE scope.alarm) \in Nat \cup {Unset}
    BY <1>1
  <2> QED
    BY <1>1, <2>1, ArmedSoon
<1>4. Idle \in TailRecords /\ Idle.reply \notin Granted /\ Idle.kind = "idle"
  BY UnsetIsNone DEF Idle, TailRecords, Granted
<1> HIDE DEF alarm1
<1>5. /\ scope' \in ScopeRecords /\ scope'.rows = scope.rows /\ scope'.count = scope.count
      /\ scope'.tail = Idle /\ scope'.alarm = alarm1
  BY <1>1, <1>2, <1>3, <1>4 DEF ScopeRecords
<1>6. producer' = IF t.to \notin Producers THEN producer
                  ELSE [producer EXCEPT ![t.to].reply = t.reply, ![t.to].expires =
                          IF producer[t.to].pc = "body" THEN t.expires ELSE @]
  BY DEF Arm
<1>7. /\ producer' \in [Producers -> ProducerRecords]
      /\ \A q \in Producers :
           /\ producer'[q].pc = producer[q].pc /\ producer'[q].parent = producer[q].parent
           /\ producer'[q].parents = producer[q].parents /\ producer'[q].claim = producer[q].claim
           /\ q # t.to => producer'[q] = producer[q]
           /\ q = t.to => /\ producer'[q].reply = t.reply
                          /\ producer'[q].expires =
                               IF producer[q].pc = "body" THEN t.expires ELSE producer[q].expires
  <2>1. CASE t.to \notin Producers
    BY <1>1, <1>6, <2>1
  <2>2. CASE t.to \in Producers
    <3> DEFINE p == t.to
               e == IF producer[p].pc = "body" THEN t.expires ELSE producer[p].expires
               z == [producer[p] EXCEPT !.reply = t.reply, !.expires = e]
    <3>1. producer[p] \in ProducerRecords /\ t.reply \in Replies \cup {Unset} /\ t.expires \in Nat
      BY <1>1, <2>2 DEF TailRecords
    <3>2. e \in Nat
      BY <3>1 DEF ProducerRecords
    <3>3. producer' = [producer EXCEPT ![p] = z]
      BY <1>1, <1>6, <2>2, <3>1 DEF ProducerRecords
    <3> HIDE DEF e
    <3>4. /\ z \in ProducerRecords /\ z.reply = t.reply /\ z.expires = e /\ z.pc = producer[p].pc
          /\ z.parent = producer[p].parent /\ z.parents = producer[p].parents
          /\ z.claim = producer[p].claim
      BY <3>1, <3>2 DEF ProducerRecords
    <3> HIDE DEF z
    <3>5. /\ producer' \in [Producers -> ProducerRecords] /\ producer'[p] = z
          /\ \A q \in Producers : q # p => producer'[q] = producer[q]
      BY <1>1, <2>2, <3>3, <3>4
    <3> QED
      BY <3>4, <3>5 DEF e
  <2> QED
    BY <2>1, <2>2
<1> HIDE DEF t
<1>8. plan' = plan /\ mail' = mail /\ day' = day
  BY <1>1
<1>9. IdentityTyped'
  BY <1>1, <1>5, <1>7, <1>8 DEF IdentityTyped
<1>10. \A q \in Producers : Proof(q)' = Proof(q)
  BY <1>7, <1>8 DEF Proof
<1>11. ASSUME NEW q \in Producers
       PROVE  RequestHeld(q)' /\ ReplyHeld(q)' /\ ClaimHeld(q)'
  <2>1. RequestHeld(q) /\ ReplyHeld(q) /\ ClaimHeld(q)
    BY DEF IdentityInv
  <2>2. \A x \in producer[q].parents : x \in Producers
    BY <1>1 DEF ProducerRecords
  <2>3. q = t.to /\ t.reply \in Granted =>
          producer[q].pc \notin Early /\ GrantHeld(q, t.expires, scope.rows)
    BY <1>1 DEF TailHeld, t
  <2>4. RequestHeld(q)'
    <3>1. producer'[q].pc \in Early => producer'[q].reply \notin Granted
      BY <1>7, <2>1, <2>3 DEF RequestHeld
    <3> QED
      BY <1>7, <1>8, <2>1, <2>2, <3>1 DEF RequestHeld
  <2>5. GrantHeld(q, producer'[q].expires, scope.rows) => GrantHeld(q, producer[q].expires, scope.rows)'
    BY <1>5, <1>8 DEF GrantHeld
  <2>6. ReplyHeld(q)'
    <3>1. producer'[q].pc = "body" /\ producer'[q].reply \in Granted =>
            GrantHeld(q, producer'[q].expires, scope.rows)
      BY <1>7, <2>1, <2>3 DEF ReplyHeld
    <3> QED
      BY <2>5, <3>1 DEF ReplyHeld
  <2>7. ClaimHeld(q)'
    <3>1. producer[q].claim # Unset => producer'[q].expires = producer[q].expires
      BY <1>7, <2>1 DEF RequestHeld
    <3>2. producer'[q].claim # Unset => GrantHeld(q, producer'[q].expires, scope.rows)
      BY <1>7, <2>1, <3>1 DEF ClaimHeld
    <3> QED
      BY <2>5, <3>2 DEF ClaimHeld
  <2> QED
    BY <2>4, <2>6, <2>7
<1>12. ASSUME NEW m \in mail'
       PROVE  CallHeld(m)'
  <2>1. m.by \in Producers /\ CallHeld(m)
    BY <1>1, <1>8 DEF Call, IdentityInv
  <2> QED
    BY <1>7, <1>8, <2>1 DEF CallHeld
<1>13. ASSUME NEW k \in Identities
       PROVE  BoundHeld(k, scope.rows[k])'
  <2>1. BoundHeld(k, scope.rows[k]) /\ scope.rows[k] \in Binding \cup {Unset}
    BY <1>1, IdentityTypes DEF IdentityInv, Rows
  <2>2. scope.rows[k] # Unset /\ scope.rows[k].by # Nobody => scope.rows[k].by \in Producers
    BY <2>1 DEF Binding
  <2> QED
    BY <1>5, <1>7, <1>8, <1>10, <2>1, <2>2 DEF BoundHeld
<1>14. TailHeld' /\ TailDone'
  BY <1>4, <1>5 DEF TailHeld, TailDone, Idle
<1>15. InheritedIsProven'
  <2> SUFFICES ASSUME NEW q \in Producers, producer[q].pc # "new", producer[q].parent # "unknown",
                      NEW x \in producer[q].parents
               PROVE  Proof(x)' = producer[q].parent
    BY <1>7 DEF InheritedIsProven
  <2>1. x \in Producers /\ Proof(x) = producer[q].parent
    BY <1>1 DEF InheritedIsProven, ProducerRecords
  <2> QED
    BY <1>10, <2>1
<1>16. CountExact' /\ AlarmArmed'
  BY <1>1, <1>3, <1>5, <1>8, TableKept DEF CountExact, AlarmArmed
<1> QED
  BY <1>9, <1>11, <1>12, <1>13, <1>14, <1>15, <1>16 DEF IdentityInv

LEMMA IdentityInit ==
    ASSUME ContinuationInit
    PROVE  IdentityInv
<1> DEFINE free == [k \in Identities |-> Unset]
<1>1. /\ scope = [rows |-> free, count |-> 0, alarm |-> Unset,
                  tail |-> Idle, firing |-> FALSE, gap |-> FALSE]
      /\ plan \in Plans /\ mail = {} /\ day = 0
      /\ producer = [p \in Producers |-> NewProducer]
  BY DEF ContinuationInit
<1>2. free \in Rows /\ Bound(free) = {}
  BY DEF Rows, Bound
<1>3. Idle \in TailRecords /\ Idle.reply \notin Granted
  BY UnsetIsNone DEF Idle, TailRecords, Granted
<1>4. NewProducer \in ProducerRecords
  BY DEF NewProducer, ProducerRecords, Early, ToolKnowledge
<1>5. /\ NewProducer.pc = "new" /\ NewProducer.claim = Unset /\ NewProducer.reply \notin Granted
      /\ NewProducer.parents = {}
  BY UnsetIsNone DEF NewProducer, Granted
<1>6. \A p \in Producers : producer[p] = NewProducer
  BY <1>1
<1> HIDE DEF free
<1>7. scope.rows = free /\ scope.count = 0 /\ scope.tail = Idle
  BY <1>1
<1>8. IdentityTyped
  <2>1. scope \in ScopeRecords
    BY <1>1, <1>2, <1>3, ContinuationsType DEF ScopeRecords
  <2> QED
    BY <1>1, <1>4, <2>1, ContinuationsType DEF IdentityTyped
<1>9. \A p \in Producers : RequestHeld(p) /\ ReplyHeld(p) /\ ClaimHeld(p)
  BY <1>5, <1>6 DEF RequestHeld, ReplyHeld, ClaimHeld
<1>10. \A k \in Identities : BoundHeld(k, scope.rows[k])
  BY <1>7 DEF BoundHeld, free
<1>11. TailHeld /\ TailDone /\ \A m \in mail : CallHeld(m)
  BY <1>1, <1>3, <1>7 DEF TailHeld, TailDone
<1>12. InheritedIsProven
  BY <1>5, <1>6 DEF InheritedIsProven
<1>13. CountExact /\ AlarmArmed
  BY <1>2, <1>7, FS_EmptySet DEF CountExact, AlarmArmed
<1> QED
  BY <1>8, <1>9, <1>10, <1>11, <1>12, <1>13 DEF IdentityInv

LEMMA IdentityStutter ==
    ASSUME IdentityInv, UNCHANGED continuationVars
    PROVE  IdentityInv'
<1>1. /\ UNCHANGED <<scope, plan, producer, day>> /\ mail' \subseteq mail
      /\ IdentityTyped /\ AlarmArmed /\ scope \in ScopeRecords /\ day \in 0..MaxDays /\ day \in Nat
  BY IdentityTypes DEF continuationVars, IdentityInv, IdentityTyped
<1>2. AlarmArmed'
  BY <1>1, TableKept DEF AlarmArmed, Free, Idle
<1> QED
  BY <1>1, <1>2, QuietMoves

LEMMA IdentityStep ==
    ASSUME IdentityInv, [ContinuationNext]_continuationVars
    PROVE  IdentityInv'
<1>1. CASE UNCHANGED continuationVars
  BY <1>1, IdentityStutter
<1>2. CASE \E p \in Producers :
             \/ Resolve(p) \/ Headers(p) \/ Identify(p)
             \/ FlushAnswered(p) \/ Qualify(p) \/ QualifyAnswered(p) \/ GiveUp(p)
  BY <1>2, ResolveStep, HeadersStep, IdentifyStep, FlushAnsweredStep, QualifyStep,
     QualifyAnsweredStep, GiveUpStep
<1>3. CASE \E m \in mail : HandleRegister(m) \/ HandleQualify(m) \/ CallLost(m)
  BY <1>3, HandleRegisterStep, HandleQualifyStep, CallLostStep
<1>4. CASE \E old \in plan.old : LegacyRegister(old[1], old[2])
  <2>1. PICK old \in plan.old : LegacyRegister(old[1], old[2])
    BY <1>4
  <2>2. old \in Identities \X Routes
    BY PlansType DEF IdentityInv, IdentityTyped
  <2>3. old[1] \in Identities /\ old[2] \in Routes
    BY <2>2
  <2> QED
    BY <2>1, <2>3, LegacyRegisterStep
<1>5. CASE Arm \/ AlarmStarts \/ AlarmExpires \/ OwnerStops \/ Tomorrow
  BY <1>5, ArmStep, AlarmStartsStep, AlarmExpiresStep, OwnerStopsStep, TomorrowStep
<1> QED
  BY <1>1, <1>2, <1>3, <1>4, <1>5 DEF ContinuationNext

LEMMA IdentityHolds ==
    ASSUME IdentityInv
    PROVE  ContinuationsHold
<1>1. ContinuationTypeOK
  BY IdentityTypes DEF IdentityInv, IdentityTyped, ContinuationTypeOK, Rows
<1>2. ASSUME NEW p \in Producers, Shown(p)
      PROVE  LET r == scope.rows[plan.request[p].id] IN
             /\ r # Unset /\ r.owner = plan.request[p].owner
             /\ r.by = Nobody \/ (r.by = p /\ r.proof \in {"pending", Proof(p)})
  <2>1. producer[p].claim # Unset /\ producer[p].expires > day /\ RequestHeld(p) /\ ClaimHeld(p)
    BY <1>2 DEF Shown, IdentityInv
  <2> DEFINE k == plan.request[p].id
  <2>2. k \in Identities
    BY <2>1 DEF RequestHeld, Identities
  <2>3. /\ scope.rows[k] # Unset /\ scope.rows[k].owner = plan.request[p].owner
        /\ scope.rows[k].by \in {Nobody, p}
    BY <2>1 DEF ClaimHeld, GrantHeld
  <2>4. BoundHeld(k, scope.rows[k])
    BY <2>2 DEF IdentityInv
  <2> QED
    BY <2>3, <2>4 DEF BoundHeld
<1> QED
  BY <1>1, <1>2 DEF ContinuationsHold, ShownIsOwned, IdentityInv

(* An identity that the client was shown can be continued on its route     *)
(* until it expires and carries no proof but its producer's; a request     *)
(* inherits only what was proven; the count is the number of rows and the  *)
(* alarm is set, whatever calls are lost, late or unanswered, whichever    *)
(* workers of an older release register and wherever the owner stops       *)
(* (continuation-store.ts, responses-scope.ts, http-continuation.ts).      *)
THEOREM IdentitiesStayOwned == ContinuationSpec => []ContinuationsHold
<1>1. ContinuationInit => IdentityInv
  BY IdentityInit
<1>2. IdentityInv /\ [ContinuationNext]_continuationVars => IdentityInv'
  BY IdentityStep
<1>3. IdentityInv => ContinuationsHold
  BY IdentityHolds
<1> QED
  BY <1>1, <1>2, <1>3, PTL DEF ContinuationSpec
=============================================================================
