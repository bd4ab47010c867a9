--------------------------- MODULE AccountingProofs ---------------------------
(***************************************************************************)
(* What is proved of Accounting for every set of requests, legs and modes, *)
(* every bound, limit, price and legacy debt, and any number of faults.    *)
(*                                                                         *)
(* The inductive invariant says what the place of the worker and what it   *)
(* knows of a leg say about the row of that leg, whatever is still on its  *)
(* way to the ledger.                                                      *)
(***************************************************************************)
EXTENDS Accounting, BudgetTableProofs

-----------------------------------------------------------------------------
Soft(r) == mode[r] = "soft"
Finalized == {"owing", "failing", "queued", "lost", "settled"}
Acknowledged == {"held", "marked"} \cup Finalized
Admitted == {"reserved", "marking", "ready", "sent"}

(* The places of a worker: what was sent, and what unsent work costs.      *)
PlaceOK(r) ==
    /\ ~sent[r] => outcome[r] = 0
    /\ sent[r] => pc[r] \in {"sent", "finalizing", "dead"}
    /\ pc[r] = "sent" => sent[r]
    /\ pc[r] = "sent" => outcome[r] = 0

(* What the worker may know of a leg at each of its places.                *)
LegOK(i) ==
    /\ leg[i] \in Finalized => pc[i[1]] \in {"finalizing", "dead"}
    /\ Soft(i[1]) => leg[i] \in {"none"} \cup Finalized
    /\ Soft(i[1]) /\ leg[i] \in Finalized => sent[i[1]]
    /\ Soft(i[1]) => pc[i[1]] \in {"idle", "ready", "sent", "finalizing", "dead"}
    /\ pc[i[1]] = "idle" => leg[i] = "none"
    /\ ~Soft(i[1]) /\ pc[i[1]] = "reserved" => leg[i] \in {"held", "marked"}
    /\ ~Soft(i[1]) /\ pc[i[1]] = "marking" => leg[i] \in {"calling", "failed", "marked"}
    /\ ~Soft(i[1]) /\ pc[i[1]] \in {"ready", "sent"} => leg[i] = "marked"

(* Calls on their way and messages of the queue.                           *)
CallOK(i) ==
    /\ \A operation \in {"reserve", "dispatch"} : <<operation, i>> \in net => ~Soft(i[1])
    /\ <<"settle", i>> \in net => ~Soft(i[1]) /\ leg[i] \in Finalized
    /\ <<"charge", i>> \in net => Soft(i[1]) /\ leg[i] \in Finalized
    /\ queue[i] >= 0 => leg[i] \in Finalized

(* A row x that the ledger of leg i[2] may have for the id i.              *)
Billed(r) == IF sent[r] THEN outcome[r] ELSE 0
RowOK(i, x) ==
    /\ x # NoRow =>
         /\ x.window = WindowOf(i[2]) /\ x.scope = NoScope
         /\ Soft(i[1]) => x.settled = 1 /\ x.dispatched /\ leg[i] \in Finalized
         /\ ~Soft(i[1]) /\ x.settled # 1 => x.micros = Cost
         /\ x.settled = 1 => x.micros = Billed(i[1])
         /\ x.settled = 1 /\ x.dispatched => leg[i] \in Finalized
    /\ ~Soft(i[1]) =>
         /\ leg[i] \in Acknowledged \/ pc[i[1]] \in Admitted \/ sent[i[1]] => x # NoRow
         /\ leg[i] = "marked" \/ sent[i[1]] => x.dispatched
TableOK(table) == table \in Table /\ \A i \in Ids : RowOK(i, table[i])

AccountingInv ==
    /\ TypeOK
    /\ \A r \in Requests : PlaceOK(r)
    /\ \A i \in Ids : LegOK(i) /\ CallOK(i)
    /\ TableOK(row)
    /\ ~conflict

(* The micros of leg l that some reservation was admitted with.            *)
AdmittedMicros(table, l) ==
    {m \in Ids \X (1..MaxMicros) :
        /\ m[1][2] = l /\ ~Soft(m[1][1])
        /\ table[m[1]] # NoRow
        /\ m[2] <= table[m[1]].micros
        /\ m[2] <= Cost}
LimitsHold == \A l \in Legs : Cardinality(AdmittedMicros(row, l)) <= Limit

-----------------------------------------------------------------------------
LEMMA IdParts ==
    ASSUME NEW i \in Ids
    PROVE  i[1] \in Requests /\ i[2] \in Legs /\ i = <<i[1], i[2]>>
  BY AccountingType

LEMMA WindowOfLeg ==
    ASSUME NEW l \in Legs
    PROVE  WindowOf(l) \in Windows
<1>1. l \in Kinds /\ 0 \in 0..MaxTime
  BY AccountingType, ClockType
<1>2. Index[l][0] \in 0..MaxTime
  BY <1>1, CalendarType
<1> QED
  BY <1>1, <1>2 DEF WindowOf, WindowAt, Windows

(* What a ledger does to its rows keeps them in step with the worker.      *)
LEMMA MaintainedRowOK ==
    ASSUME AccountingInv, NEW i \in Ids, NEW x \in Row \cup {NoRow}, RowOK(i, x)
    PROVE  /\ MaintainedRow(x, now) \in Row \cup {NoRow}
           /\ RowOK(i, MaintainedRow(x, now))
<1> DEFINE n == MaintainedRow(x, now)
<1> SUFFICES n \in Row \cup {NoRow} /\ RowOK(i, n)
  OBVIOUS
<1>1. now \in 0..MaxTime
  BY DEF AccountingInv, TypeOK
<1>2. /\ n \in Row \cup {NoRow}
      /\ x = NoRow => n = NoRow
      /\ n # NoRow =>
           /\ x # NoRow
           /\ n.window = x.window /\ n.scope = x.scope
           /\ n.created = x.created /\ n.dispatched = x.dispatched
           /\ \/ n = x
              \/ /\ x.settled = 0 /\ x.dispatched /\ n.settled = 2
                 /\ n.micros = x.micros
              \/ /\ x.settled = 0 /\ ~x.dispatched /\ n.settled = 1
                 /\ n.micros = 0
      /\ x # NoRow /\ n = NoRow => x.created + Retention < now
  BY <1>1, MaintainedRowCases
<1>3. CASE x = NoRow
  BY <1>2, <1>3
<1>4. CASE x # NoRow
  <2>1. x \in Row /\ x.created \in Nat
    BY <1>4, ClockType DEF Row
  <2>2. n # NoRow
    BY <1>1, <1>2, <1>4, <2>1, ClockType, RunRetained
  <2> HIDE DEF n
  <2>3. CASE n = x
    BY <1>2, <2>3
  <2>4. CASE x.settled = 0 /\ x.dispatched /\ n.settled = 2 /\ n.micros = x.micros
    <3>1. x.settled # 1 /\ n.settled # 1
      BY <2>4
    <3>2. ~Soft(i[1])
      BY <1>4, <3>1 DEF RowOK
    <3>3. n.dispatched
      BY <1>2, <2>2, <2>4
    <3>4. x.micros = Cost
      BY <1>4, <3>1, <3>2 DEF RowOK
    <3> QED
      BY <1>2, <1>4, <2>2, <2>4, <3>1, <3>2, <3>3, <3>4 DEF RowOK
  <2>5. CASE x.settled = 0 /\ ~x.dispatched /\ n.settled = 1 /\ n.micros = 0
    <3>1. ~Soft(i[1]) /\ ~sent[i[1]] /\ leg[i] # "marked"
      BY <1>4, <2>5 DEF RowOK
    <3> QED
      BY <1>2, <1>4, <2>2, <2>5, <3>1 DEF RowOK, Billed
  <2> QED
    BY <1>2, <2>2, <2>3, <2>4, <2>5
<1> QED
  BY <1>3, <1>4

LEMMA MaintainedOK ==
    ASSUME AccountingInv, NEW l \in Legs
    PROVE  TableOK(ObjectMaintained(l))
<1>1. \A i \in Ids : row[i] \in Row \cup {NoRow} /\ RowOK(i, row[i])
  BY DEF AccountingInv, TableOK, Table
<1>2. \A i \in Ids : /\ ObjectMaintained(l)[i] \in Row \cup {NoRow}
                     /\ RowOK(i, ObjectMaintained(l)[i])
  BY <1>1, MaintainedRowOK DEF ObjectMaintained
<1>3. ObjectMaintained(l) \in Table
  BY <1>2 DEF ObjectMaintained, Table
<1> QED
  BY <1>2, <1>3 DEF TableOK

LEMMA ReservedOK ==
    ASSUME AccountingInv, NEW table, TableOK(table), NEW i \in Ids, ~Soft(i[1])
    PROVE  TableOK(Reserved(table, now, ReserveRequest(i)))
<1> DEFINE q == ReserveRequest(i)
           x == NewRow(q, now)
<1>1. /\ q.id = i /\ q.window = WindowOf(i[2]) /\ q.scope = NoScope /\ q.cost = Cost
      /\ q.dispatched \in BOOLEAN
  BY DEF ReserveRequest
<1>2. x \in Row /\ x # NoRow
  <2>1. now \in 0..MaxTime /\ Cost \in 0..MaxMicros /\ WindowOf(i[2]) \in Windows
    BY IdParts, WindowOfLeg, AccountingType DEF AccountingInv, TypeOK
  <2>2. x \in Row
    BY <1>1, <2>1 DEF NewRow, Row
  <2> QED
    BY <2>2, NullsAreNull
<1>3. x.window = WindowOf(i[2]) /\ x.scope = NoScope /\ x.settled = 0 /\ x.micros = Cost
  BY <1>1 DEF NewRow
<1>4. CASE ~Admits(table, q)
  BY <1>4 DEF Reserved
<1>5. CASE Admits(table, q)
  <2>1. Reserved(table, now, q) = [table EXCEPT ![i] = x]
    BY <1>1, <1>5 DEF Reserved
  <2>2. table[i] = NoRow /\ RowOK(i, table[i])
    BY <1>1, <1>5 DEF Admits, Known, TableOK
  <2> HIDE DEF x, q
  <2>3. RowOK(i, x)
    BY <1>2, <1>3, <2>2 DEF RowOK, Acknowledged
  <2> QED
    BY <1>2, <2>1, <2>3 DEF TableOK, Table, q
<1> QED
  BY <1>4, <1>5

LEMMA DispatchedOK ==
    ASSUME AccountingInv, NEW table, TableOK(table), NEW i \in Ids
    PROVE  TableOK(Dispatched(table, now, i))
<1>1. CASE ~Dispatchable(table, now, i)
  BY <1>1 DEF Dispatched
<1>2. CASE Dispatchable(table, now, i)
  <2> DEFINE x == [table[i] EXCEPT !.dispatched = TRUE]
  <2>1. table[i] \in Row /\ table[i] # NoRow /\ table[i].settled = 0 /\ RowOK(i, table[i])
    BY <1>2 DEF Dispatchable, Known, TableOK, Table
  <2>2. Dispatched(table, now, i) = [table EXCEPT ![i] = x]
    BY <1>2 DEF Dispatched
  <2>3. /\ x \in Row /\ x.window = table[i].window /\ x.scope = table[i].scope
        /\ x.settled = 0 /\ x.micros = table[i].micros /\ x.dispatched
    BY <2>1 DEF Row
  <2>4. x # NoRow
    BY <2>3, NullsAreNull
  <2> HIDE DEF x
  <2>5. RowOK(i, x)
    BY <2>1, <2>3, <2>4 DEF RowOK
  <2> QED
    BY <2>2, <2>3, <2>5 DEF TableOK, Table
<1> QED
  BY <1>1, <1>2

LEMMA SettledOK ==
    ASSUME AccountingInv, NEW table, TableOK(table), NEW i \in Ids, ~Soft(i[1]),
           leg[i] \in Finalized
    PROVE  /\ SettleAccepted(table, i, outcome[i[1]])
           /\ TableOK(Settled(table, i, outcome[i[1]]))
<1> DEFINE a == outcome[i[1]]
           x == Priced(table[i], a)
<1>1. i[1] \in Requests /\ a \in 0..MaxMicros /\ PlaceOK(i[1])
  BY IdParts DEF AccountingInv, TypeOK
<1>2. RowOK(i, table[i]) /\ table[i] # NoRow /\ table[i] \in Row
  BY DEF TableOK, Table, RowOK, Acknowledged
<1>3. a = Billed(i[1])
  BY <1>1 DEF PlaceOK, Billed
<1>4. table[i].dispatched \/ a = 0
  BY <1>1, <1>2 DEF PlaceOK, RowOK
<1>5. SettleAccepted(table, i, a)
  BY <1>2, <1>3, <1>4 DEF SettleAccepted, Known, RowOK
<1>6. Settled(table, i, a) = [table EXCEPT ![i] = x]
  BY <1>2, <1>5 DEF Settled, TableOK, Table
<1>7. /\ x \in Row /\ x.window = table[i].window /\ x.scope = table[i].scope
      /\ x.settled = 1 /\ x.micros = a /\ x.dispatched = table[i].dispatched
  BY <1>1, <1>2 DEF Row, Priced
<1>8. x # NoRow
  BY <1>7, NullsAreNull
<1> HIDE DEF x, a
<1>9. RowOK(i, x)
  BY <1>2, <1>3, <1>7, <1>8 DEF RowOK
<1> QED
  BY <1>5, <1>6, <1>7, <1>9 DEF TableOK, Table, a

LEMMA ChargedOK ==
    ASSUME AccountingInv, NEW table, TableOK(table), NEW i \in Ids, Soft(i[1]),
           leg[i] \in Finalized
    PROVE  /\ ChargeAccepted(table, ChargeOf(i))
           /\ TableOK(Charged(table, now, ChargeOf(i)))
<1> DEFINE c == ChargeOf(i)
           x == ChargeRow(c, now)
<1>1. i[1] \in Requests /\ outcome[i[1]] \in 0..MaxMicros /\ now \in 0..MaxTime
  BY IdParts DEF AccountingInv, TypeOK
<1>2. sent[i[1]] /\ Billed(i[1]) = outcome[i[1]]
  BY DEF AccountingInv, LegOK, Billed
<1>3. /\ c.id = i /\ c.window = WindowOf(i[2]) /\ c.scope = NoScope
      /\ c.amount = outcome[i[1]]
  BY DEF ChargeOf
<1>4. /\ x \in Row /\ x.window = WindowOf(i[2]) /\ x.scope = NoScope
      /\ x.settled = 1 /\ x.micros = outcome[i[1]] /\ x.dispatched
  BY <1>1, <1>3, IdParts, WindowOfLeg DEF Row, ChargeRow
<1>5. x # NoRow
  BY <1>4, NullsAreNull
<1> HIDE DEF c, x
<1>6. RowOK(i, table[i])
  BY DEF TableOK
<1>7. ChargeAccepted(table, c)
  BY <1>2, <1>3, <1>6 DEF ChargeAccepted, Known, RowOK
<1>8. RowOK(i, x)
  BY <1>2, <1>4, <1>5 DEF RowOK
<1>9. TableOK(Charged(table, now, c))
  <2>1. CASE Known(table, i)
    BY <1>3, <2>1 DEF Charged
  <2>2. CASE ~Known(table, i)
    <3>1. Charged(table, now, c) = [table EXCEPT ![i] = x]
      BY <1>3, <2>2 DEF Charged, x
    <3> QED
      BY <1>4, <1>8, <3>1 DEF TableOK, Table
  <2> QED
    BY <2>1, <2>2
<1> QED
  BY <1>7, <1>9 DEF c

(* Any call that may be on its way, and any message of the queue.          *)
LEMMA AppliedOK ==
    ASSUME AccountingInv, NEW table, TableOK(table), NEW i \in Ids,
           NEW operation \in Operations,
           operation \in {"reserve", "settle"} => ~Soft(i[1]),
           operation = "charge" => Soft(i[1]),
           operation \in {"settle", "charge"} => leg[i] \in Finalized
    PROVE  /\ TableOK(Applied(operation, i, table))
           /\ operation \in {"settle", "charge"} => Learned(operation, i, table) = "settled"
           /\ operation \in {"reserve", "dispatch"} =>
                 Learned(operation, i, table) \in {"failed", "held", "marked"}
<1>1. CASE operation = "reserve"
  BY <1>1, ReservedOK DEF Applied, Learned
<1>2. CASE operation = "dispatch"
  BY <1>2, DispatchedOK DEF Applied, Learned
<1>3. CASE operation = "settle"
  BY <1>3, SettledOK DEF Applied, Learned
<1>4. CASE operation = "charge"
  BY <1>4, ChargedOK DEF Applied, Learned
<1> QED
  BY <1>1, <1>2, <1>3, <1>4 DEF Operations

LEMMA CallsAndJobs ==
    ASSUME AccountingInv, NEW i \in Ids, NEW operation \in Operations,
           \/ <<operation, i>> \in net
           \/ operation = JobOf(i) /\ queue[i] >= 0
    PROVE  /\ operation \in {"reserve", "settle"} => ~Soft(i[1])
           /\ operation = "charge" => Soft(i[1])
           /\ operation \in {"settle", "charge"} => leg[i] \in Finalized
<1>1. CallOK(i)
  BY DEF AccountingInv
<1>2. CASE <<operation, i>> \in net
  BY <1>1, <1>2 DEF CallOK, Operations
<1>3. CASE operation = JobOf(i) /\ queue[i] >= 0
  BY <1>1, <1>3 DEF CallOK, JobOf, Soft
<1> QED
  BY <1>2, <1>3

(* What a heard reply of /reserve or /dispatch tells of the row.           *)
LEMMA LearnedHolds ==
    ASSUME AccountingInv, NEW table, TableOK(table), NEW i \in Ids
    PROVE  /\ Learned("reserve", i, table) \in {"held", "marked"} =>
                 Applied("reserve", i, table)[i] # NoRow
           /\ Learned("reserve", i, table) = "marked" =>
                 Applied("reserve", i, table)[i].dispatched
           /\ Learned("dispatch", i, table) = "marked" =>
                 /\ Applied("dispatch", i, table)[i] # NoRow
                 /\ Applied("dispatch", i, table)[i].dispatched
<1> DEFINE q == ReserveRequest(i)
<1>1. q.id = i
  BY DEF ReserveRequest
<1>2. table \in [Ids -> Row \cup {NoRow}]
  BY DEF TableOK, Table
<1>3. /\ Learned("reserve", i, table) =
            (IF ~Allowed(table, q) THEN "failed"
             ELSE IF AckedDispatched(table, now, q) THEN "marked" ELSE "held")
      /\ Applied("reserve", i, table) = Reserved(table, now, q)
      /\ Learned("dispatch", i, table) =
            (IF Dispatchable(table, now, i) THEN "marked" ELSE "failed")
      /\ Applied("dispatch", i, table) = Dispatched(table, now, i)
  BY DEF Learned, Applied
<1> HIDE DEF q
<1>4. ASSUME Allowed(table, q)
      PROVE  /\ Reserved(table, now, q)[i] # NoRow
             /\ AckedDispatched(table, now, q) => Reserved(table, now, q)[i].dispatched
  <2>1. CASE Admits(table, q)
    <3>1. Reserved(table, now, q)[i] = NewRow(q, now)
      BY <1>1, <1>2, <2>1 DEF Reserved
    <3>2. NewRow(q, now).dispatched = q.dispatched
      BY DEF NewRow
    <3>3. NewRow(q, now) # NoRow
      <4>1. /\ now \in 0..MaxTime /\ Cost \in 0..MaxMicros /\ WindowOf(i[2]) \in Windows
        BY IdParts, WindowOfLeg, AccountingType DEF AccountingInv, TypeOK
      <4>2. NewRow(q, now) \in Row
        BY <4>1 DEF NewRow, Row, q, ReserveRequest
      <4> QED
        BY <4>2, NullsAreNull
    <3> QED
      BY <3>1, <3>2, <3>3 DEF AckedDispatched
  <2>2. CASE ~Admits(table, q)
    <3>1. Reserved(table, now, q) = table /\ Known(table, i)
      BY <1>1, <1>4, <2>2 DEF Reserved, Admits, Allowed
    <3> QED
      BY <1>1, <2>2, <3>1 DEF AckedDispatched, Known
  <2> QED
    BY <2>1, <2>2
<1>5. ASSUME Dispatchable(table, now, i)
      PROVE  /\ Dispatched(table, now, i)[i] # NoRow
             /\ Dispatched(table, now, i)[i].dispatched
  <2>1. table[i] # NoRow /\ table[i] \in Row
    BY <1>2, <1>5 DEF Dispatchable, Known
  <2>2. Dispatched(table, now, i)[i] = [table[i] EXCEPT !.dispatched = TRUE]
    BY <1>2, <1>5 DEF Dispatched
  <2>3. [table[i] EXCEPT !.dispatched = TRUE] \in Row /\ [table[i] EXCEPT !.dispatched = TRUE].dispatched
    BY <2>1 DEF Row
  <2> QED
    BY <2>2, <2>3, NullsAreNull
<1> QED
  BY <1>3, <1>4, <1>5

-----------------------------------------------------------------------------
(* The steps of a worker.                                                  *)

(* The parts of the invariant about one id, and its frame: an id is not    *)
(* concerned by a step that leaves its request, leg, calls and row alone.  *)
IdOK(i) == LegOK(i) /\ CallOK(i) /\ RowOK(i, row[i])

Untouched(i) ==
    /\ pc'[i[1]] = pc[i[1]] /\ mode'[i[1]] = mode[i[1]]
    /\ outcome'[i[1]] = outcome[i[1]] /\ sent'[i[1]] = sent[i[1]]
    /\ leg'[i] = leg[i] /\ queue'[i] = queue[i] /\ row'[i] = row[i]
    /\ \A operation \in Operations : <<operation, i>> \in net' => <<operation, i>> \in net

LEMMA UntouchedOK ==
    ASSUME NEW i \in Ids, IdOK(i), Untouched(i)
    PROVE  IdOK(i)'
<1>1. Soft(i[1])' = Soft(i[1]) /\ Billed(i[1])' = Billed(i[1])
  BY DEF Untouched, Soft, Billed
<1>2. LegOK(i)'
  BY <1>1 DEF IdOK, LegOK, Untouched
<1>3. CallOK(i)'
  BY <1>1 DEF IdOK, CallOK, Untouched, Operations
<1>4. RowOK(i, row[i])'
  BY <1>1 DEF IdOK, RowOK, Untouched
<1> QED
  BY <1>2, <1>3, <1>4 DEF IdOK

LEMMA InvFromIds ==
    ASSUME TypeOK', \A r \in Requests : PlaceOK(r)', \A i \in Ids : IdOK(i)', ~conflict'
    PROVE  AccountingInv'
  BY DEF AccountingInv, IdOK, TableOK, TypeOK

LEMMA InvGivesIds ==
    ASSUME AccountingInv
    PROVE  TypeOK /\ (\A r \in Requests : PlaceOK(r)) /\ (\A i \in Ids : IdOK(i)) /\ ~conflict
  BY DEF AccountingInv, IdOK, TableOK

LEMMA PlanStep ==
    ASSUME AccountingInv, NEW r \in Requests, Plan(r)
    PROVE  AccountingInv'
<1>1. TypeOK /\ (\A q \in Requests : PlaceOK(q)) /\ (\A i \in Ids : IdOK(i)) /\ ~conflict
  BY InvGivesIds
<1>2. /\ pc[r] = "idle" /\ pc' = [pc EXCEPT ![r] = IF Soft(r) THEN "ready" ELSE "reserving"]
      /\ UNCHANGED <<row, now, mode, outcome, sent, queue, dlq, faults, conflict>>
      /\ Soft(r) => UNCHANGED <<leg, net>>
      /\ ~Soft(r) => /\ net' = net \cup {<<"reserve", i>> : i \in LegsOf(r)}
                     /\ leg' = [i \in Ids |-> IF i \in LegsOf(r) THEN "calling" ELSE leg[i]]
  BY DEF Plan, Soft, Goes, Call
<1>3. TypeOK'
  <2>1. pc' \in [Requests -> Places]
    BY <1>1, <1>2 DEF TypeOK, Places
  <2>2. leg' \in [Ids -> LegStates]
    BY <1>1, <1>2 DEF TypeOK, LegStates
  <2>3. net' \subseteq Operations \X Ids
    BY <1>1, <1>2 DEF TypeOK, Operations, LegsOf
  <2> QED
    BY <1>1, <1>2, <2>1, <2>2, <2>3 DEF TypeOK
<1>4. \A q \in Requests : PlaceOK(q)'
  BY <1>1, <1>2 DEF PlaceOK, TypeOK
<1>5. ASSUME NEW i \in Ids PROVE IdOK(i)'
  <2>1. i[1] \in Requests /\ IdOK(i)
    BY <1>1, IdParts
  <2>2. CASE i[1] # r
    <3>1. Untouched(i)
      BY <1>1, <1>2, <2>1, <2>2 DEF Untouched, TypeOK, LegsOf
    <3> QED
      BY <2>1, <3>1, UntouchedOK
  <2>3. CASE i[1] = r
    <3>1. /\ leg[i] = "none" /\ leg'[i] \in {"none", "calling"} /\ Soft(r)' = Soft(r)
          /\ pc'[r] = (IF Soft(r) THEN "ready" ELSE "reserving") /\ (Soft(r) => leg'[i] = "none")
          /\ Billed(r)' = Billed(r)
      BY <1>1, <1>2, <2>1, <2>3 DEF TypeOK, LegsOf, IdOK, LegOK, Soft, Billed
    <3>2. LegOK(i)'
      BY <1>2, <2>1, <2>3, <3>1 DEF LegOK, Finalized
    <3>3. CallOK(i)'
      BY <1>2, <2>1, <2>3, <3>1 DEF CallOK, IdOK, Finalized
    <3>4. RowOK(i, row[i])'
      BY <1>2, <2>1, <2>3, <3>1 DEF RowOK, IdOK, Finalized, Acknowledged, Admitted
    <3> QED
      BY <3>2, <3>3, <3>4 DEF IdOK
  <2> QED
    BY <2>2, <2>3
<1> QED
  BY <1>1, <1>2, <1>3, <1>4, <1>5, InvFromIds

(* accounting.settle, from each of the places it is called at.             *)
LEMMA FinalizeStep ==
    ASSUME AccountingInv, NEW r \in Requests, NEW legs \in SUBSET LegsOf(r),
           NEW amount \in 0..MaxMicros, Finalize(r, legs, amount),
           UNCHANGED <<row, now, mode, sent, queue, dlq, faults, conflict>>,
           pc[r] \in {"reserving", "reserved", "marking", "ready", "sent"},
           pc[r] # "sent" => amount = 0,
           Soft(r) /\ pc[r] # "sent" => legs = {},
           ~Soft(r) => \A i \in legs : row[i] # NoRow
    PROVE  AccountingInv'
<1> DEFINE operation == IF mode[r] = "soft" THEN "charge" ELSE "settle"
<1>1. TypeOK /\ (\A q \in Requests : PlaceOK(q)) /\ (\A i \in Ids : IdOK(i)) /\ ~conflict
  BY InvGivesIds
<1>2. /\ outcome' = [outcome EXCEPT ![r] = amount] /\ pc' = [pc EXCEPT ![r] = "finalizing"]
      /\ net' = net \cup {<<operation, i>> : i \in legs}
      /\ leg' = [i \in Ids |-> IF i \in legs THEN "owing" ELSE leg[i]]
      /\ operation \in Operations
  BY DEF Finalize, Call, Goes, Operations
<1>3. TypeOK'
  <2>1. pc' \in [Requests -> Places] /\ outcome' \in [Requests -> 0..MaxMicros]
    BY <1>1, <1>2 DEF TypeOK, Places
  <2>2. leg' \in [Ids -> LegStates]
    BY <1>1, <1>2 DEF TypeOK, LegStates
  <2>3. net' \subseteq Operations \X Ids
    BY <1>1, <1>2 DEF TypeOK, LegsOf
  <2> QED
    BY <1>1, <2>1, <2>2, <2>3 DEF TypeOK
<1>4. \A q \in Requests : PlaceOK(q)'
  BY <1>1, <1>2 DEF PlaceOK, TypeOK
<1>5. ASSUME NEW i \in Ids PROVE IdOK(i)'
  <2>1. i[1] \in Requests /\ IdOK(i)
    BY <1>1, IdParts
  <2>2. CASE i[1] # r
    <3>1. Untouched(i)
      BY <1>1, <1>2, <2>1, <2>2 DEF Untouched, TypeOK, LegsOf
    <3> QED
      BY <2>1, <3>1, UntouchedOK
  <2>3. CASE i[1] = r
    <3>1. /\ Soft(r)' = Soft(r) /\ pc'[r] = "finalizing" /\ outcome'[r] = amount
          /\ sent'[r] = sent[r] /\ PlaceOK(r) /\ leg[i] \notin Finalized
          /\ (sent[r] <=> pc[r] = "sent")
          /\ leg'[i] = (IF i \in legs THEN "owing" ELSE leg[i])
          /\ row'[i] = row[i] /\ queue'[i] = queue[i]
      BY <1>1, <1>2, <2>1, <2>3 DEF TypeOK, IdOK, LegOK, Soft, PlaceOK
    <3>2. LegOK(i)'
      BY <2>1, <2>3, <3>1 DEF LegOK, IdOK, Finalized
    <3>3. CallOK(i)'
      BY <1>2, <2>1, <2>3, <3>1 DEF CallOK, IdOK, Finalized, Soft
    <3>4. row[i] # NoRow => row[i].settled # 1 \/ ~sent[r]
      BY <2>1, <2>3, <3>1 DEF IdOK, RowOK
    <3>5. Billed(r)' = Billed(r) \/ sent[r]
      BY <3>1 DEF Billed
    <3>6. ~Soft(r) => /\ leg'[i] \in Acknowledged => row[i] # NoRow
                      /\ leg'[i] = "marked" => leg[i] = "marked"
      BY <2>1, <2>3, <3>1 DEF IdOK, RowOK, Acknowledged
    <3>7. RowOK(i, row[i])'
      BY <2>1, <2>3, <3>1, <3>4, <3>5, <3>6 DEF RowOK, IdOK, Admitted
    <3> QED
      BY <3>2, <3>3, <3>7 DEF IdOK
  <2> QED
    BY <2>2, <2>3
<1> QED
  BY <1>1, <1>3, <1>4, <1>5, InvFromIds

(* A worker moves on, and nothing else happens.                            *)
LEMMA MoveStep ==
    ASSUME AccountingInv, NEW r \in Requests, NEW place \in {"reserved", "ready"},
           Goes(r, place), pc[r] \in {"reserving", "marking"},
           UNCHANGED <<row, now, mode, leg, outcome, sent, net, queue, dlq, faults, conflict>>,
           \A i \in LegsOf(r) : leg[i] \in {"held", "marked"},
           place = "ready" => \A i \in LegsOf(r) : leg[i] = "marked"
    PROVE  AccountingInv'
<1>1. TypeOK /\ (\A q \in Requests : PlaceOK(q)) /\ (\A i \in Ids : IdOK(i)) /\ ~conflict
  BY InvGivesIds
<1>2. pc' = [pc EXCEPT ![r] = place]
  BY DEF Goes
<1>3. TypeOK'
  <2>1. pc' \in [Requests -> Places]
    BY <1>1, <1>2 DEF TypeOK, Places
  <2> QED
    BY <1>1, <2>1 DEF TypeOK
<1>4. \A q \in Requests : PlaceOK(q)'
  BY <1>1, <1>2 DEF PlaceOK, TypeOK
<1>5. ASSUME NEW i \in Ids PROVE IdOK(i)'
  <2>1. i[1] \in Requests /\ IdOK(i)
    BY <1>1, IdParts
  <2>2. CASE i[1] # r
    <3>1. Untouched(i)
      BY <1>1, <1>2, <2>1, <2>2 DEF Untouched, TypeOK
    <3> QED
      BY <2>1, <3>1, UntouchedOK
  <2>3. CASE i[1] = r
    <3>1. /\ leg[i] \in {"held", "marked"} /\ (place = "ready" => leg[i] = "marked")
          /\ pc'[r] = place /\ Soft(r)' = Soft(r) /\ Billed(r)' = Billed(r)
      BY <1>1, <1>2, <2>1, <2>3 DEF TypeOK, LegsOf, Soft, Billed
    <3>2. ~Soft(r)
      BY <2>1, <2>3, <3>1 DEF IdOK, LegOK, Finalized
    <3>3. LegOK(i)'
      BY <2>1, <2>3, <3>1, <3>2 DEF LegOK, Finalized
    <3>4. CallOK(i)'
      BY <2>1, <2>3, <3>1 DEF CallOK, IdOK
    <3>5. RowOK(i, row[i])'
      BY <2>1, <2>3, <3>1, <3>2 DEF RowOK, IdOK, Acknowledged
    <3> QED
      BY <3>3, <3>4, <3>5 DEF IdOK
  <2> QED
    BY <2>2, <2>3
<1> QED
  BY <1>1, <1>3, <1>4, <1>5, InvFromIds

LEMMA FulfilledLegs ==
    ASSUME AccountingInv, NEW r \in Requests
    PROVE  /\ Fulfilled(r) \in SUBSET LegsOf(r)
           /\ Soft(r) => Fulfilled(r) = {}
           /\ ~Soft(r) => \A i \in Fulfilled(r) : row[i] # NoRow
<1>1. \A i \in Ids : IdOK(i)
  BY InvGivesIds
<1>2. Fulfilled(r) = {i \in Ids : i[1] = r /\ leg[i] \in {"held", "marked"}}
  BY DEF Fulfilled, LegsOf
<1>3. Soft(r) => Fulfilled(r) = {}
  BY <1>1, <1>2 DEF IdOK, LegOK, Finalized
<1>4. ~Soft(r) => \A i \in Fulfilled(r) : row[i] # NoRow
  BY <1>1, <1>2 DEF IdOK, RowOK, Acknowledged
<1> QED
  BY <1>3, <1>4 DEF Fulfilled

LEMMA ReserveDoneStep ==
    ASSUME AccountingInv, NEW r \in Requests, ReserveDone(r)
    PROVE  AccountingInv'
<1>1. /\ pc[r] = "reserving"
      /\ UNCHANGED <<row, now, mode, sent, queue, dlq, faults, conflict>>
  BY DEF ReserveDone
<1>2. CASE Fulfilled(r) = LegsOf(r)
  <2>1. Goes(r, "reserved") /\ UNCHANGED <<leg, net, outcome>>
    BY <1>2 DEF ReserveDone
  <2>2. \A i \in LegsOf(r) : leg[i] \in {"held", "marked"}
    BY <1>2 DEF Fulfilled
  <2> QED
    BY <1>1, <2>1, <2>2, MoveStep
<1>3. CASE Fulfilled(r) # LegsOf(r)
  <2>1. Finalize(r, Fulfilled(r), 0)
    BY <1>3 DEF ReserveDone
  <2> QED
    BY <1>1, <2>1, FulfilledLegs, FinalizeStep, MicrosType
<1> QED
  BY <1>2, <1>3

(* Every leg of a request of reserve mode has its row while it is marked.  *)
LEMMA MarkingLegs ==
    ASSUME AccountingInv, NEW r \in Requests, pc[r] \in Admitted, ~Soft(r)
    PROVE  \A i \in LegsOf(r) : row[i] # NoRow
<1>1. \A i \in Ids : IdOK(i)
  BY InvGivesIds
<1> QED
  BY <1>1 DEF IdOK, RowOK, LegsOf

LEMMA MarkDoneStep ==
    ASSUME AccountingInv, NEW r \in Requests, MarkDone(r)
    PROVE  AccountingInv'
<1>1. /\ pc[r] = "marking"
      /\ UNCHANGED <<row, now, mode, sent, queue, dlq, faults, conflict>>
  BY DEF MarkDone
<1>2. CASE Fulfilled(r) = LegsOf(r)
  <2>1. Goes(r, "ready") /\ UNCHANGED <<leg, net, outcome>>
    BY <1>2 DEF MarkDone
  <2>2. \A i \in LegsOf(r) : leg[i] \in {"held", "marked"} /\ i \in Ids /\ i[1] = r
    BY <1>2 DEF Fulfilled, LegsOf
  <2>3. \A i \in LegsOf(r) : leg[i] = "marked"
    BY <1>1, <2>2, InvGivesIds DEF IdOK, LegOK, Finalized
  <2> QED
    BY <1>1, <2>1, <2>3, MoveStep
<1>3. CASE Fulfilled(r) # LegsOf(r)
  <2>1. Finalize(r, LegsOf(r), 0)
    BY <1>3 DEF MarkDone
  <2>2. Soft(r) => LegsOf(r) = {}
    <3>1. \A i \in Ids : i[1] = r /\ Soft(r) => FALSE
      BY <1>1, InvGivesIds DEF IdOK, LegOK
    <3> QED
      BY <3>1 DEF LegsOf
  <2>3. ~Soft(r) => \A i \in LegsOf(r) : row[i] # NoRow
    BY <1>1, MarkingLegs DEF Admitted
  <2> QED
    BY <1>1, <2>1, <2>2, <2>3, FinalizeStep, MicrosType
<1> QED
  BY <1>2, <1>3

LEMMA AbandonStep ==
    ASSUME AccountingInv, NEW r \in Requests, Abandon(r)
    PROVE  AccountingInv'
  BY FulfilledLegs, FinalizeStep, MicrosType DEF Abandon

LEMMA RespondStep ==
    ASSUME AccountingInv, NEW r \in Requests, Respond(r) \/ SoftDeny(r)
    PROVE  AccountingInv'
<1>1. /\ pc[r] = "sent"
      /\ UNCHANGED <<row, now, mode, sent, queue, dlq, faults, conflict>>
  BY DEF Respond, SoftDeny
<1>2. ~Soft(r) => \A i \in LegsOf(r) : row[i] # NoRow
  BY <1>1, MarkingLegs DEF Admitted
<1>3. CASE Respond(r)
  <2>1. PICK amount \in 0..MaxMicros : Finalize(r, LegsOf(r), amount)
    BY <1>3 DEF Respond
  <2> QED
    BY <1>1, <1>2, <2>1, FinalizeStep
<1>4. CASE SoftDeny(r)
  <2>1. Finalize(r, {}, 0) /\ {} \in SUBSET LegsOf(r)
    BY <1>4 DEF SoftDeny
  <2> QED
    BY <1>1, <2>1, FinalizeStep, MicrosType
<1> QED
  BY <1>3, <1>4

LEMMA MarkStep ==
    ASSUME AccountingInv, NEW r \in Requests, Mark(r)
    PROVE  AccountingInv'
<1> DEFINE legs == {i \in LegsOf(r) : leg[i] = "held"}
<1>1. TypeOK /\ (\A q \in Requests : PlaceOK(q)) /\ (\A i \in Ids : IdOK(i)) /\ ~conflict
  BY InvGivesIds
<1>2. /\ pc[r] = "reserved" /\ pc' = [pc EXCEPT ![r] = "marking"]
      /\ net' = net \cup {<<"dispatch", i>> : i \in legs}
      /\ leg' = [i \in Ids |-> IF i \in legs THEN "calling" ELSE leg[i]]
      /\ UNCHANGED <<row, now, mode, outcome, sent, queue, dlq, faults, conflict>>
  BY DEF Mark, Call, Goes
<1>3. TypeOK'
  <2>1. pc' \in [Requests -> Places]
    BY <1>1, <1>2 DEF TypeOK, Places
  <2>2. leg' \in [Ids -> LegStates]
    BY <1>1, <1>2 DEF TypeOK, LegStates
  <2>3. net' \subseteq Operations \X Ids
    BY <1>1, <1>2 DEF TypeOK, LegsOf, Operations
  <2> QED
    BY <1>1, <1>2, <2>1, <2>2, <2>3 DEF TypeOK
<1>4. \A q \in Requests : PlaceOK(q)'
  BY <1>1, <1>2 DEF PlaceOK, TypeOK
<1>5. ASSUME NEW i \in Ids PROVE IdOK(i)'
  <2>1. i[1] \in Requests /\ IdOK(i)
    BY <1>1, IdParts
  <2>2. CASE i[1] # r
    <3>1. Untouched(i)
      BY <1>1, <1>2, <2>1, <2>2 DEF Untouched, TypeOK, LegsOf
    <3> QED
      BY <2>1, <3>1, UntouchedOK
  <2>3. CASE i[1] = r
    <3>1. /\ Soft(r)' = Soft(r) /\ Billed(r)' = Billed(r) /\ pc'[r] = "marking"
          /\ sent'[r] = sent[r] /\ row'[i] = row[i] /\ queue'[i] = queue[i]
      BY <1>1, <1>2, <2>1, <2>3 DEF TypeOK, Soft, Billed
    <3>2. ~Soft(r) /\ leg[i] \in {"held", "marked"} /\ row[i] # NoRow
      BY <1>2, <2>1, <2>3 DEF IdOK, LegOK, RowOK, Admitted
    <3>3. leg'[i] = (IF leg[i] = "held" THEN "calling" ELSE leg[i])
      BY <1>2, <2>3 DEF LegsOf
    <3>4. LegOK(i)'
      BY <2>1, <2>3, <3>1, <3>2, <3>3 DEF LegOK, IdOK, Finalized
    <3>5. CallOK(i)'
      BY <1>2, <2>1, <2>3, <3>1, <3>2, <3>3 DEF CallOK, IdOK, Finalized
    <3>6. RowOK(i, row[i])'
      BY <2>1, <2>3, <3>1, <3>2, <3>3 DEF RowOK, IdOK, Finalized
    <3> QED
      BY <3>4, <3>5, <3>6 DEF IdOK
  <2> QED
    BY <2>2, <2>3
<1> QED
  BY <1>1, <1>2, <1>3, <1>4, <1>5, InvFromIds

(* Send, and the death of a worker.                                        *)
LEMMA SendStep ==
    ASSUME AccountingInv, NEW r \in Requests, Send(r)
    PROVE  AccountingInv'
<1>1. TypeOK /\ (\A q \in Requests : PlaceOK(q)) /\ (\A i \in Ids : IdOK(i)) /\ ~conflict
  BY InvGivesIds
<1>2. /\ pc[r] = "ready" /\ pc' = [pc EXCEPT ![r] = "sent"] /\ sent' = [sent EXCEPT ![r] = TRUE]
      /\ UNCHANGED <<row, now, mode, leg, outcome, net, queue, dlq, faults, conflict>>
  BY DEF Send, Goes
<1>3. TypeOK'
  <2>1. pc' \in [Requests -> Places]
    BY <1>1, <1>2 DEF TypeOK, Places
  <2>2. sent' \in [Requests -> BOOLEAN]
    BY <1>1, <1>2 DEF TypeOK
  <2> QED
    BY <1>1, <1>2, <2>1, <2>2 DEF TypeOK
<1>4. \A q \in Requests : PlaceOK(q)'
  BY <1>1, <1>2 DEF PlaceOK, TypeOK
<1>5. ASSUME NEW i \in Ids PROVE IdOK(i)'
  <2>1. i[1] \in Requests /\ IdOK(i)
    BY <1>1, IdParts
  <2>2. CASE i[1] # r
    <3>1. Untouched(i)
      BY <1>1, <1>2, <2>1, <2>2 DEF Untouched, TypeOK
    <3> QED
      BY <2>1, <3>1, UntouchedOK
  <2>3. CASE i[1] = r
    <3>1. /\ Soft(r)' = Soft(r) /\ pc'[r] = "sent" /\ sent'[r] /\ ~sent[r]
          /\ outcome'[r] = 0 /\ row'[i] = row[i] /\ queue'[i] = queue[i] /\ leg'[i] = leg[i]
      BY <1>1, <1>2, <2>1, <2>3 DEF TypeOK, Soft, PlaceOK
    <3>2. leg[i] \notin Finalized /\ (~Soft(r) => leg[i] = "marked")
      BY <1>2, <2>1, <2>3 DEF IdOK, LegOK
    <3>3. Billed(r)' = 0 /\ Billed(r) = 0
      BY <3>1 DEF Billed
    <3>4. LegOK(i)'
      BY <1>2, <2>1, <2>3, <3>1, <3>2 DEF LegOK, IdOK
    <3>5. CallOK(i)'
      BY <1>2, <2>1, <2>3, <3>1 DEF CallOK, IdOK
    <3>6. RowOK(i, row[i])'
      BY <2>1, <2>3, <3>1, <3>2, <3>3 DEF RowOK, IdOK, Acknowledged
    <3> QED
      BY <3>4, <3>5, <3>6 DEF IdOK
  <2> QED
    BY <2>2, <2>3
<1> QED
  BY <1>1, <1>2, <1>3, <1>4, <1>5, InvFromIds

LEMMA DieStep ==
    ASSUME AccountingInv, NEW r \in Requests, Die(r)
    PROVE  AccountingInv'
<1>1. TypeOK /\ (\A q \in Requests : PlaceOK(q)) /\ (\A i \in Ids : IdOK(i)) /\ ~conflict
  BY InvGivesIds
<1>2. /\ pc[r] \notin {"idle", "dead"} /\ pc' = [pc EXCEPT ![r] = "dead"]
      /\ faults < MaxFaults /\ faults' = faults + 1
      /\ UNCHANGED <<row, now, mode, leg, outcome, sent, net, queue, dlq, conflict>>
  BY DEF Die, Goes, Fault
<1>3. TypeOK'
  <2>1. pc' \in [Requests -> Places] /\ faults' \in 0..MaxFaults
    BY <1>1, <1>2, AccountingType DEF TypeOK, Places
  <2> QED
    BY <1>1, <1>2, <2>1 DEF TypeOK
<1>4. \A q \in Requests : PlaceOK(q)'
  BY <1>1, <1>2 DEF PlaceOK, TypeOK
<1>5. ASSUME NEW i \in Ids PROVE IdOK(i)'
  <2>1. i[1] \in Requests /\ IdOK(i)
    BY <1>1, IdParts
  <2>2. CASE i[1] # r
    <3>1. Untouched(i)
      BY <1>1, <1>2, <2>1, <2>2 DEF Untouched, TypeOK
    <3> QED
      BY <2>1, <3>1, UntouchedOK
  <2>3. CASE i[1] = r
    <3>1. /\ Soft(r)' = Soft(r) /\ Billed(r)' = Billed(r) /\ pc'[r] = "dead"
      BY <1>1, <1>2, <2>1, <2>3 DEF TypeOK, Soft, Billed
    <3>2. LegOK(i)'
      BY <1>2, <2>1, <2>3, <3>1 DEF LegOK, IdOK
    <3>3. CallOK(i)'
      BY <1>2, <2>1, <2>3, <3>1 DEF CallOK, IdOK
    <3>4. RowOK(i, row[i])'
      BY <1>2, <2>1, <2>3, <3>1 DEF RowOK, IdOK, Admitted
    <3> QED
      BY <3>2, <3>3, <3>4 DEF IdOK
  <2> QED
    BY <2>2, <2>3
<1> QED
  BY <1>1, <1>2, <1>3, <1>4, <1>5, InvFromIds

-----------------------------------------------------------------------------
(* The steps of the ledgers, the network and the queue.                    *)

(* What the worker may learn of a leg without moving on.                   *)
Learns(i) ==
    \/ leg'[i] = leg[i]
    \/ leg[i] \in Finalized /\ leg'[i] \in Finalized
    \/ /\ leg[i] = "calling" /\ pc[i[1]] \in {"reserving", "marking"}
       /\ \/ leg'[i] = "failed"
          \/ leg'[i] = "held" /\ pc[i[1]] = "reserving" /\ row'[i] # NoRow
          \/ leg'[i] = "marked" /\ row'[i] # NoRow /\ row'[i].dispatched

LEMMA LearnStep ==
    ASSUME AccountingInv, TypeOK', ~conflict', TableOK(row'),
           UNCHANGED <<pc, mode, outcome, sent>>, net' \in SUBSET net,
           \A i \in Ids : Learns(i),
           \A i \in Ids : queue'[i] >= 0 => leg'[i] \in Finalized
    PROVE  AccountingInv'
<1>1. TypeOK /\ (\A q \in Requests : PlaceOK(q)) /\ (\A i \in Ids : IdOK(i)) /\ ~conflict
  BY InvGivesIds
<1>2. \A q \in Requests : PlaceOK(q)'
  BY <1>1 DEF PlaceOK
<1>3. ASSUME NEW i \in Ids PROVE IdOK(i)'
  <2>1. IdOK(i) /\ RowOK(i, row'[i]) /\ Learns(i)
    BY <1>1 DEF TableOK
  <2>2. Soft(i[1])' = Soft(i[1]) /\ Billed(i[1])' = Billed(i[1])
    BY DEF Soft, Billed
  <2>3. leg[i] = "calling" => ~Soft(i[1])
    BY <2>1 DEF IdOK, LegOK, Finalized
  <2>4. leg[i] \in Finalized => leg'[i] \in Finalized
    BY <2>1 DEF Learns, Finalized
  <2>5. CallOK(i)'
    BY <2>1, <2>2, <2>4 DEF CallOK, IdOK
  <2>6. LegOK(i)' /\ RowOK(i, row[i])'
    <3>1. CASE leg'[i] = leg[i]
      BY <2>1, <2>2, <3>1 DEF LegOK, RowOK, IdOK
    <3>2. CASE leg[i] \in Finalized /\ leg'[i] \in Finalized
      <4>1. leg[i] \notin {"none", "calling", "failed", "held", "marked"}
        BY <3>2 DEF Finalized
      <4>2. leg'[i] \notin {"none", "calling", "failed", "held", "marked"}
        BY <3>2 DEF Finalized
      <4>3. LegOK(i)'
        BY <2>1, <2>2, <3>2, <4>1, <4>2 DEF LegOK, IdOK
      <4> QED
        BY <2>1, <2>2, <3>2, <4>2, <4>3 DEF RowOK, Acknowledged
    <3>3. CASE /\ leg[i] = "calling" /\ pc[i[1]] \in {"reserving", "marking"}
               /\ leg'[i] \in {"failed", "held", "marked"}
      <4>1. leg[i] \notin Finalized /\ leg'[i] \notin Finalized
        BY <3>3 DEF Finalized
      <4>2. /\ leg'[i] \in {"held", "marked"} => row'[i] # NoRow
            /\ leg'[i] = "held" => pc[i[1]] = "reserving"
            /\ leg'[i] = "marked" => row'[i].dispatched
        BY <2>1, <3>3, <4>1 DEF Learns
      <4>3. LegOK(i)'
        BY <2>1, <2>2, <2>3, <3>3, <4>1, <4>2 DEF LegOK, IdOK
      <4>4. ~Soft(i[1]) /\ leg'[i] \in Acknowledged => row'[i] # NoRow
        BY <3>3, <4>1, <4>2 DEF Acknowledged
      <4>5. RowOK(i, row[i])'
        BY <2>1, <2>2, <2>3, <3>3, <4>1, <4>2, <4>4 DEF RowOK
      <4> QED
        BY <4>3, <4>5
    <3> QED
      BY <2>1, <3>1, <3>2, <3>3 DEF Learns
  <2> QED
    BY <2>5, <2>6 DEF IdOK
<1> QED
  BY <1>2, <1>3, InvFromIds

LEMMA FaultType ==
    ASSUME TypeOK, Fault \/ UNCHANGED faults
    PROVE  faults' \in 0..MaxFaults
  BY AccountingType DEF TypeOK, Fault

LEMMA ServeStep ==
    ASSUME AccountingInv, NEW m \in net, Serve(m)
    PROVE  AccountingInv'
<1> DEFINE i == m[2]
           operation == m[1]
           table == ObjectMaintained(i[2])
<1>1. TypeOK /\ (\A j \in Ids : IdOK(j)) /\ ~conflict
  BY InvGivesIds
<1>2. m = <<operation, i>> /\ operation \in Operations /\ i \in Ids
  BY <1>1 DEF TypeOK
<1>3. i[2] \in Legs /\ i[1] \in Requests
  BY <1>2, IdParts
<1>4. TableOK(table)
  BY <1>3, MaintainedOK
<1>5. /\ net' = net \ {m} /\ row' = Applied(operation, i, table)
      /\ leg' = (IF Awaits(operation, i)
                 THEN [leg EXCEPT ![i] = Learned(operation, i, table)] ELSE leg)
      /\ conflict' = (conflict \/ Learned(operation, i, table) = "failing")
      /\ UNCHANGED <<now, pc, mode, outcome, sent, queue, dlq, faults>>
  BY DEF Serve
<1> HIDE DEF table, i, operation
<1>6. /\ operation \in {"reserve", "settle"} => ~Soft(i[1])
      /\ operation = "charge" => Soft(i[1])
      /\ operation \in {"settle", "charge"} => leg[i] \in Finalized
  BY <1>2, CallsAndJobs
<1>7. /\ TableOK(Applied(operation, i, table))
      /\ operation \in {"settle", "charge"} => Learned(operation, i, table) = "settled"
      /\ operation \in {"reserve", "dispatch"} =>
            Learned(operation, i, table) \in {"failed", "held", "marked"}
  BY <1>2, <1>4, <1>6, AppliedOK
<1>8. Learned(operation, i, table) \in LegStates \ {"failing"}
  BY <1>2, <1>7 DEF Operations, LegStates
<1>9. TypeOK' /\ ~conflict' /\ TableOK(row')
  <2>1. row' \in Table
    BY <1>5, <1>7 DEF TableOK
  <2>2. leg' \in [Ids -> LegStates]
    BY <1>1, <1>5, <1>8 DEF TypeOK
  <2>3. ~conflict' /\ conflict' \in BOOLEAN
    BY <1>1, <1>5, <1>8
  <2> QED
    BY <1>1, <1>5, <1>7, <2>1, <2>2, <2>3 DEF TypeOK
<1>10. ASSUME Awaits(operation, i) PROVE Learns(i)
  <2>1. leg'[i] = Learned(operation, i, table)
    BY <1>1, <1>2, <1>5, <1>10 DEF TypeOK
  <2>2. CASE operation \in {"settle", "charge"}
    BY <1>6, <1>7, <2>1, <2>2 DEF Learns, Finalized
  <2>3. CASE operation = "reserve"
    <3>1. pc[i[1]] = "reserving" /\ leg[i] = "calling"
      BY <1>10, <2>3 DEF Awaits
    <3>2. /\ leg'[i] \in {"held", "marked"} => row'[i] # NoRow
          /\ leg'[i] = "marked" => row'[i].dispatched
      BY <1>2, <1>4, <1>5, <2>1, <2>3, LearnedHolds
    <3> QED
      BY <1>7, <2>1, <2>3, <3>1, <3>2 DEF Learns
  <2>4. CASE operation = "dispatch"
    <3>1. pc[i[1]] = "marking" /\ leg[i] = "calling"
      BY <1>10, <2>4 DEF Awaits
    <3>2. leg'[i] = "marked" => row'[i] # NoRow /\ row'[i].dispatched
      BY <1>2, <1>4, <1>5, <2>1, <2>4, LearnedHolds
    <3>3. leg'[i] \in {"failed", "marked"}
      BY <2>1, <2>4 DEF Learned
    <3> QED
      BY <3>1, <3>2, <3>3 DEF Learns
  <2> QED
    BY <1>2, <2>2, <2>3, <2>4 DEF Operations
<1>11. \A j \in Ids : Learns(j)
  <2> SUFFICES ASSUME NEW j \in Ids PROVE Learns(j)
    OBVIOUS
  <2>1. CASE j = i /\ Awaits(operation, i)
    BY <1>10, <2>1
  <2>2. CASE ~(j = i /\ Awaits(operation, i))
    <3>1. leg'[j] = leg[j]
      BY <1>1, <1>2, <1>5, <2>2 DEF TypeOK
    <3> QED
      BY <3>1 DEF Learns
  <2> QED
    BY <2>1, <2>2
<1>12. \A j \in Ids : queue'[j] >= 0 => leg'[j] \in Finalized
  <2> SUFFICES ASSUME NEW j \in Ids, queue[j] >= 0 PROVE leg'[j] \in Finalized
    BY <1>5
  <2>1. leg[j] \in Finalized
    BY <1>1 DEF IdOK, CallOK
  <2> QED
    BY <1>11, <2>1 DEF Learns, Finalized
<1> QED
  BY <1>5, <1>9, <1>11, <1>12, LearnStep

LEMMA ServeUnheardStep ==
    ASSUME AccountingInv, NEW m \in net, ServeUnheard(m) \/ Drop(m)
    PROVE  AccountingInv'
<1> DEFINE i == m[2]
           operation == m[1]
           table == ObjectMaintained(i[2])
<1>1. TypeOK /\ (\A j \in Ids : IdOK(j)) /\ ~conflict /\ TableOK(row)
  BY InvGivesIds DEF AccountingInv
<1>2. m = <<operation, i>> /\ operation \in Operations /\ i \in Ids
  BY <1>1 DEF TypeOK
<1>3. TableOK(table)
  BY <1>2, IdParts, MaintainedOK
<1>4. /\ net' = net \ {m} /\ (row' = Applied(operation, i, table) \/ row' = row)
      /\ Fault
      /\ UNCHANGED <<now, pc, mode, leg, outcome, sent, queue, dlq, conflict>>
  BY DEF ServeUnheard, Drop
<1> HIDE DEF table, i, operation
<1>5. TableOK(Applied(operation, i, table))
  BY <1>2, <1>3, CallsAndJobs, AppliedOK
<1>6. TableOK(row')
  BY <1>1, <1>4, <1>5
<1>7. TypeOK'
  BY <1>1, <1>4, <1>6, FaultType DEF TypeOK, TableOK
<1>8. \A j \in Ids : Learns(j) /\ (queue'[j] >= 0 => leg'[j] \in Finalized)
  BY <1>1, <1>4 DEF Learns, IdOK, CallOK
<1> QED
  BY <1>1, <1>4, <1>6, <1>7, <1>8, LearnStep

(* A call fails in the worker.                                             *)
LEMMA GivenUpStep ==
    ASSUME AccountingInv, NEW i \in Ids, NEW operation \in Operations,
           Awaits(operation, i), GivenUp(i), Fault \/ UNCHANGED faults
    PROVE  AccountingInv'
<1>1. TypeOK /\ (\A j \in Ids : IdOK(j)) /\ ~conflict /\ TableOK(row)
  BY InvGivesIds DEF AccountingInv
<1>2. /\ leg' = [leg EXCEPT ![i] = IF leg[i] = "owing" THEN "failing" ELSE "failed"]
      /\ UNCHANGED <<row, now, pc, mode, outcome, sent, net, queue, dlq, conflict>>
  BY DEF GivenUp
<1>3. \/ leg[i] = "owing"
      \/ leg[i] = "calling" /\ pc[i[1]] \in {"reserving", "marking"}
  BY DEF Awaits, Operations
<1>4. TypeOK'
  <2>1. leg' \in [Ids -> LegStates]
    BY <1>1, <1>2 DEF TypeOK, LegStates
  <2> QED
    BY <1>1, <1>2, <2>1, FaultType DEF TypeOK
<1>5. \A j \in Ids : Learns(j)
  BY <1>1, <1>2, <1>3 DEF Learns, TypeOK, Finalized
<1>6. \A j \in Ids : queue'[j] >= 0 => leg'[j] \in Finalized
  BY <1>1, <1>2, <1>3 DEF IdOK, CallOK, TypeOK, Finalized
<1> QED
  BY <1>1, <1>2, <1>4, <1>5, <1>6, LearnStep

LEMMA EnqueueStep ==
    ASSUME AccountingInv, NEW i \in Ids, Enqueue(i) \/ EnqueueFails(i)
    PROVE  AccountingInv'
<1>1. TypeOK /\ (\A j \in Ids : IdOK(j)) /\ ~conflict /\ TableOK(row)
  BY InvGivesIds DEF AccountingInv
<1>2. /\ leg[i] = "failing"
      /\ queue' \in {queue, [queue EXCEPT ![i] = 0]}
      /\ leg' \in {[leg EXCEPT ![i] = "queued"], [leg EXCEPT ![i] = "lost"]}
      /\ Fault \/ UNCHANGED faults
      /\ UNCHANGED <<row, now, pc, mode, outcome, sent, net, dlq, conflict>>
  BY DEF Enqueue, EnqueueFails
<1>3. TypeOK'
  <2>1. leg' \in [Ids -> LegStates]
    BY <1>1, <1>2 DEF TypeOK, LegStates
  <2>2. queue' \in [Ids -> -1..MaxRetries]
    BY <1>1, <1>2, AccountingType DEF TypeOK
  <2> QED
    BY <1>1, <1>2, <2>1, <2>2, FaultType DEF TypeOK
<1>4. \A j \in Ids : Learns(j)
  BY <1>1, <1>2 DEF Learns, TypeOK, Finalized
<1>5. \A j \in Ids : queue'[j] >= 0 => leg'[j] \in Finalized
  BY <1>1, <1>2 DEF IdOK, CallOK, TypeOK, Finalized
<1> QED
  BY <1>1, <1>2, <1>3, <1>4, <1>5, LearnStep

LEMMA RetriedType ==
    ASSUME TypeOK, NEW i \in Ids, queue[i] >= 0,
           \/ Retried(i)
           \/ queue' = [queue EXCEPT ![i] = -1] /\ UNCHANGED dlq
    PROVE  /\ queue' \in [Ids -> -1..MaxRetries] /\ dlq' \subseteq Ids
           /\ \A j \in Ids : queue'[j] >= 0 => queue[j] >= 0
<1>1. queue \in [Ids -> -1..MaxRetries] /\ dlq \subseteq Ids
  BY DEF TypeOK
<1>2. queue' = [queue EXCEPT ![i] = -1] \/ (queue' = [queue EXCEPT ![i] = @ + 1] /\ queue[i] # MaxRetries)
  BY DEF Retried
<1>3. dlq' \subseteq Ids
  BY <1>1 DEF Retried
<1> QED
  BY <1>1, <1>2, <1>3, AccountingType

LEMMA ConsumeStep ==
    ASSUME AccountingInv, NEW i \in Ids, Consume(i) \/ ConsumeFails(i)
    PROVE  AccountingInv'
<1> DEFINE table == ObjectMaintained(i[2])
           operation == JobOf(i)
<1>1. TypeOK /\ (\A j \in Ids : IdOK(j)) /\ ~conflict /\ TableOK(row)
  BY InvGivesIds DEF AccountingInv
<1>2. operation \in {"settle", "charge"} /\ operation \in Operations
  BY DEF JobOf, Operations
<1>3. TableOK(table)
  BY IdParts, MaintainedOK
<1>4. /\ queue[i] >= 0
      /\ row' = row \/ row' = Applied(operation, i, table)
      /\ UNCHANGED <<now, pc, mode, leg, outcome, sent, net>>
      /\ Fault \/ UNCHANGED faults
      /\ Retried(i) \/ (queue' = [queue EXCEPT ![i] = -1] /\ UNCHANGED dlq)
      /\ \/ conflict' = conflict
         \/ conflict' = (conflict \/ ~(Learned(operation, i, table) = "settled"))
  BY DEF Consume, ConsumeFails
<1> HIDE DEF table, operation
<1>5. /\ TableOK(Applied(operation, i, table))
      /\ Learned(operation, i, table) = "settled"
  BY <1>2, <1>3, <1>4, CallsAndJobs, AppliedOK DEF operation
<1>6. TableOK(row')
  BY <1>1, <1>4, <1>5
<1>7. /\ queue' \in [Ids -> -1..MaxRetries] /\ dlq' \subseteq Ids
      /\ \A j \in Ids : queue'[j] >= 0 => queue[j] >= 0
  BY <1>1, <1>4, RetriedType
<1>8. ~conflict' /\ conflict' \in BOOLEAN
  BY <1>1, <1>4, <1>5 DEF TypeOK
<1>9. TypeOK'
  BY <1>1, <1>4, <1>6, <1>7, <1>8, FaultType DEF TypeOK, TableOK
<1>10. \A j \in Ids : Learns(j) /\ (queue'[j] >= 0 => leg'[j] \in Finalized)
  BY <1>1, <1>4, <1>7 DEF Learns, IdOK, CallOK
<1> QED
  BY <1>4, <1>6, <1>8, <1>9, <1>10, LearnStep

LEMMA TrafficStep ==
    ASSUME AccountingInv, (\E l \in Legs : Traffic(l)) \/ Tick
    PROVE  AccountingInv'
<1>1. TypeOK /\ (\A j \in Ids : IdOK(j)) /\ ~conflict /\ TableOK(row)
  BY InvGivesIds DEF AccountingInv
<1>2. /\ (\E l \in Legs : row' = ObjectMaintained(l)) \/ row' = row
      /\ now' = now \/ (now < MaxTime /\ now' = now + 1)
      /\ UNCHANGED <<pc, mode, leg, outcome, sent, net, queue, dlq, faults, conflict>>
  BY DEF Traffic, Tick
<1>3. TableOK(row')
  BY <1>1, <1>2, MaintainedOK
<1>4. now' \in 0..MaxTime
  BY <1>1, <1>2, ClockType DEF TypeOK
<1>5. TypeOK'
  BY <1>1, <1>2, <1>3, <1>4 DEF TypeOK, TableOK
<1>6. \A j \in Ids : Learns(j) /\ (queue'[j] >= 0 => leg'[j] \in Finalized)
  BY <1>1, <1>2 DEF Learns, IdOK, CallOK
<1> QED
  BY <1>1, <1>2, <1>3, <1>5, <1>6, LearnStep

LEMMA AccountingInit == Init => AccountingInv
<1> SUFFICES ASSUME Init PROVE AccountingInv
  OBVIOUS
<1>1. row \in Table /\ \A i \in Ids : row[i] = NoRow
  BY DEF Init, Table
<1>2. TypeOK
  <2>1. /\ pc \in [Requests -> Places] /\ leg \in [Ids -> LegStates]
        /\ sent \in [Requests -> BOOLEAN] /\ mode \in [Requests -> Modes]
        /\ net \subseteq Operations \X Ids /\ dlq \subseteq Ids /\ conflict \in BOOLEAN
    BY DEF Init, Places, LegStates
  <2>2. /\ now \in 0..MaxTime /\ outcome \in [Requests -> 0..MaxMicros]
        /\ queue \in [Ids -> -1..MaxRetries] /\ faults \in 0..MaxFaults
    BY ClockType, MicrosType, AccountingType DEF Init
  <2> QED
    BY <1>1, <2>1, <2>2 DEF TypeOK
<1>3. \A r \in Requests : PlaceOK(r)
  BY DEF Init, PlaceOK
<1>4. \A i \in Ids : leg[i] = "none" /\ queue[i] = -1 /\ pc[i[1]] = "idle" /\ ~sent[i[1]]
  BY IdParts DEF Init
<1>5. \A i \in Ids : LegOK(i)
  BY <1>4 DEF LegOK, Finalized
<1>6. \A i \in Ids : CallOK(i)
  BY <1>4 DEF CallOK, Init
<1>7. \A i \in Ids : RowOK(i, row[i])
  BY <1>1, <1>4 DEF RowOK, Finalized, Acknowledged, Admitted
<1>8. ~conflict
  BY DEF Init
<1> QED
  BY <1>1, <1>2, <1>3, <1>5, <1>6, <1>7, <1>8 DEF AccountingInv, TableOK

LEMMA AccountingStep == AccountingInv /\ [Next]_vars => AccountingInv'
<1> SUFFICES ASSUME AccountingInv, [Next]_vars PROVE AccountingInv'
  OBVIOUS
<1>1. ASSUME NEW r \in Requests, Worker(r) \/ Abandon(r) \/ SoftDeny(r) \/ Die(r)
      PROVE  AccountingInv'
  BY <1>1, PlanStep, ReserveDoneStep, MarkStep, MarkDoneStep, SendStep, RespondStep, AbandonStep,
     DieStep DEF Worker
<1>2. ASSUME NEW m \in net, Serve(m) \/ ServeUnheard(m) \/ Drop(m)
      PROVE  AccountingInv'
  BY <1>2, ServeStep, ServeUnheardStep
<1>3. ASSUME NEW m \in net, TimeOut(m) PROVE AccountingInv'
  <2>1. m[1] \in Operations /\ m[2] \in Ids
    BY DEF AccountingInv, TypeOK
  <2> QED
    BY <1>3, <2>1, GivenUpStep DEF TimeOut
<1>4. ASSUME NEW i \in Ids, CallFails(i) PROVE AccountingInv'
  BY <1>4, GivenUpStep DEF CallFails
<1>5. ASSUME NEW i \in Ids, Enqueue(i) \/ EnqueueFails(i) \/ Consume(i) \/ ConsumeFails(i)
      PROVE  AccountingInv'
  BY <1>5, EnqueueStep, ConsumeStep
<1>6. CASE (\E l \in Legs : Traffic(l)) \/ Tick
  BY <1>6, TrafficStep
<1>7. CASE UNCHANGED vars
  BY <1>7 DEF vars, AccountingInv, TypeOK, PlaceOK, LegOK, CallOK, TableOK, RowOK, Soft, Billed
<1> QED
  BY <1>1, <1>2, <1>3, <1>4, <1>5, <1>6, <1>7 DEF Next

(* finalizeAccounting, settle and charge: for any number of requests and   *)
(* legs, however often and by whichever path a settlement is delivered,    *)
(* every ledger ends with the amount the request was finalized with and    *)
(* refuses no delivery.                                                    *)
THEOREM SettlementsConverge == Spec => []SettlementsAgree
<1>1. AccountingInv => SettlementsAgree
  BY DEF AccountingInv, SettlementsAgree, FinalChargeAgrees, NeverConflicts, TableOK, RowOK, Billed
<1> QED
  BY AccountingInit, AccountingStep, <1>1, PTL DEF Spec

-----------------------------------------------------------------------------
(* The bounds of what left fit in the limit of every leg.                  *)

LEMMA AdmittedFinite ==
    ASSUME NEW table, NEW l
    PROVE  /\ AdmittedMicros(table, l) \in SUBSET (Ids \X (1..MaxMicros))
           /\ IsFiniteSet(AdmittedMicros(table, l))
           /\ Cardinality(AdmittedMicros(table, l)) \in Nat
<1>1. AdmittedMicros(table, l) \in SUBSET (Ids \X (1..MaxMicros))
  BY DEF AdmittedMicros
<1> QED
  BY <1>1, MicrosFinite

(* A table whose admitted micros are all admitted in another one.          *)
LEMMA NoNewMicros ==
    ASSUME NEW table, NEW other, NEW l,
           \A i \in Ids : i[2] = l /\ ~Soft(i[1]) /\ other[i] # NoRow =>
               /\ table[i] # NoRow
               /\ \A k \in 1..MaxMicros :
                     k <= other[i].micros /\ k <= Cost => k <= table[i].micros
    PROVE  Cardinality(AdmittedMicros(other, l)) <= Cardinality(AdmittedMicros(table, l))
<1>1. AdmittedMicros(other, l) \in SUBSET AdmittedMicros(table, l)
  BY DEF AdmittedMicros
<1> QED
  BY <1>1, AdmittedFinite, MicrosFinite

LEMMA MaintainedMicros ==
    ASSUME AccountingInv, NEW k \in Legs, NEW l \in Legs
    PROVE  Cardinality(AdmittedMicros(ObjectMaintained(k), l)) <= Cardinality(AdmittedMicros(row, l))
<1> DEFINE table == ObjectMaintained(k)
<1>1. now \in 0..MaxTime /\ row \in Table
  BY DEF AccountingInv, TypeOK
<1>2. ASSUME NEW i \in Ids, table[i] # NoRow
      PROVE  /\ row[i] # NoRow
             /\ \A n \in 1..MaxMicros : n <= table[i].micros => n <= row[i].micros
  <2>1. row[i] \in Row \cup {NoRow}
    BY <1>1 DEF Table
  <2>2. table[i] = row[i] \/ table[i] = MaintainedRow(row[i], now)
    BY DEF ObjectMaintained
  <2>3. CASE table[i] = row[i]
    BY <1>2, <2>3
  <2>4. CASE table[i] = MaintainedRow(row[i], now)
    <3>1. row[i] # NoRow /\ (table[i].micros = row[i].micros \/ table[i].micros = 0)
      BY <1>1, <1>2, <2>1, <2>4, MaintainedRowCases
    <3> QED
      BY <3>1, MicrosType
  <2> QED
    BY <2>2, <2>3, <2>4
<1> HIDE DEF table
<1>3. Cardinality(AdmittedMicros(table, l)) <= Cardinality(AdmittedMicros(row, l))
  BY <1>2, NoNewMicros
<1> QED
  BY <1>3 DEF table

(* An admission: everything admitted on its leg is part of what            *)
(* effectiveSpent counts.                                                  *)
LEMMA ReservedMicros ==
    ASSUME AccountingInv, NEW table, TableOK(table), NEW i \in Ids, NEW l \in Legs,
           Cardinality(AdmittedMicros(table, l)) <= Limit
    PROVE  Cardinality(AdmittedMicros(Reserved(table, now, ReserveRequest(i)), l)) <= Limit
<1> DEFINE q == ReserveRequest(i)
           other == Reserved(table, now, q)
           Mine == {i} \X (1..Cost)
           Counted == Micros(table, WindowOf(l), NoScope)
<1>1. q.id = i /\ q.window = WindowOf(i[2]) /\ q.scope = NoScope /\ q.cost = Cost /\ q.limit = Limit
  BY DEF ReserveRequest
<1>2. Cost \in 0..MaxMicros /\ Limit \in Nat /\ Cost \in Nat
  BY AccountingType, MicrosType
<1>3. table \in [Ids -> Row \cup {NoRow}] /\ \A j \in Ids : RowOK(j, table[j])
  BY DEF TableOK, Table
<1> HIDE DEF q
<1>4. CASE ~Admits(table, q)
  BY <1>4 DEF Reserved, q
<1>5. CASE Admits(table, q)
  <2>1. other = [table EXCEPT ![i] = NewRow(q, now)] /\ NewRow(q, now).micros = Cost
    BY <1>1, <1>5 DEF Reserved, NewRow
  <2>2. other[i].micros = Cost /\ \A j \in Ids \ {i} : other[j] = table[j]
    BY <1>3, <2>1
  <2> HIDE DEF other
  <2>3. CASE i[2] # l \/ Cost = 0
    <3>1. ASSUME NEW j \in Ids, NEW k \in 1..MaxMicros, j[2] = l, other[j] # NoRow,
                 k <= other[j].micros, k <= Cost
          PROVE  table[j] # NoRow /\ k <= table[j].micros
      BY <1>2, <2>2, <2>3, <3>1
    <3>2. AdmittedMicros(other, l) \in SUBSET AdmittedMicros(table, l)
      BY <3>1 DEF AdmittedMicros
    <3>3. /\ Cardinality(AdmittedMicros(other, l)) <= Cardinality(AdmittedMicros(table, l))
          /\ Cardinality(AdmittedMicros(other, l)) \in Nat
          /\ Cardinality(AdmittedMicros(table, l)) \in Nat
      BY <3>2, AdmittedFinite, MicrosFinite
    <3>4. Cardinality(AdmittedMicros(other, l)) <= Limit
      BY <1>2, <3>3
    <3> QED
      BY <3>4 DEF other, q
  <2>4. CASE i[2] = l /\ Cost > 0
    <3>1. AdmittedMicros(other, l) \in SUBSET (Counted \cup Mine)
      <4> SUFFICES ASSUME NEW m \in AdmittedMicros(other, l) PROVE m \in Counted \cup Mine
        OBVIOUS
      <4>1. /\ m \in Ids \X (1..MaxMicros) /\ m[1] \in Ids /\ m[2] \in 1..MaxMicros
            /\ m = <<m[1], m[2]>> /\ m[1][2] = l
            /\ other[m[1]] # NoRow /\ m[2] <= other[m[1]].micros /\ m[2] <= Cost
        BY DEF AdmittedMicros
      <4>2. CASE m[1] = i
        <5>1. m[2] \in 1..Cost
          BY <1>2, <4>1
        <5> QED
          BY <4>1, <4>2, <5>1
      <4>3. CASE m[1] # i
        <5>1. table[m[1]] # NoRow /\ m[2] <= table[m[1]].micros
          BY <2>2, <4>1, <4>3
        <5>2. table[m[1]].window = WindowOf(l) /\ InScope(table[m[1]].scope, NoScope)
          BY <1>3, <4>1, <5>1 DEF RowOK, InScope
        <5> QED
          BY <4>1, <5>1, <5>2 DEF Micros
      <4> QED
        BY <4>2, <4>3
    <3>2. Counted \in SUBSET (Ids \X (1..MaxMicros)) /\ IsFiniteSet(Counted) /\ Cardinality(Counted) \in Nat
      <4>1. Counted \in SUBSET (Ids \X (1..MaxMicros))
        BY DEF Micros
      <4> QED
        BY <4>1, MicrosFinite
    <3>3. Mine \in SUBSET (Ids \X (1..MaxMicros)) /\ IsFiniteSet(Mine) /\ Cardinality(Mine) = Cost
      BY <1>2, OneRowMicros
    <3> HIDE DEF Counted, Mine
    <3>4. Cardinality(Counted \cup Mine) <= Cardinality(Counted) + Cost
      <4>1. Cardinality(Counted \cup Mine) =
              Cardinality(Counted) + Cardinality(Mine) - Cardinality(Counted \cap Mine)
        BY <3>2, <3>3, FS_Union
      <4>2. Cardinality(Counted \cap Mine) \in Nat
        BY <3>2, FS_Intersection, FS_CardinalityType
      <4> QED
        BY <1>2, <3>2, <3>3, <4>1, <4>2
    <3>5. /\ Cardinality(AdmittedMicros(other, l)) <= Cardinality(Counted \cup Mine)
          /\ Cardinality(AdmittedMicros(other, l)) \in Nat /\ Cardinality(Counted \cup Mine) \in Nat
      BY <3>1, <3>2, <3>3, MicrosFinite
    <3>6. Cost <= Limit - (LegacySpent[WindowOf(l)] + Cardinality(Counted)) /\ LegacySpent[WindowOf(l)] \in Nat
      <4>1. LegacySpent[WindowOf(l)] \in Nat
        BY WindowOfLeg, LegacyType
      <4>2. Fits(table, q)
        BY <1>5 DEF Admits
      <4>3. LET left == Limit - (LegacySpent[WindowOf(l)] + Cardinality(Counted))
            IN  Cost <= (IF left > 0 THEN left ELSE 0)
        BY <1>1, <2>4, <4>2 DEF Fits, EffectiveSpent, Counted
      <4> QED
        BY <1>2, <2>4, <3>2, <4>1, <4>3
    <3>7. Cardinality(AdmittedMicros(other, l)) <= Limit
      BY <1>2, <3>2, <3>4, <3>5, <3>6
    <3> QED
      BY <3>7 DEF other, q
  <2> QED
    BY <1>2, <2>3, <2>4
<1> QED
  BY <1>4, <1>5

(* The other handlers admit nothing: a settlement above the bound is not   *)
(* admitted, one below it frees.                                           *)
LEMMA AppliedMicros ==
    ASSUME AccountingInv, NEW table, TableOK(table), NEW i \in Ids, NEW l \in Legs,
           NEW operation \in Operations, operation = "charge" => Soft(i[1]),
           Cardinality(AdmittedMicros(table, l)) <= Limit
    PROVE  Cardinality(AdmittedMicros(Applied(operation, i, table), l)) <= Limit
<1> DEFINE other == Applied(operation, i, table)
<1>1. table \in [Ids -> Row \cup {NoRow}] /\ \A j \in Ids : RowOK(j, table[j])
  BY DEF TableOK, Table
<1>2. CASE operation = "reserve"
  BY <1>2, ReservedMicros DEF Applied
<1>3. CASE operation # "reserve"
  <2>1. ASSUME NEW j \in Ids, ~Soft(j[1]), other[j] # NoRow
        PROVE  /\ table[j] # NoRow
               /\ \A k \in 1..MaxMicros :
                     k <= other[j].micros /\ k <= Cost => k <= table[j].micros
    <3>1. CASE other[j] = table[j]
      BY <2>1, <3>1
    <3>2. CASE other[j] # table[j] /\ operation = "dispatch"
      <4>1. Dispatchable(table, now, i) /\ other = [table EXCEPT ![i].dispatched = TRUE]
        BY <3>2 DEF Applied, Dispatched
      <4>2. j = i /\ table[i] # NoRow /\ table[i] \in Row
        BY <1>1, <3>2, <4>1 DEF Dispatchable, Known
      <4>3. other[j].micros = table[j].micros
        BY <1>1, <4>1, <4>2 DEF Row
      <4> QED
        BY <4>2, <4>3
    <3>3. CASE other[j] # table[j] /\ operation = "settle"
      <4>1. SettleAccepted(table, i, outcome[i[1]])
        BY <3>3 DEF Applied, Settled
      <4>2. other = [table EXCEPT ![i] = Priced(table[i], outcome[i[1]])]
        BY <1>1, <3>3, <4>1 DEF Applied, Settled
      <4>3. j = i
        BY <1>1, <3>3, <4>2
      <4>4. table[i] # NoRow /\ (table[i].settled = 1 => table[i].micros = outcome[i[1]])
        BY <4>1 DEF SettleAccepted, Known
      <4>5. other[j].micros = outcome[i[1]]
        BY <1>1, <4>2, <4>3 DEF Priced
      <4>6. table[i].settled # 1 => table[i].micros = Cost
        BY <1>1, <2>1, <4>3, <4>4 DEF RowOK
      <4> QED
        BY <4>3, <4>4, <4>5, <4>6
    <3>4. CASE other[j] # table[j] /\ operation = "charge"
      <4>1. other = table \/ other = [table EXCEPT ![i] = ChargeRow(ChargeOf(i), now)]
        BY <3>4 DEF Applied, Charged, ChargeOf
      <4>2. j = i
        BY <1>1, <3>4, <4>1
      <4> QED
        BY <2>1, <3>4, <4>2
    <3> QED
      BY <1>3, <3>1, <3>2, <3>3, <3>4 DEF Operations
  <2> HIDE DEF other
  <2>2. Cardinality(AdmittedMicros(other, l)) <= Cardinality(AdmittedMicros(table, l))
    BY <2>1, NoNewMicros
  <2>3. Limit \in Nat
    BY AccountingType, MicrosType
  <2>4. Cardinality(AdmittedMicros(other, l)) <= Limit
    BY <2>2, <2>3, AdmittedFinite
  <2> QED
    BY <2>4 DEF other
<1> QED
  BY <1>2, <1>3

(* Every step that touches a row is a handler on a maintained table.       *)
LEMMA LimitsKept ==
    ASSUME AccountingInv, LimitsHold, mode' = mode,
           \/ row' = row
           \/ \E k \in Legs : row' = ObjectMaintained(k)
           \/ \E i \in Ids, operation \in Operations :
                 /\ operation = "charge" => Soft(i[1])
                 /\ row' = Applied(operation, i, ObjectMaintained(i[2]))
    PROVE  LimitsHold'
<1>1. ASSUME NEW k \in Legs, NEW l \in Legs
      PROVE  Cardinality(AdmittedMicros(ObjectMaintained(k), l)) <= Limit
  <2>1. Cardinality(AdmittedMicros(row, l)) <= Limit
    BY DEF LimitsHold
  <2>2. Limit \in Nat
    BY AccountingType, MicrosType
  <2> QED
    BY <2>1, <2>2, MaintainedMicros, AdmittedFinite
<1>2. ASSUME NEW l \in Legs PROVE Cardinality(AdmittedMicros(row', l)) <= Limit
  <2>1. CASE row' = row
    BY <2>1 DEF LimitsHold
  <2>2. CASE \E k \in Legs : row' = ObjectMaintained(k)
    BY <1>1, <2>2
  <2>3. CASE \E i \in Ids, operation \in Operations :
                 /\ operation = "charge" => Soft(i[1])
                 /\ row' = Applied(operation, i, ObjectMaintained(i[2]))
    <3>1. PICK i \in Ids, operation \in Operations :
                 /\ operation = "charge" => Soft(i[1])
                 /\ row' = Applied(operation, i, ObjectMaintained(i[2]))
      BY <2>3
    <3>2. i[2] \in Legs
      BY <3>1, IdParts
    <3>3. /\ TableOK(ObjectMaintained(i[2]))
          /\ Cardinality(AdmittedMicros(ObjectMaintained(i[2]), l)) <= Limit
      BY <1>1, <3>2, MaintainedOK
    <3> QED
      BY <3>1, <3>3, AppliedMicros
  <2> QED
    BY <2>1, <2>2, <2>3
<1>3. \A l \in Legs : AdmittedMicros(row, l)' = AdmittedMicros(row', l)
  BY DEF AdmittedMicros, Soft
<1> QED
  BY <1>2, <1>3 DEF LimitsHold

LEMMA LimitsStep == AccountingInv /\ LimitsHold /\ [Next]_vars => LimitsHold'
<1> SUFFICES ASSUME AccountingInv, LimitsHold, [Next]_vars PROVE LimitsHold'
  OBVIOUS
<1>1. ASSUME NEW r \in Requests, Worker(r) \/ Abandon(r) \/ SoftDeny(r) \/ Die(r)
      PROVE  row' = row /\ mode' = mode
  BY <1>1 DEF Worker, Plan, ReserveDone, Mark, MarkDone, Send, Respond, Abandon, SoftDeny, Die
<1>2. ASSUME NEW m \in net, Serve(m) \/ ServeUnheard(m) \/ Drop(m) \/ TimeOut(m)
      PROVE  LimitsHold'
  <2>1. m = <<m[1], m[2]>> /\ m[1] \in Operations /\ m[2] \in Ids
    BY DEF AccountingInv, TypeOK
  <2>2. m[1] = "charge" => Soft(m[2][1])
    BY <2>1, CallsAndJobs
  <2>3. mode' = mode /\ (row' = row \/ row' = Applied(m[1], m[2], ObjectMaintained(m[2][2])))
    BY <1>2 DEF Serve, ServeUnheard, Drop, TimeOut, GivenUp
  <2> QED
    BY <2>1, <2>2, <2>3, LimitsKept
<1>3. ASSUME NEW i \in Ids, CallFails(i) \/ Enqueue(i) \/ EnqueueFails(i)
      PROVE  row' = row /\ mode' = mode
  BY <1>3 DEF CallFails, GivenUp, Enqueue, EnqueueFails
<1>4. ASSUME NEW i \in Ids, Consume(i) \/ ConsumeFails(i)
      PROVE  LimitsHold'
  <2>1. JobOf(i) \in Operations /\ (JobOf(i) = "charge" => Soft(i[1]))
    BY DEF JobOf, Operations, Soft
  <2>2. mode' = mode /\ (row' = row \/ row' = Applied(JobOf(i), i, ObjectMaintained(i[2])))
    BY <1>4 DEF Consume, ConsumeFails
  <2> QED
    BY <2>1, <2>2, LimitsKept
<1>5. ASSUME NEW l \in Legs, Traffic(l)
      PROVE  mode' = mode /\ row' = ObjectMaintained(l)
  BY <1>5 DEF Traffic
<1>6. ASSUME Tick \/ UNCHANGED vars
      PROVE  row' = row /\ mode' = mode
  BY <1>6 DEF Tick, vars
<1> QED
  BY <1>1, <1>2, <1>3, <1>4, <1>5, <1>6, LimitsKept DEF Next

LEMMA ExposedFits ==
    ASSUME AccountingInv, LimitsHold, NEW l \in Legs
    PROVE  Cardinality(Exposed(l)) * Cost <= Limit
<1> DEFINE S == {i \in Ids : i[2] = l /\ i[1] \in Exposed(l)}
           f == [r \in Exposed(l) |-> <<r, l>>]
<1>1. Cost \in Nat /\ Limit \in Nat /\ 1..Cost \subseteq 1..MaxMicros
  BY AccountingType, MicrosType
<1>2. \A r \in Exposed(l) : <<r, l>> \in Ids
  BY DEF Exposed
<1>3. IsFiniteSet(S)
  BY IdsFinite, FS_Subset
<1>4. f \in Injection(Exposed(l), S)
  <2>1. f \in [Exposed(l) -> S]
    BY <1>2
  <2>2. \A a, b \in Exposed(l) : f[a] = f[b] => a = b
    OBVIOUS
  <2> QED
    BY <2>1, <2>2 DEF Injection, IsInjective
<1>5. IsFiniteSet(Exposed(l)) /\ Cardinality(Exposed(l)) <= Cardinality(S)
  BY <1>3, <1>4, FS_Injection DEF ExistsInjection
<1>6. S \X (1..Cost) \in SUBSET AdmittedMicros(row, l)
  <2> SUFFICES ASSUME NEW i \in S, NEW k \in 1..Cost PROVE <<i, k>> \in AdmittedMicros(row, l)
    BY DEF AdmittedMicros
  <2>1. i \in Ids /\ i = <<i[1], l>> /\ i[1] \in Exposed(l) /\ RowOK(i, row[i]) /\ row[i] \in Row \cup {NoRow}
    BY IdParts DEF AccountingInv, TableOK, Table
  <2>2. sent[i[1]] /\ ~Soft(i[1])
    BY <2>1 DEF Exposed, Soft
  <2>3. row[i] # NoRow /\ row[i] \in Row
    BY <2>1, <2>2 DEF RowOK
  <2>4. row[i].settled # 1 => row[i].micros = Cost
    BY <2>1, <2>2, <2>3 DEF RowOK
  <2>5. row[i].settled = 1 => ~(row[i].micros < Cost)
    BY <2>1, <2>3 DEF Exposed
  <2>6. row[i].micros \in Nat
    BY <2>3, MicrosType DEF Row
  <2>7. k <= row[i].micros
    BY <1>1, <2>4, <2>5, <2>6
  <2> QED
    BY <1>1, <2>1, <2>2, <2>3, <2>7 DEF AdmittedMicros
<1>7. IsFiniteSet(1..Cost) /\ Cardinality(1..Cost) = Cost
  BY <1>1, FS_Interval
<1>8. Cardinality(S \X (1..Cost)) = Cardinality(S) * Cost
  BY <1>3, <1>7, FS_Product
<1>9. Cardinality(S \X (1..Cost)) <= Cardinality(AdmittedMicros(row, l))
  BY <1>6, AdmittedFinite, FS_Subset
<1>10. Cardinality(AdmittedMicros(row, l)) <= Limit
  BY DEF LimitsHold
<1> HIDE DEF S, f
<1>11. Cardinality(Exposed(l)) \in Nat /\ Cardinality(S) \in Nat /\ Cardinality(AdmittedMicros(row, l)) \in Nat
  BY <1>3, <1>5, AdmittedFinite, FS_CardinalityType
<1>12. \A a, b, c \in Nat : a <= b => a * c <= b * c
  OBVIOUS
<1>13. Cardinality(Exposed(l)) * Cost <= Cardinality(S) * Cost
  BY <1>1, <1>5, <1>11, <1>12
<1>14. Cardinality(Exposed(l)) * Cost \in Nat /\ Cardinality(S) * Cost \in Nat
  BY <1>1, <1>11
<1> QED
  BY <1>1, <1>8, <1>9, <1>10, <1>11, <1>13, <1>14

(* reserve, markBudgetDispatched and settle: for any number of requests,   *)
(* legs and faults, every leg of a request that left holds its bound until *)
(* it is finalized, and the bounds of all that left fit in every limit.    *)
THEOREM EgressIsPaidFor == Spec => []EgressAccounted
<1>1. Init => LimitsHold
  <2> SUFFICES ASSUME Init, NEW l \in Legs PROVE Cardinality(AdmittedMicros(row, l)) <= Limit
    BY DEF LimitsHold
  <2>1. AdmittedMicros(row, l) = {}
    BY DEF AdmittedMicros, Init
  <2> QED
    BY <2>1, FS_EmptySet, AccountingType, MicrosType
<1>2. AccountingInv /\ LimitsHold => EgressAccounted
  <2> SUFFICES ASSUME AccountingInv, LimitsHold PROVE EgressAccounted
    OBVIOUS
  <2>1. TypeOK
    BY DEF AccountingInv
  <2>2. EgressCovered
    BY DEF AccountingInv, TableOK, RowOK, EgressCovered, Soft
  <2>3. EgressWithinLimit
    BY ExposedFits DEF EgressWithinLimit
  <2> QED
    BY <2>1, <2>2, <2>3 DEF EgressAccounted
<1> QED
  BY AccountingInit, AccountingStep, LimitsStep, <1>1, <1>2, PTL DEF Spec
=============================================================================
