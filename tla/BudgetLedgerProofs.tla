-------------------------- MODULE BudgetLedgerProofs --------------------------
(***************************************************************************)
(* What is proved of BudgetLedger for every set of ids and scopes, every   *)
(* lease, retention, limit and legacy debt.                                *)
(***************************************************************************)
EXTENDS BudgetLedger, BudgetTableProofs

-----------------------------------------------------------------------------
(* maintain() leaves a table.                                              *)
LEMMA MaintainedType ==
    ASSUME row \in Table, now \in 0..MaxTime
    PROVE  Maintained(row, now) \in Table
<1>1. \A i \in Ids : MaintainedRow(row[i], now) \in Row \cup {NoRow}
  BY MaintainedRowCases DEF Table
<1> QED
  BY <1>1 DEF Maintained, Table

(* A window that has begun is a window, and it began no later than now.    *)
LEMMA BegunWindows ==
    ASSUME now \in 0..MaxTime, NEW w \in Begun
    PROVE  w \in Windows /\ w[1] \in Kinds /\ w[2] <= Index[w[1]][now]
<1>1. PICK k \in Kinds, t \in 0..now : w = <<k, Index[k][t]>>
  BY DEF Begun, WindowAt
<1>2. t \in 0..MaxTime /\ t <= now
  BY <1>1, ClockType
<1>3. Index[k][t] \in 0..MaxTime
  BY <1>2, CalendarType
<1>4. Index[k][t] <= Index[k][now]
  BY <1>2, CalendarOrder
<1> QED
  BY <1>1, <1>3, <1>4 DEF Windows

-----------------------------------------------------------------------------
(* The ways in which one step of the ledger can change one row, with the   *)
(* history of its id.                                                      *)
SameKey(i) == /\ row[i] # NoRow /\ row'[i] # NoRow
              /\ row'[i].window = row[i].window
              /\ row'[i].scope = row[i].scope
              /\ row'[i].created = row[i].created
              /\ bound'[i] = bound[i]

KeepRow(i) == /\ row'[i] = row[i]
              /\ row[i] # NoRow => bound'[i] = bound[i] /\ told'[i] = told[i]

LapseRow(i) == /\ SameKey(i)
               /\ row[i].settled = 0 /\ row'[i].settled = 2
               /\ row[i].dispatched /\ row'[i].dispatched
               /\ row'[i].micros = row[i].micros

FreeRow(i) == /\ SameKey(i)
              /\ row[i].settled = 0 /\ row'[i].settled = 1
              /\ ~row[i].dispatched /\ ~row'[i].dispatched
              /\ row'[i].micros = 0

SendRow(i) == /\ SameKey(i)
              /\ row[i].settled = 0 /\ row'[i].settled = 0
              /\ row[i].created + Lease > now
              /\ row'[i].dispatched
              /\ row'[i].micros = row[i].micros

PriceRow(i) == /\ SameKey(i)
               /\ row'[i].settled = 1
               /\ row'[i].dispatched = row[i].dispatched
               /\ row'[i].micros = told'[i]
               /\ row[i].settled = 1 => row'[i].micros = row[i].micros
               /\ row[i].dispatched \/ row'[i].micros = 0

GoneRow(i) == /\ row[i] # NoRow /\ row[i].created + Retention < now
              /\ row'[i] = NoRow

FreshRow(i) == /\ row[i] = NoRow
               /\ row'[i] # NoRow /\ row'[i].created = now
               /\ row'[i].window \in Begun

FreshHold(i) == /\ FreshRow(i)
                /\ row'[i].settled = 0 /\ bound'[i] = row'[i].micros

FreshCharge(i) == /\ FreshRow(i)
                  /\ row'[i].settled = 1 /\ row'[i].dispatched
                  /\ row'[i].micros = told'[i] /\ bound'[i] = 0

(* Moves that admit nothing, and all moves.                                *)
QuietMove(i) == \/ KeepRow(i) \/ LapseRow(i) \/ FreeRow(i) \/ SendRow(i)
                \/ PriceRow(i) \/ GoneRow(i) \/ FreshCharge(i)

RowMove(i) == QuietMove(i) \/ FreshHold(i)

(* What maintain() and each handler do to the ids.                         *)
LEMMA MaintainMoves ==
    ASSUME TypeOK, row' = Maintained(row, now),
           bound' = Kept(bound, row', 0), told' = Kept(told, row', -1)
    PROVE  \A i \in Ids : row'[i] \in Row \cup {NoRow} /\ QuietMove(i)
<1> TAKE i \in Ids
<1>1. row[i] \in Row \cup {NoRow} /\ now \in 0..MaxTime
  BY DEF TypeOK, Table
<1>2. row'[i] = MaintainedRow(row[i], now)
  BY DEF Maintained
<1>3. row'[i] # NoRow => bound'[i] = bound[i] /\ told'[i] = told[i]
  BY DEF Kept
<1> QED
  BY <1>1, <1>2, <1>3, MaintainedRowCases
  DEF QuietMove, KeepRow, LapseRow, FreeRow, GoneRow, SameKey

LEMMA ReserveMoves ==
    ASSUME TypeOK, NEW q \in Requests, Reserve(q)
    PROVE  \A i \in Ids :
             /\ row'[i] \in Row \cup {NoRow}
             /\ KeepRow(i) \/ (FreshHold(i) /\ i = q.id /\ Admits(row, q))
<1> TAKE i \in Ids
<1>1. row \in Table /\ now \in 0..MaxTime
  BY DEF TypeOK
<1>2. CASE Admits(row, q) /\ i = q.id
  <2>1. q.window \in Begun /\ q.window \in Windows
    BY BegunWindows, <1>1 DEF Requests
  <2>2. NewRow(q, now) \in Row
    BY <2>1, <1>1 DEF NewRow, Row, Requests
  <2>3. row'[i] = NewRow(q, now)
    BY <1>1, <1>2 DEF Reserve, Reserved, Table
  <2>4. bound'[i] = q.cost
    BY <1>2 DEF Reserve, TypeOK
  <2>5. row[i] = NoRow
    BY <1>2 DEF Admits, Known
  <2>6. FreshHold(i)
    BY <2>1, <2>2, <2>3, <2>4, <2>5, NullsAreNull DEF FreshHold, FreshRow, NewRow
  <2> QED
    BY <1>2, <2>2, <2>3, <2>6
<1>3. CASE ~(Admits(row, q) /\ i = q.id)
  <2>1. row'[i] = row[i]
    BY <1>1, <1>3 DEF Reserve, Reserved, Table
  <2>2. bound'[i] = bound[i] /\ told'[i] = told[i]
    BY <1>3 DEF Reserve, TypeOK
  <2> QED
    BY <1>1, <2>1, <2>2 DEF KeepRow, Table
<1> QED
  BY <1>2, <1>3

LEMMA DispatchMoves ==
    ASSUME TypeOK, NEW j \in Ids, Dispatch(j)
    PROVE  \A i \in Ids : row'[i] \in Row \cup {NoRow} /\ QuietMove(i)
<1> TAKE i \in Ids
<1>1. row \in Table /\ row[i] \in Row \cup {NoRow}
  BY DEF TypeOK, Table
<1>2. CASE Dispatchable(row, now, j) /\ i = j
  <2>1. row'[i] = [row[i] EXCEPT !.dispatched = TRUE]
    BY <1>1, <1>2 DEF Dispatch, Dispatched, Table
  <2>2. /\ row[i] # NoRow /\ row[i] \in Row /\ row[i].settled = 0
        /\ row[i].created + Lease > now
    BY <1>1, <1>2 DEF Dispatchable, Known
  <2>3. row'[i] \in Row
    BY <2>1, <2>2 DEF Row
  <2>4. /\ row'[i].window = row[i].window /\ row'[i].scope = row[i].scope
        /\ row'[i].created = row[i].created /\ row'[i].micros = row[i].micros
        /\ row'[i].settled = row[i].settled /\ row'[i].dispatched
    BY <2>1, <2>2 DEF Row
  <2>5. row'[i] # NoRow /\ bound'[i] = bound[i]
    BY <2>3, NullsAreNull DEF Dispatch
  <2> QED
    BY <2>2, <2>3, <2>4, <2>5 DEF QuietMove, SendRow, SameKey
<1>3. CASE ~(Dispatchable(row, now, j) /\ i = j)
  <2>1. row'[i] = row[i]
    BY <1>1, <1>3 DEF Dispatch, Dispatched, Table
  <2> QED
    BY <1>1, <2>1 DEF Dispatch, QuietMove, KeepRow
<1> QED
  BY <1>2, <1>3

LEMMA SettleMoves ==
    ASSUME TypeOK, NEW j \in Ids, NEW a \in 0..MaxMicros, Settle(j, a)
    PROVE  \A i \in Ids : row'[i] \in Row \cup {NoRow} /\ QuietMove(i)
<1> TAKE i \in Ids
<1>1. row \in Table /\ row[i] \in Row \cup {NoRow}
  BY DEF TypeOK, Table
<1>2. CASE SettleAccepted(row, j, a) /\ i = j
  <2>1. row'[i] = Priced(row[i], a)
    BY <1>1, <1>2 DEF Settle, Settled, Table
  <2>2. /\ row[i] # NoRow /\ row[i] \in Row
        /\ row[i].settled = 1 => row[i].micros = a
        /\ row[i].dispatched \/ a = 0
    BY <1>1, <1>2 DEF SettleAccepted, Known
  <2>3. row'[i] \in Row /\ row'[i] # NoRow
    BY <2>1, <2>2, NullsAreNull DEF Row, Priced
  <2>4. bound'[i] = bound[i] /\ told'[i] = a
    BY <1>2 DEF Settle, TypeOK
  <2>5. PriceRow(i)
    BY <2>1, <2>2, <2>3, <2>4 DEF PriceRow, SameKey, Priced
  <2> QED
    BY <2>3, <2>5 DEF QuietMove
<1>3. CASE ~(SettleAccepted(row, j, a) /\ i = j)
  <2>1. row'[i] = row[i]
    BY <1>1, <1>3 DEF Settle, Settled, Table
  <2>2. bound'[i] = bound[i] /\ told'[i] = told[i]
    BY <1>3 DEF Settle, TypeOK
  <2> QED
    BY <1>1, <2>1, <2>2 DEF QuietMove, KeepRow
<1> QED
  BY <1>2, <1>3

LEMMA ChargeMoves ==
    ASSUME TypeOK, NEW c \in Charges, Charge(c)
    PROVE  \A i \in Ids : row'[i] \in Row \cup {NoRow} /\ QuietMove(i)
<1> TAKE i \in Ids
<1>1. row \in Table /\ row[i] \in Row \cup {NoRow} /\ now \in 0..MaxTime
  BY DEF TypeOK, Table
<1>2. CASE i = c.id /\ ~Known(row, i)
  <2>1. c.window \in Begun /\ c.window \in Windows
    BY BegunWindows, <1>1 DEF Charges
  <2>2. ChargeRow(c, now) \in Row
    BY <2>1, <1>1 DEF ChargeRow, Row, Charges
  <2>3. ChargeAccepted(row, c)
    BY <1>2 DEF ChargeAccepted
  <2>4. row'[i] = ChargeRow(c, now)
    BY <1>1, <1>2, <2>3 DEF Charge, Charged, Table
  <2>5. bound'[i] = 0 /\ told'[i] = c.amount
    BY <1>2, <2>3 DEF Charge, TypeOK
  <2>6. /\ row'[i].created = now /\ row'[i].window \in Begun
        /\ row'[i].settled = 1 /\ row'[i].micros = told'[i]
    BY <2>1, <2>4, <2>5 DEF ChargeRow
  <2>7. row'[i].dispatched
    BY <2>4 DEF ChargeRow
  <2>8. row'[i] # NoRow /\ row[i] = NoRow
    BY <1>2, <2>2, <2>4, NullsAreNull DEF Known
  <2>9. FreshCharge(i)
    BY <2>5, <2>6, <2>7, <2>8 DEF FreshCharge, FreshRow
  <2> QED
    BY <2>2, <2>4, <2>9 DEF QuietMove
<1>3. CASE ChargeAccepted(row, c) /\ i = c.id /\ Known(row, i)
  <2>1. /\ row[i] # NoRow /\ row[i].settled = 1 /\ row[i].micros = c.amount
        /\ row[i].dispatched
    BY <1>3 DEF ChargeAccepted, Known
  <2>2. row'[i] = row[i]
    BY <1>3 DEF Charge, Charged
  <2>3. bound'[i] = bound[i] /\ told'[i] = c.amount
    BY <1>3 DEF Charge, TypeOK
  <2>4. PriceRow(i)
    BY <2>1, <2>2, <2>3 DEF PriceRow, SameKey
  <2> QED
    BY <1>1, <2>2, <2>4 DEF QuietMove
<1>4. CASE i # c.id \/ (Known(row, i) /\ ~ChargeAccepted(row, c))
  <2>1. row'[i] = row[i]
    BY <1>1, <1>4 DEF Charge, Charged, Table
  <2>2. bound'[i] = bound[i] /\ told'[i] = told[i]
    BY <1>4 DEF Charge, TypeOK
  <2> QED
    BY <1>1, <2>1, <2>2 DEF QuietMove, KeepRow
<1> QED
  BY <1>2, <1>3, <1>4

-----------------------------------------------------------------------------
(* What the proofs carry from state to state: types, where amounts come    *)
(* from, and that a row is charged to a window that had begun when the row *)
(* was made.                                                               *)
WindowBegun ==
    \A i \in Ids : row[i] # NoRow =>
        /\ row[i].window[1] \in Kinds
        /\ row[i].window[2] <= Index[row[i].window[1]][row[i].created]

LEMMA NextMoves ==
    ASSUME TypeOK, Next
    PROVE  TypeOK' /\ \A i \in Ids : RowMove(i)
<1> USE DEF TypeOK
<1>1. CASE ClientCall
  <2>1. ASSUME NEW q \in Requests, Reserve(q) PROVE TypeOK' /\ \A i \in Ids : RowMove(i)
    <3>1. row' \in Table
      BY <2>1, ReserveMoves DEF Reserve, Reserved, Table
    <3>2. bound' \in [Ids -> 0..MaxMicros] /\ told' \in [Ids -> -1..MaxMicros]
      BY <2>1 DEF Reserve, Requests
    <3> QED
      BY <2>1, <3>1, <3>2, ReserveMoves DEF Reserve, Admits, RowMove, QuietMove
  <2>2. ASSUME NEW j \in Ids, Dispatch(j) PROVE TypeOK' /\ \A i \in Ids : RowMove(i)
    <3>1. row' \in Table
      BY <2>2, DispatchMoves DEF Dispatch, Dispatched, Table
    <3>2. bound' \in [Ids -> 0..MaxMicros] /\ told' \in [Ids -> -1..MaxMicros]
      BY <2>2 DEF Dispatch
    <3> QED
      BY <2>2, <3>1, <3>2, DispatchMoves DEF Dispatch, RowMove
  <2>3. ASSUME NEW j \in Ids, NEW a \in 0..MaxMicros, Settle(j, a)
        PROVE  TypeOK' /\ \A i \in Ids : RowMove(i)
    <3>1. row' \in Table
      BY <2>3, SettleMoves, ZenonT(60) DEF Settle, Settled, Table
    <3>2. bound' \in [Ids -> 0..MaxMicros] /\ told' \in [Ids -> -1..MaxMicros]
      BY <2>3 DEF Settle
    <3> QED
      BY <2>3, <3>1, <3>2, SettleMoves DEF Settle, RowMove
  <2>4. ASSUME NEW c \in Charges, Charge(c) PROVE TypeOK' /\ \A i \in Ids : RowMove(i)
    <3>1. row' \in Table
      BY <2>4, ChargeMoves DEF Charge, Charged, Table
    <3>2. bound' \in [Ids -> 0..MaxMicros] /\ told' \in [Ids -> -1..MaxMicros]
      BY <2>4, MicrosType DEF Charge, Charges
    <3> QED
      BY <2>4, <3>1, <3>2, ChargeMoves, ZenonT(60) DEF Charge, ChargeAccepted, RowMove
  <2> QED
    BY <1>1, <2>1, <2>2, <2>3, <2>4 DEF ClientCall
<1>2. CASE Arrive \/ Alarm
  <2>1. /\ row' = Maintained(row, now)
        /\ bound' = Kept(bound, row', 0) /\ told' = Kept(told, row', -1)
        /\ now' = now /\ lostAlarm' = lostAlarm /\ scheduling' = scheduling
    BY <1>2 DEF Arrive, Alarm
  <2>2. row' \in Table
    BY <2>1, MaintainedType
  <2>3. bound' \in [Ids -> 0..MaxMicros] /\ told' \in [Ids -> -1..MaxMicros]
    BY <2>1, MicrosType DEF Kept
  <2>4. alarm' \in Nat \cup {NoAlarm}
    BY <1>2, ClockType, AlarmType DEF Arrive, Alarm, NextAlarm
  <2> QED
    BY <2>1, <2>2, <2>3, <2>4, MaintainMoves DEF RowMove
<1>3. CASE ScheduleAlarm \/ Restart \/ Tick
  <2>1. row' = row /\ bound' = bound /\ told' = told
    BY <1>3 DEF ScheduleAlarm, Restart, Tick
  <2>2. \A i \in Ids : RowMove(i)
    BY <2>1 DEF RowMove, QuietMove, KeepRow
  <2>3. now' \in 0..MaxTime
    BY <1>3, ClockType DEF ScheduleAlarm, Restart, Tick
  <2>4. alarm' \in Nat \cup {NoAlarm}
    BY <1>3, ClockType, AlarmType DEF ScheduleAlarm, Restart, Tick, NextAlarm
  <2>5. lostAlarm' \in BOOLEAN
    BY <1>3 DEF ScheduleAlarm, Restart, Tick
  <2>6. scheduling' \in BOOLEAN
    BY <1>3, Zenon DEF ScheduleAlarm, Restart, Tick
  <2> QED
    BY <2>1, <2>2, <2>3, <2>4, <2>5, <2>6
<1> QED
  BY <1>1, <1>2, <1>3 DEF Next

LEMMA PriceStep ==
    ASSUME TypeOK, OnlyReceiptsPrice, NEW i \in Ids, RowMove(i)
    PROVE  row'[i] # NoRow =>
               /\ row'[i].settled # 1 => row'[i].micros = bound'[i]
               /\ row'[i].settled = 1 /\ row'[i].dispatched => row'[i].micros = told'[i]
               /\ row'[i].settled = 1 /\ ~row'[i].dispatched => row'[i].micros = 0
<1>1. CASE KeepRow(i)
  BY <1>1 DEF KeepRow, OnlyReceiptsPrice
<1>2. CASE LapseRow(i) \/ SendRow(i)
  BY <1>2 DEF LapseRow, SendRow, SameKey, OnlyReceiptsPrice
<1>3. CASE FreeRow(i)
  BY <1>3 DEF FreeRow
<1>4. CASE PriceRow(i)
  BY <1>4 DEF PriceRow
<1>5. CASE GoneRow(i) \/ FreshHold(i) \/ FreshCharge(i)
  BY <1>5 DEF GoneRow, FreshHold, FreshCharge
<1> QED
  BY <1>1, <1>2, <1>3, <1>4, <1>5 DEF RowMove, QuietMove

LEMMA WindowStep ==
    ASSUME TypeOK, WindowBegun, NEW i \in Ids, RowMove(i)
    PROVE  row'[i] # NoRow =>
               /\ row'[i].window[1] \in Kinds
               /\ row'[i].window[2] <= Index[row'[i].window[1]][row'[i].created]
<1>1. CASE FreshRow(i)
  BY <1>1, BegunWindows DEF FreshRow, TypeOK
<1>2. CASE ~FreshRow(i)
  BY <1>2 DEF RowMove, QuietMove, FreshHold, FreshCharge, KeepRow, LapseRow, FreeRow, SendRow, PriceRow, GoneRow,
              SameKey, WindowBegun
<1> QED
  BY <1>1, <1>2

-----------------------------------------------------------------------------
(* Every reachable state of the ledger is well typed, has amounts that     *)
(* only /reserve, /settle and /charge set, and charges begun windows.      *)
Inv == TypeOK /\ OnlyReceiptsPrice /\ WindowBegun

LEMMA InvInit == Init => Inv
<1> SUFFICES ASSUME Init PROVE Inv
  OBVIOUS
<1>1. row \in Table /\ \A i \in Ids : row[i] = NoRow
  BY DEF Init, Table
<1>2. /\ now \in 0..MaxTime /\ alarm \in Nat \cup {NoAlarm}
      /\ bound \in [Ids -> 0..MaxMicros] /\ told \in [Ids -> -1..MaxMicros]
  BY ClockType, MicrosType DEF Init
<1>3. scheduling \in BOOLEAN /\ lostAlarm \in BOOLEAN
  BY DEF Init
<1> QED
  BY <1>1, <1>2, <1>3 DEF Inv, TypeOK, OnlyReceiptsPrice, WindowBegun

LEMMA InvStep == Inv /\ [Next]_vars => Inv'
<1> SUFFICES ASSUME Inv, [Next]_vars PROVE Inv'
  OBVIOUS
<1>1. CASE Next
  <2>1. TypeOK' /\ \A i \in Ids : RowMove(i)
    BY <1>1, NextMoves DEF Inv
  <2>2. OnlyReceiptsPrice'
    BY <2>1, PriceStep DEF Inv, OnlyReceiptsPrice
  <2>3. WindowBegun'
    BY <2>1, WindowStep DEF Inv, WindowBegun
  <2> QED
    BY <2>1, <2>2, <2>3 DEF Inv
<1>2. CASE UNCHANGED vars
  BY <1>2 DEF vars, Inv, TypeOK, OnlyReceiptsPrice, WindowBegun
<1> QED
  BY <1>1, <1>2

(* BudgetLedgerObject: whatever is called in whatever order, the table     *)
(* keeps its schema and the clock its range.                               *)
THEOREM TypeCorrect == Spec => []TypeOK
<1>1. Inv => TypeOK
  BY DEF Inv
<1> QED
  BY InvInit, InvStep, <1>1, PTL DEF Spec

(* maintain and settle: dispatched work is priced by an acknowledged       *)
(* settlement or charge only, for any number of ids and any lease.         *)
THEOREM PricedByReceipts == Spec => []OnlyReceiptsPrice
<1>1. Inv => OnlyReceiptsPrice
  BY DEF Inv
<1> QED
  BY InvInit, InvStep, <1>1, PTL DEF Spec

LEMMA OpenRowStep ==
    ASSUME Inv, NEW i \in Ids, RowMove(i), row[i] # NoRow, ~Closed(row[i].window, now)
    PROVE  row'[i] # NoRow /\ row'[i].window = row[i].window
<1>1. row[i] \in Row /\ row[i].created \in 0..MaxTime /\ now \in 0..MaxTime
  BY DEF Inv, TypeOK, Table, Row
<1>2. ~(row[i].created + Retention < now)
  <2> SUFFICES ASSUME row[i].created + Retention < now PROVE FALSE
    OBVIOUS
  <2> DEFINE k == row[i].window[1]
  <2>1. k \in Kinds /\ row[i].window[2] <= Index[k][row[i].created]
    BY DEF Inv, WindowBegun
  <2>2. Index[k][row[i].created] < Index[k][now]
    BY <1>1, <2>1, RetentionLongest
  <2>3. row[i].window[2] \in 0..MaxTime /\ Index[k][row[i].created] \in 0..MaxTime
        /\ Index[k][now] \in 0..MaxTime
    BY <1>1, <2>1, CalendarType DEF Row, Windows
  <2> QED
    BY <2>1, <2>2, <2>3 DEF Closed
<1> QED
  BY <1>2 DEF RowMove, QuietMove, FreshHold, FreshCharge, KeepRow, LapseRow, FreeRow, SendRow, PriceRow, GoneRow,
              FreshRow, SameKey

(* maintain: the cleanup after chargeRetentionMs never deletes or moves a  *)
(* charge of a window that is still open, for every calendar whose windows *)
(* are shorter than the retention.                                         *)
THEOREM CleanupKeepsOpenWindows == Spec => OpenWindowKept
<1>1. Inv /\ [Next]_vars =>
        [\A i \in Ids : row[i] # NoRow /\ ~Closed(row[i].window, now) =>
            row'[i] # NoRow /\ row'[i].window = row[i].window]_vars
  <2> SUFFICES ASSUME Inv, Next, NEW i \in Ids, row[i] # NoRow, ~Closed(row[i].window, now)
               PROVE  row'[i] # NoRow /\ row'[i].window = row[i].window
    OBVIOUS
  <2> QED
    BY NextMoves, OpenRowStep DEF Inv
<1> QED
  BY InvInit, InvStep, <1>1, PTL DEF Spec, OpenWindowKept

-----------------------------------------------------------------------------
(* No step but an admission adds admitted micros.                          *)
LEMMA NoNewAdmission ==
    ASSUME Inv, TypeOK', NEW i \in Ids, QuietMove(i),
           NEW w, NEW s, NEW k \in 1..MaxMicros,
           row'[i] # NoRow, row'[i].window = w, row'[i].scope \in {s, NoScope},
           k <= row'[i].micros, k <= bound'[i]
    PROVE  /\ row[i] # NoRow /\ row[i].window = w /\ row[i].scope \in {s, NoScope}
           /\ k <= row[i].micros /\ k <= bound[i]
<1>1. CASE KeepRow(i)
  BY <1>1 DEF KeepRow
<1>2. CASE LapseRow(i) \/ SendRow(i)
  BY <1>2 DEF LapseRow, SendRow, SameKey
<1>3. CASE FreeRow(i)
  BY <1>3, MicrosType DEF FreeRow
<1>4. CASE PriceRow(i)
  BY <1>4 DEF PriceRow, SameKey, Inv, OnlyReceiptsPrice
<1>5. CASE GoneRow(i)
  BY <1>5 DEF GoneRow
<1>6. CASE FreshCharge(i)
  BY <1>6, MicrosType DEF FreshCharge
<1> QED
  BY <1>1, <1>2, <1>3, <1>4, <1>5, <1>6 DEF QuietMove

Cap(w) == IF MaxLimit > LegacySpent[w] THEN MaxLimit - LegacySpent[w] ELSE 0

LEMMA QuietStep ==
    ASSUME Inv, AdmittedWithinLimit, TypeOK', \A i \in Ids : QuietMove(i)
    PROVE  AdmittedWithinLimit'
<1> SUFFICES ASSUME NEW w \in Windows, NEW s \in Scopes
             PROVE  Cardinality(AdmittedMicros(w, s)') <= Cap(w)
  BY DEF AdmittedWithinLimit, Cap
<1>1. AdmittedMicros(w, s)' \in SUBSET AdmittedMicros(w, s)
  BY NoNewAdmission DEF AdmittedMicros
<1>2. Cardinality(AdmittedMicros(w, s)) <= Cap(w)
  BY DEF AdmittedWithinLimit, Cap
<1>3. AdmittedMicros(w, s) \in SUBSET (Ids \X (1..MaxMicros))
  BY DEF AdmittedMicros
<1>4. /\ Cardinality(AdmittedMicros(w, s)') <= Cardinality(AdmittedMicros(w, s))
      /\ Cardinality(AdmittedMicros(w, s)') \in Nat
      /\ Cardinality(AdmittedMicros(w, s)) \in Nat
  BY <1>1, <1>3, MicrosFinite
<1>5. Cap(w) \in Nat
  BY MicrosType, LegacyType DEF Cap
<1> QED
  BY <1>2, <1>4, <1>5

(* An admission keeps the window it is charged to within the caller's      *)
(* limit: everything admitted there is part of what effectiveSpent counts. *)
LEMMA AdmissionStep ==
    ASSUME Inv, AdmittedWithinLimit, TypeOK', NEW q \in Requests, Reserve(q),
           Admits(row, q)
    PROVE  AdmittedWithinLimit'
<1> SUFFICES ASSUME NEW w \in Windows, NEW s \in Scopes
             PROVE  Cardinality(AdmittedMicros(w, s)') <= Cap(w)
  BY DEF AdmittedWithinLimit, Cap
<1> DEFINE Old == AdmittedMicros(w, s)
           New == AdmittedMicros(w, s)'
           Mine == {q.id} \X (1..q.cost)
           Counted == Micros(row, w, q.scope)
<1>1. TypeOK /\ row \in Table
  BY DEF Inv, TypeOK
<1>2. q.id \in Ids /\ q.cost \in 0..MaxMicros /\ q.limit \in 0..MaxLimit
  BY DEF Requests
<1>3. row' = [row EXCEPT ![q.id] = NewRow(q, now)]
  BY DEF Reserve, Reserved
<1>4. \A i \in Ids \ {q.id} : row'[i] = row[i] /\ QuietMove(i)
  BY <1>1, <1>3, ReserveMoves DEF Table, QuietMove
<1>5. row'[q.id].window = q.window /\ row'[q.id].scope = q.scope /\ row'[q.id].micros = q.cost
  BY <1>1, <1>2, <1>3 DEF NewRow, Table
<1>6. Old \in SUBSET (Ids \X (1..MaxMicros)) /\ Counted \in SUBSET (Ids \X (1..MaxMicros))
  BY DEF AdmittedMicros, Micros
<1>7. /\ Mine \in SUBSET (Ids \X (1..MaxMicros)) /\ IsFiniteSet(Mine)
      /\ Cardinality(Mine) = q.cost
  BY <1>2, OneRowMicros
<1>8. Cap(w) \in Nat /\ LegacySpent[w] \in Nat
  BY MicrosType, LegacyType DEF Cap
<1>9. Cardinality(Old) <= Cap(w)
  BY DEF AdmittedWithinLimit, Cap
<1>10. CASE ~(q.window = w /\ q.scope \in {s, NoScope} /\ q.cost > 0)
  <2>1. New \in SUBSET Old
    <3> SUFFICES ASSUME NEW m \in New PROVE m \in Old
      OBVIOUS
    <3>1. /\ m \in Ids \X (1..MaxMicros) /\ m[1] \in Ids /\ m[2] \in 1..MaxMicros
          /\ row'[m[1]] # NoRow /\ row'[m[1]].window = w
          /\ row'[m[1]].scope \in {s, NoScope}
          /\ m[2] <= row'[m[1]].micros /\ m[2] <= bound'[m[1]]
      BY DEF AdmittedMicros
    <3>2. m[1] # q.id
      BY <1>2, <1>5, <1>10, <3>1, MicrosType
    <3>3. QuietMove(m[1])
      BY <1>4, <3>1, <3>2
    <3>4. /\ row[m[1]] # NoRow /\ row[m[1]].window = w
          /\ row[m[1]].scope \in {s, NoScope}
          /\ m[2] <= row[m[1]].micros /\ m[2] <= bound[m[1]]
      BY <3>1, <3>3, NoNewAdmission
    <3> QED
      BY <3>1, <3>4 DEF AdmittedMicros
  <2>2. Cardinality(New) <= Cardinality(Old) /\ Cardinality(New) \in Nat /\ Cardinality(Old) \in Nat
    BY <1>6, <2>1, MicrosFinite
  <2> QED
    BY <1>8, <1>9, <2>2
<1>11. CASE q.window = w /\ q.scope \in {s, NoScope} /\ q.cost > 0
  <2>1. New \in SUBSET (Counted \cup Mine)
    <3> SUFFICES ASSUME NEW m \in New PROVE m \in Counted \cup Mine
      OBVIOUS
    <3>1. /\ m \in Ids \X (1..MaxMicros) /\ m[1] \in Ids /\ m[2] \in 1..MaxMicros
          /\ m = <<m[1], m[2]>>
          /\ row'[m[1]] # NoRow /\ row'[m[1]].window = w
          /\ row'[m[1]].scope \in {s, NoScope}
          /\ m[2] <= row'[m[1]].micros
      BY DEF AdmittedMicros
    <3>2. CASE m[1] = q.id
      <4>1. m[2] \in 1..q.cost
        BY <1>2, <1>5, <3>1, <3>2
      <4> QED
        BY <3>1, <3>2, <4>1
    <3>3. CASE m[1] # q.id
      <4>1. row'[m[1]] = row[m[1]]
        BY <1>4, <3>1, <3>3
      <4>2. InScope(row[m[1]].scope, q.scope)
        BY <1>11, <3>1, <4>1 DEF InScope
      <4> QED
        BY <3>1, <4>1, <4>2 DEF Micros
    <3> QED
      BY <3>2, <3>3
  <2>2. /\ IsFiniteSet(Counted) /\ Cardinality(Counted) \in Nat
        /\ Cardinality(Counted \cup Mine) <= Cardinality(Counted) + q.cost
    <3>1. IsFiniteSet(Counted) /\ Cardinality(Counted) \in Nat
      BY <1>6, MicrosFinite
    <3>2. Cardinality(Counted \cup Mine) =
            Cardinality(Counted) + Cardinality(Mine) - Cardinality(Counted \cap Mine)
      BY <1>7, <3>1, FS_Union
    <3>3. Cardinality(Counted \cap Mine) \in Nat
      BY <3>1, FS_Intersection, FS_CardinalityType
    <3> QED
      BY <1>2, <1>7, <3>1, <3>2, <3>3
  <2>3. Cardinality(New) <= Cardinality(Counted \cup Mine) /\ Cardinality(New) \in Nat
        /\ Cardinality(Counted \cup Mine) \in Nat
    BY <1>6, <1>7, <2>1, MicrosFinite
  <2>4. q.cost <= q.limit - (LegacySpent[w] + Cardinality(Counted))
    <3>1. Fits(row, q)
      BY DEF Admits
    <3> QED
      BY <1>2, <1>8, <1>11, <2>2, <3>1, MicrosType DEF Fits, EffectiveSpent
  <2> QED
    BY <1>2, <1>8, <1>11, <2>2, <2>3, <2>4, MicrosType DEF Cap
<1> QED
  BY <1>10, <1>11

(* effectiveSpent and reserve: for any number of ids, scopes and windows,  *)
(* any legacy debt and any order of calls, the admitted charges of a       *)
(* window and scope stay within the largest limit a caller was held to.    *)
THEOREM CapHolds == Spec => []AdmittedWithinLimit
<1>1. Init => AdmittedWithinLimit
  <2> SUFFICES ASSUME Init, NEW w \in Windows, NEW s \in Scopes
               PROVE  Cardinality(AdmittedMicros(w, s)) <= Cap(w)
    BY DEF AdmittedWithinLimit, Cap
  <2>1. AdmittedMicros(w, s) = {}
    BY DEF AdmittedMicros, Init
  <2> QED
    BY <2>1, FS_EmptySet, MicrosType, LegacyType DEF Cap
<1>2. Inv /\ AdmittedWithinLimit /\ [Next]_vars => AdmittedWithinLimit'
  <2> SUFFICES ASSUME Inv, AdmittedWithinLimit, [Next]_vars PROVE AdmittedWithinLimit'
    OBVIOUS
  <2>1. CASE UNCHANGED vars
    BY <2>1 DEF vars, AdmittedWithinLimit, AdmittedMicros
  <2>2. CASE Next
    <3>1. TypeOK /\ TypeOK'
      BY <2>2, NextMoves DEF Inv
    <3>2. CASE \E q \in Requests : Reserve(q) /\ Admits(row, q)
      BY <3>1, <3>2, AdmissionStep
    <3>3. CASE ~\E q \in Requests : Reserve(q) /\ Admits(row, q)
      <4>1. ASSUME NEW q \in Requests, Reserve(q) PROVE \A i \in Ids : QuietMove(i)
        BY <3>1, <3>3, <4>1, ReserveMoves DEF QuietMove
      <4>2. ASSUME NEW j \in Ids, Dispatch(j) PROVE \A i \in Ids : QuietMove(i)
        BY <3>1, <4>2, DispatchMoves
      <4>3. ASSUME NEW j \in Ids, NEW a \in 0..MaxMicros, Settle(j, a)
            PROVE  \A i \in Ids : QuietMove(i)
        BY <3>1, <4>3, SettleMoves
      <4>4. ASSUME NEW c \in Charges, Charge(c) PROVE \A i \in Ids : QuietMove(i)
        BY <3>1, <4>4, ChargeMoves
      <4>5. ASSUME Arrive \/ Alarm PROVE \A i \in Ids : QuietMove(i)
        BY <3>1, <4>5, MaintainMoves DEF Arrive, Alarm
      <4>6. ASSUME ScheduleAlarm \/ Restart \/ Tick PROVE \A i \in Ids : QuietMove(i)
        BY <4>6 DEF ScheduleAlarm, Restart, Tick, QuietMove, KeepRow
      <4>7. \A i \in Ids : QuietMove(i)
        BY <2>2, <4>1, <4>2, <4>3, <4>4, <4>5, <4>6 DEF Next, ClientCall
      <4> QED
        BY <3>1, <4>7, QuietStep
    <3> QED
      BY <3>2, <3>3
  <2> QED
    BY <2>1, <2>2
<1> QED
  BY InvInit, InvStep, <1>1, <1>2, PTL DEF Spec

-----------------------------------------------------------------------------
(* The table implements the life of a receipt.                             *)

(* The clock stands still whenever a row moves.                            *)
LEMMA ClockOrRows ==
    ASSUME TypeOK, Next
    PROVE  now' = now \/ (now' > now /\ row' = row)
<1>1. CASE Tick
  BY <1>1, ClockType DEF TypeOK, Tick
<1>2. CASE ClientCall
  <2>1. ASSUME NEW q, Reserve(q) PROVE now' = now
    BY <2>1 DEF Reserve
  <2>2. ASSUME NEW j, Dispatch(j) PROVE now' = now
    BY <2>2 DEF Dispatch
  <2>3. ASSUME NEW j, NEW a, Settle(j, a) PROVE now' = now
    BY <2>3 DEF Settle
  <2>4. ASSUME NEW c, Charge(c) PROVE now' = now
    BY <2>4 DEF Charge
  <2> QED
    BY <1>2, <2>1, <2>2, <2>3, <2>4 DEF ClientCall
<1>3. CASE Arrive \/ ScheduleAlarm \/ Restart \/ Alarm
  BY <1>3 DEF Arrive, ScheduleAlarm, Restart, Alarm
<1> QED
  BY <1>1, <1>2, <1>3 DEF Next

LEMMA ReceiptMove ==
    ASSUME Inv, TypeOK', NEW i \in Ids, RowMove(i)
    PROVE  Receipt!Move(i)
<1> USE DEF PhaseOf
<1>1. row[i] \in Row \cup {NoRow} /\ row'[i] \in Row \cup {NoRow}
  BY DEF Inv, TypeOK, Table
<1>2. CASE KeepRow(i) \/ LapseRow(i)
  <2>1. Receipt!Stays(i)
    BY <1>2 DEF KeepRow, LapseRow, SameKey, Receipt!Stays
  <2> QED
    BY <2>1 DEF Receipt!Move
<1>3. CASE FreeRow(i)
  <2>1. Receipt!Release(i)
    BY <1>3 DEF FreeRow, SameKey, Receipt!Release
  <2> QED
    BY <2>1 DEF Receipt!Move
<1>4. CASE SendRow(i)
  <2>1. Receipt!Commit(i) \/ Receipt!Stays(i)
    BY <1>4 DEF SendRow, SameKey, Receipt!Commit, Receipt!Stays
  <2> QED
    BY <2>1 DEF Receipt!Move
<1>5. CASE PriceRow(i)
  <2>1. row'[i] \in Row
    BY <1>1, <1>5 DEF PriceRow, SameKey
  <2>2. row'[i].micros \in 0..MaxMicros
    BY <2>1 DEF Row
  <2>3. CASE row[i].settled = 1
    BY <1>5, <2>3 DEF PriceRow, SameKey, Receipt!Move, Receipt!Stays
  <2>4. CASE row[i].settled # 1 /\ row[i].dispatched
    BY <1>5, <2>2, <2>4 DEF PriceRow, SameKey, Receipt!Move, Receipt!Price
  <2>5. CASE row[i].settled # 1 /\ ~row[i].dispatched
    BY <1>5, <2>5 DEF PriceRow, SameKey, Receipt!Move, Receipt!Release
  <2> QED
    BY <2>3, <2>4, <2>5
<1>6. CASE GoneRow(i)
  BY <1>6 DEF GoneRow, Receipt!Move, Receipt!Forget
<1>7. CASE FreshHold(i) \/ FreshCharge(i)
  <2>1. row'[i] \in Row /\ row'[i].micros \in 0..MaxMicros
    BY <1>1, <1>7 DEF FreshHold, FreshCharge, FreshRow, Row
  <2>2. Receipt!Make(i) /\ PhaseOf(row[i]) = "absent"
    BY <1>7, <2>1 DEF FreshHold, FreshCharge, FreshRow, Receipt!Make
  <2> QED
    BY <2>2 DEF Receipt!Move
<1> QED
  BY <1>2, <1>3, <1>4, <1>5, <1>6, <1>7 DEF RowMove, QuietMove

(* BudgetLedgerObject implements BudgetReceipt: every handler, in every    *)
(* order of calls, moves each id along the life of a receipt.              *)
THEOREM ImplementsReceipt == Spec => ReceiptSpec
<1>1. Init => Receipt!Init
  BY DEF Init, Receipt!Init, PhaseOf
<1>2. Inv /\ [Next]_vars => [Receipt!Next]_(Receipt!vars)
  <2> SUFFICES ASSUME Inv, [Next]_vars PROVE [Receipt!Next]_(Receipt!vars)
    OBVIOUS
  <2>1. CASE UNCHANGED vars
    BY <2>1 DEF vars, Receipt!vars, PhaseOf
  <2>2. CASE Next
    <3>1. TypeOK' /\ \A i \in Ids : RowMove(i)
      BY <2>2, NextMoves DEF Inv
    <3>2. \A i \in Ids : Receipt!Move(i)
      BY <3>1, ReceiptMove
    <3>3. CASE now' = now
      BY <3>2, <3>3 DEF Receipt!Next
    <3>4. CASE now' > now /\ row' = row
      <4>1. \A i \in Ids : Receipt!Stays(i)
        BY <3>4 DEF Receipt!Stays, PhaseOf
      <4> QED
        BY <3>4, <4>1 DEF Receipt!Next
    <3> QED
      BY <2>2, <3>3, <3>4, ClockOrRows DEF Inv
  <2> QED
    BY <2>1, <2>2
<1> QED
  BY InvInit, InvStep, <1>1, <1>2, PTL DEF Spec, ReceiptSpec, Receipt!Spec
=============================================================================
