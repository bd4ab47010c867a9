---------------------------- MODULE BudgetLedger ----------------------------
(***************************************************************************)
(* One BudgetLedgerObject under every caller: any client may send any      *)
(* request at any time, late, repeated or out of order.  maintain() runs   *)
(* when a request arrives, and its handler once the body has been read:    *)
(* other requests and the clock move in between, so a handler is a step of *)
(* its own, on the table as it then is.  The alarm it asks for is set in a *)
(* third step, which a restart of the object can lose.                     *)
(***************************************************************************)
EXTENDS BudgetTable

CONSTANTS
    NoAlarm,      \* no alarm is set
    Day,          \* ticks to the next cleanup when nothing is held
    LastCall      \* last tick at which a client calls (bounds the runs)

ASSUME AlarmType == Day \in Nat \ {0} /\ LastCall \in 0..MaxTime /\ NoAlarm \notin Nat

VARIABLES
    row,          \* the table
    now,          \* Date.now() of the object
    alarm,        \* state.storage alarm
    scheduling,   \* scheduleAlarm() is waiting for getAlarm
    bound,        \* history: what /reserve admitted for an id
    told,         \* history: what /settle or /charge acknowledged, or -1
    lostAlarm     \* history: a restart lost the first alarm

vars == <<row, now, alarm, scheduling, bound, told, lostAlarm>>

TypeOK == /\ row \in Table
          /\ now \in 0..MaxTime
          /\ alarm \in Nat \cup {NoAlarm}
          /\ scheduling \in BOOLEAN
          /\ bound \in [Ids -> 0..MaxMicros]
          /\ told \in [Ids -> -1..MaxMicros]
          /\ lostAlarm \in BOOLEAN

Init == /\ row = [i \in Ids |-> NoRow]
        /\ now = 0
        /\ alarm = NoAlarm
        /\ scheduling = FALSE
        /\ bound = [i \in Ids |-> 0]
        /\ told = [i \in Ids |-> -1]
        /\ lostAlarm = FALSE

(* The history of an id ends with its row.                                 *)
Kept(history, table, none) == [i \in Ids |-> IF table[i] = NoRow THEN none ELSE history[i]]

-----------------------------------------------------------------------------
(* A request arrives and maintain() runs: all that GET /status changes.    *)
Arrive ==
    /\ ~scheduling
    /\ row' = Maintained(row, now)
    /\ bound' = Kept(bound, row', 0)
    /\ told' = Kept(told, row', -1)
    /\ UNCHANGED <<now, alarm, scheduling, lostAlarm>>

(* The handlers, after the body has been read.                             *)
Reserve(q) ==
    /\ ~scheduling
    /\ row' = Reserved(row, now, q)
    /\ scheduling' = Admits(row, q)
    /\ bound' = IF Admits(row, q) THEN [bound EXCEPT ![q.id] = q.cost] ELSE bound
    /\ UNCHANGED <<now, alarm, told, lostAlarm>>

Dispatch(i) ==
    /\ ~scheduling
    /\ row' = Dispatched(row, now, i)
    /\ UNCHANGED <<now, alarm, scheduling, bound, told, lostAlarm>>

Settle(i, actual) ==
    /\ ~scheduling
    /\ row' = Settled(row, i, actual)
    /\ told' = IF SettleAccepted(row, i, actual) THEN [told EXCEPT ![i] = actual] ELSE told
    /\ UNCHANGED <<now, alarm, scheduling, bound, lostAlarm>>

(* charge() awaits scheduleAlarm() whether or not the row was there.       *)
Charge(c) ==
    /\ ~scheduling
    /\ row' = IF ChargeAccepted(row, c) THEN Charged(row, now, c) ELSE row
    /\ scheduling' = ChargeAccepted(row, c)
    /\ bound' = IF Known(row, c.id) THEN bound ELSE [bound EXCEPT ![c.id] = 0]
    /\ told' = IF ChargeAccepted(row, c) THEN [told EXCEPT ![c.id] = c.amount] ELSE told
    /\ UNCHANGED <<now, alarm, lostAlarm>>

-----------------------------------------------------------------------------
(* scheduleAlarm(): an alarm that is set is never moved.                   *)
NextAlarm(table) ==
    IF \E i \in Ids : table[i] # NoRow /\ table[i].settled = 0 THEN now + Lease
    ELSE IF \E i \in Ids : table[i] # NoRow THEN now + Day
    ELSE NoAlarm

ScheduleAlarm ==
    /\ scheduling
    /\ scheduling' = FALSE
    /\ alarm' = IF alarm = NoAlarm THEN NextAlarm(row) ELSE alarm
    /\ lostAlarm' = FALSE
    /\ UNCHANGED <<row, now, bound, told>>

(* The object is evicted between the insert and setAlarm.                  *)
Restart ==
    /\ scheduling
    /\ scheduling' = FALSE
    /\ lostAlarm' = (alarm = NoAlarm)
    /\ UNCHANGED <<row, now, alarm, bound, told>>

(* alarm(): the alarm that fired is no longer set.                         *)
MutAlarmOnce ==
    /\ ~scheduling /\ alarm # NoAlarm /\ alarm <= now
    /\ row' = Maintained(row, now)
    /\ alarm' = NoAlarm
    /\ bound' = Kept(bound, row', 0)
    /\ told' = Kept(told, row', -1)
    /\ UNCHANGED <<now, scheduling, lostAlarm>>
Alarm ==
    /\ ~scheduling /\ alarm # NoAlarm /\ alarm <= now
    /\ row' = Maintained(row, now)
    /\ alarm' = NextAlarm(row')
    /\ bound' = Kept(bound, row', 0)
    /\ told' = Kept(told, row', -1)
    /\ UNCHANGED <<now, scheduling, lostAlarm>>

Tick == /\ now < MaxTime
        /\ now' = now + 1
        /\ UNCHANGED <<row, alarm, scheduling, bound, told, lostAlarm>>

-----------------------------------------------------------------------------
(* A request names a window that has begun when it arrives: it was planned *)
(* at this tick or at an earlier one.                                      *)
Begun == {WindowAt(k, t) : k \in Kinds, t \in 0..now}

Requests == [id : Ids, window : Begun, scope : Scopes \cup {NoScope},
             cost : 0..MaxMicros, limit : 0..MaxLimit, dispatched : BOOLEAN]
Charges == [id : Ids, window : Begun, scope : Scopes, amount : 0..MaxMicros]

ClientCall ==
    \/ \E q \in Requests : Reserve(q)
    \/ \E i \in Ids : Dispatch(i)
    \/ \E i \in Ids, a \in 0..MaxMicros : Settle(i, a)
    \/ \E c \in Charges : Charge(c)

Next == \/ now <= LastCall /\ ClientCall
        \/ Arrive
        \/ ScheduleAlarm
        \/ Restart
        \/ Alarm
        \/ Tick

Spec == Init /\ [][Next]_vars

(* The platform runs a due alarm and the object's own continuations.       *)
FairSpec == Spec /\ WF_vars(Alarm) /\ WF_vars(ScheduleAlarm) /\ WF_vars(Tick)

-----------------------------------------------------------------------------
(* The part of a row's charge that /reserve admitted: a settlement above   *)
(* the bound and a soft charge are admitted by nobody.                     *)
AdmittedMicros(w, s) ==
    {m \in Ids \X (1..MaxMicros) :
        /\ row[m[1]] # NoRow
        /\ row[m[1]].window = w
        /\ row[m[1]].scope \in {s, NoScope}
        /\ m[2] <= row[m[1]].micros
        /\ m[2] <= bound[m[1]]}

(* effectiveSpent and reserve: whatever order reservations, expiries,      *)
(* settlements and soft charges come in, what /reserve admitted in one     *)
(* window for one scope, legacy receipts and legacy debt included, never   *)
(* exceeds the largest limit a caller was held to.                         *)
AdmittedWithinLimit ==
    \A w \in Windows, s \in Scopes :
        Cardinality(AdmittedMicros(w, s)) <=
            (IF MaxLimit > LegacySpent[w] THEN MaxLimit - LegacySpent[w] ELSE 0)

(* maintain and settle: provider work whose dispatch was recorded is       *)
(* priced by an acknowledged settlement or charge and by nothing else;     *)
(* until then it is charged at what was admitted, expired or not.          *)
OnlyReceiptsPrice ==
    \A i \in Ids : row[i] # NoRow =>
        /\ row[i].settled # 1 => row[i].micros = bound[i]
        /\ row[i].settled = 1 /\ row[i].dispatched => row[i].micros = told[i]
        /\ row[i].settled = 1 /\ ~row[i].dispatched => row[i].micros = 0

(* maintain: a charge is deleted only after the window it counts against   *)
(* has closed, so the 45-day cleanup never gives budget back.              *)
OpenWindowKept ==
    [][\A i \in Ids : row[i] # NoRow /\ ~Closed(row[i].window, now) =>
          row'[i] # NoRow /\ row'[i].window = row[i].window]_vars

(* scheduleAlarm and alarm: a hold does not outlive its lease because      *)
(* nobody calls the object again; the one exception is a restart that lost *)
(* the first alarm.  A run ends when the next alarm lies beyond its clock. *)
Held(i) == row[i] # NoRow /\ row[i].settled = 0
ClockEnded == alarm # NoAlarm /\ alarm > MaxTime
HoldsExpire ==
    \A i \in Ids : Held(i) ~> (~Held(i) \/ lostAlarm \/ ClockEnded)

(* The table implements the life of a receipt.                             *)
PhaseOf(r) ==
    IF r = NoRow THEN "absent" ELSE IF r.settled = 1 THEN "final"
    ELSE IF r.dispatched THEN "owed" ELSE "held"

Receipt == INSTANCE BudgetReceipt WITH
    phase  <- [i \in Ids |-> PhaseOf(row[i])],
    micros <- [i \in Ids |-> IF row[i] = NoRow THEN 0 ELSE row[i].micros],
    born   <- [i \in Ids |-> IF row[i] = NoRow THEN 0 ELSE row[i].created]

(* Every handler, in every order of calls, moves each id along the life of *)
(* a receipt: no id is charged twice, no final amount is changed, a        *)
(* dispatch is recorded within the lease only, however late its body came, *)
(* and a dispatched reservation is never released by its lease.            *)
ReceiptSpec == Receipt!Spec

=============================================================================
