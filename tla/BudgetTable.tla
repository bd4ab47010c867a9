----------------------------- MODULE BudgetTable -----------------------------
(***************************************************************************)
(* The table budget_reservations of one BudgetLedgerObject                 *)
(* (worker/ledgers.ts), and the effect of each of its handlers on it.      *)
(*                                                                         *)
(* A handler is a function of the table: what it admits or accepts         *)
(* (a predicate) and the table it leaves behind.  maintain() runs when a   *)
(* request arrives and the handler after the body has been read; the       *)
(* modules that use this one decide who calls a handler, and when.         *)
(*                                                                         *)
(* Money is counted in micros.  A sum of micros is written as the          *)
(* cardinality of the set of the single micros it is made of, so that no   *)
(* recursive definition is needed and the sums can be reasoned about.      *)
(***************************************************************************)
EXTENDS Integers, FiniteSets

CONSTANTS
    Ids,          \* reservation and charge ids (randomId("budget"))
    Kinds,        \* kinds of budget window: monthly, daily, weekly
    Index,        \* the calendar: number of the window of a kind at a tick
    Scopes,       \* budget_scope_key values
    NoScope,      \* a NULL budget_scope_key: an untyped legacy receipt
    NoRow,        \* the id has no row
    MaxMicros,    \* largest amount (Number.MAX_SAFE_INTEGER in the code)
    MaxLimit,     \* largest budget limit a caller sends
    MaxTime,      \* last tick of the clock
    Lease,        \* reservationLeaseMs
    Retention,    \* chargeRetentionMs
    LegacySpent   \* budget_windows.spent_micros, never written any more

Windows == Kinds \X (0..MaxTime)

Row == [window     : Windows,
        scope      : Scopes \cup {NoScope},
        micros     : 0..MaxMicros,
        created    : 0..MaxTime,
        settled    : 0..2,
        dispatched : BOOLEAN]

Table == [Ids -> Row \cup {NoRow}]

ASSUME IdsFinite       == IsFiniteSet(Ids)
ASSUME CalendarType    == Index \in [Kinds -> [0..MaxTime -> 0..MaxTime]]
(* Windows of a kind follow one another; months and weeks need not have    *)
(* the same length.                                                        *)
ASSUME CalendarOrder   == \A k \in Kinds : \A t, u \in 0..MaxTime :
                              t <= u => Index[k][t] <= Index[k][u]
ASSUME ClockType       == MaxTime \in Nat /\ Lease \in Nat \ {0} /\ Retention \in Nat
ASSUME MicrosType      == MaxMicros \in Nat /\ MaxLimit \in Nat
ASSUME LegacyType      == LegacySpent \in [Windows -> Nat]
ASSUME NullsAreNull    == NoScope \notin Scopes /\ NoRow \notin Row
(* 45 days outlive the longest window, a calendar month, and the lease.    *)
ASSUME RetentionLongest ==
    /\ Lease <= Retention
    /\ \A k \in Kinds : \A t, u \in 0..MaxTime :
          t + Retention < u => Index[k][t] < Index[k][u]

(* budgetLedgerAddress and its daily and weekly variants: the window a     *)
(* request planned at tick t is charged to.                                *)
WindowAt(k, t) == <<k, Index[k][t]>>

Closed(w, t) == w[2] < Index[w[1]][t]

-----------------------------------------------------------------------------
(* effectiveSpent: a caller without a scope counts every row of its window *)
(* and a row without a scope counts against every caller.                  *)
MutInScopeExact(rowScope, scope) == rowScope = scope
InScope(rowScope, scope) ==
    scope = NoScope \/ rowScope = NoScope \/ rowScope = scope

Micros(table, w, scope) ==
    {m \in Ids \X (1..MaxMicros) :
        /\ table[m[1]] # NoRow
        /\ table[m[1]].window = w
        /\ InScope(table[m[1]].scope, scope)
        /\ m[2] <= table[m[1]].micros}

EffectiveSpent(table, w, scope) ==
    LegacySpent[w] + Cardinality(Micros(table, w, scope))

-----------------------------------------------------------------------------
(* The final form of a row: reserved_micros = amount, settled = 1.         *)
MutPricedByDifference(r, amount) ==
    [window |-> r.window, scope |-> r.scope, micros |-> amount - r.micros,
     created |-> r.created, settled |-> 1, dispatched |-> r.dispatched]
Priced(r, amount) ==
    [window |-> r.window, scope |-> r.scope, micros |-> amount,
     created |-> r.created, settled |-> 1, dispatched |-> r.dispatched]

(* maintain(): three statements, run when a request arrives and by alarm() *)
MutExpireAll(r, t) ==
    IF r = NoRow \/ r.settled # 0 \/ r.created > t - Lease THEN r
    ELSE Priced(r, 0)
ExpiredRow(r, t) ==
    IF r = NoRow \/ r.settled # 0 \/ r.created > t - Lease THEN r
    ELSE IF r.dispatched THEN [r EXCEPT !.settled = 2]
    ELSE Priced(r, 0)

MutForgetAtLease(r, t) == r # NoRow /\ r.settled # 0 /\ r.created <= t - Lease
Forgotten(r, t) == r # NoRow /\ r.settled # 0 /\ r.created < t - Retention

MaintainedRow(r, t) ==
    IF Forgotten(ExpiredRow(r, t), t) THEN NoRow ELSE ExpiredRow(r, t)

Maintained(table, t) == [i \in Ids |-> MaintainedRow(table[i], t)]

-----------------------------------------------------------------------------
(* POST /reserve.  q is the BudgetReserveRequest.  A known id is answered  *)
(* from its row and nothing is charged twice.                              *)
Known(table, i) == table[i] # NoRow

MutFitsAlone(table, q) == q.cost <= q.limit
Fits(table, q) ==
    LET left == q.limit - EffectiveSpent(table, q.window, q.scope)
    IN  q.cost <= (IF left > 0 THEN left ELSE 0)

Admits(table, q) == ~Known(table, q.id) /\ Fits(table, q)

Allowed(table, q) == Known(table, q.id) \/ Fits(table, q)

(* The reply carries dispatched: TRUE only for a live, unexpired dispatch. *)
AckedDispatched(table, t, q) ==
    /\ q.dispatched
    /\ \/ Admits(table, q)
       \/ /\ Known(table, q.id)
          /\ table[q.id].dispatched
          /\ table[q.id].settled = 0
          /\ table[q.id].created + Lease > t

NewRow(q, t) ==
    [window |-> q.window, scope |-> q.scope, micros |-> q.cost, created |-> t,
     settled |-> 0, dispatched |-> q.dispatched]

Reserved(table, t, q) ==
    IF Admits(table, q) THEN [table EXCEPT ![q.id] = NewRow(q, t)] ELSE table

-----------------------------------------------------------------------------
(* POST /dispatch: refused for a missing, settled or expired reservation,  *)
(* one whose lease ended while the body was read included.                 *)
MutDispatchLate(table, t, i) == Known(table, i) /\ table[i].settled = 0
Dispatchable(table, t, i) ==
    /\ Known(table, i)
    /\ table[i].settled = 0
    /\ table[i].created + Lease > t

Dispatched(table, t, i) ==
    IF Dispatchable(table, t, i)
    THEN [table EXCEPT ![i].dispatched = TRUE] ELSE table

-----------------------------------------------------------------------------
(* POST /settle: a settled row accepts only the amount it already has, an  *)
(* undispatched row only zero.  The actual amount may exceed the reserve.  *)
MutSettleAnyTime(table, i, actual) ==
    Known(table, i) /\ (table[i].dispatched \/ actual = 0)
SettleAccepted(table, i, actual) ==
    /\ Known(table, i)
    /\ table[i].settled = 1 => table[i].micros = actual
    /\ table[i].dispatched \/ actual = 0

Settled(table, i, actual) ==
    IF SettleAccepted(table, i, actual)
    THEN [table EXCEPT ![i] = Priced(@, actual)] ELSE table

-----------------------------------------------------------------------------
(* POST /charge (soft enforcement): one final, dispatched row per id; a    *)
(* repeat must equal the row it made.                                      *)
ChargeRow(c, t) ==
    [window |-> c.window, scope |-> c.scope, micros |-> c.amount, created |-> t,
     settled |-> 1, dispatched |-> TRUE]

ChargeAccepted(table, c) ==
    Known(table, c.id) =>
        /\ table[c.id].window = c.window
        /\ table[c.id].scope = c.scope
        /\ table[c.id].micros = c.amount
        /\ table[c.id].settled = 1
        /\ table[c.id].dispatched

Charged(table, t, c) ==
    IF Known(table, c.id) THEN table
    ELSE [table EXCEPT ![c.id] = ChargeRow(c, t)]

=============================================================================
