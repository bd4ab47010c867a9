----------------------------- MODULE Accounting -----------------------------
(***************************************************************************)
(* The accounting of proxied requests (worker/accounting.ts, the admission *)
(* and settlement parts of worker/proxy.ts, the queue consumer of          *)
(* worker/ledgers.ts) over the budget ledgers of its legs.                 *)
(*                                                                         *)
(* A request has one leg per budget it is held to.  A call to a ledger is  *)
(* a message: it may be delivered late, after its caller gave up, or not   *)
(* at all, and its reply may be lost after the ledger committed.  The      *)
(* worker may die anywhere.  A settlement that is not acknowledged goes to *)
(* a queue that delivers at least once, a bounded number of times.         *)
(***************************************************************************)
EXTENDS BudgetTable

CONSTANTS
    Requests,
    Legs,         \* policy, daily, weekly, provider: one window kind each
    Modes,        \* "fused", "split" (reserve mode) and "soft"
    Cost,         \* the reserved bound of a request
    Limit,        \* the limit of every leg
    MaxRetries,   \* max_retries of the usage queue
    MaxFaults     \* bound: lost calls, lost replies and deaths in a run

ASSUME AccountingType ==
    /\ Ids \subseteq Requests \X Legs /\ Kinds = Legs
    /\ Modes \subseteq {"fused", "split", "soft"}
    /\ Cost \in 0..MaxMicros /\ Limit \in 0..MaxLimit
    /\ MaxRetries \in Nat /\ MaxFaults \in Nat

(* A run is over before a ledger forgets a charge of it: the queue keeps a *)
(* message for days, chargeRetentionMs is 45 days.                         *)
ASSUME RunRetained == MaxTime <= Retention

VARIABLES
    row,       \* the rows of all ledgers: row[<<r, l>>] lives in the object of leg l
    now,       \* Date.now()
    pc,        \* where the worker is in request r
    mode,      \* how request r is admitted
    leg,       \* what the worker knows of each leg
    outcome,   \* the amount request r is finalized with
    sent,      \* the upstream request has left
    net,       \* calls on their way to a ledger: <<operation, id>>
    queue,     \* failed deliveries of the settlement of an id, or -1
    dlq,       \* settlements in the dead-letter queue
    faults,    \* how many faults have happened
    conflict   \* some ledger has refused a settlement or a charge

vars == <<row, now, pc, mode, leg, outcome, sent, net, queue, dlq, faults, conflict>>

(* held and marked: the reservation is acknowledged, marked with its       *)
(* dispatch; owing: its settlement awaits the ledger; failing: it must go  *)
(* to the queue; lost: the queue refused it.                               *)
LegStates == {"none", "calling", "failed", "held", "marked",
              "owing", "failing", "queued", "lost", "settled"}
Places == {"idle", "reserving", "reserved", "marking", "ready", "sent", "finalizing", "dead"}
Operations == {"reserve", "dispatch", "settle", "charge"}

TypeOK == /\ row \in Table
          /\ now \in 0..MaxTime
          /\ pc \in [Requests -> Places]
          /\ mode \in [Requests -> Modes]
          /\ leg \in [Ids -> LegStates]
          /\ outcome \in [Requests -> 0..MaxMicros]
          /\ sent \in [Requests -> BOOLEAN]
          /\ net \subseteq Operations \X Ids
          /\ queue \in [Ids -> -1..MaxRetries]
          /\ dlq \subseteq Ids
          /\ faults \in 0..MaxFaults
          /\ conflict \in BOOLEAN

Init == /\ row = [i \in Ids |-> NoRow]
        /\ now = 0
        /\ pc = [r \in Requests |-> "idle"]
        /\ mode \in [Requests -> Modes]
        /\ leg = [i \in Ids |-> "none"]
        /\ outcome = [r \in Requests |-> 0]
        /\ sent = [r \in Requests |-> FALSE]
        /\ net = {}
        /\ queue = [i \in Ids |-> -1]
        /\ dlq = {}
        /\ faults = 0
        /\ conflict = FALSE

-----------------------------------------------------------------------------
LegsOf(r) == {i \in Ids : i[1] = r}
Waiting(r) == \E i \in LegsOf(r) : leg[i] \in {"calling", "owing"}
Fulfilled(r) == {i \in LegsOf(r) : leg[i] \in {"held", "marked"}}
WindowOf(l) == WindowAt(l, 0)

Fault == faults < MaxFaults /\ faults' = faults + 1

(* The worker calls a ledger for each of the legs.                         *)
Call(operation, legs, state) ==
    /\ net' = net \cup {<<operation, i>> : i \in legs}
    /\ leg' = [i \in Ids |-> IF i \in legs THEN state ELSE leg[i]]

Goes(r, place) == pc' = [pc EXCEPT ![r] = place]

(* accounting.settle: the amount is fixed and every leg is settled or      *)
(* charged (finalizeAccounting).                                           *)
Finalize(r, legs, amount) ==
    /\ outcome' = [outcome EXCEPT ![r] = amount]
    /\ Call(IF mode[r] = "soft" THEN "charge" ELSE "settle", legs, "owing")
    /\ Goes(r, "finalizing")

-----------------------------------------------------------------------------
(* reserveBudget: all legs are called at once.  A soft request reserves    *)
(* nothing.                                                                *)
Plan(r) ==
    /\ pc[r] = "idle"
    /\ IF mode[r] = "soft"
       THEN Goes(r, "ready") /\ UNCHANGED <<leg, net>>
       ELSE Goes(r, "reserving") /\ Call("reserve", LegsOf(r), "calling")
    /\ UNCHANGED <<row, now, mode, outcome, sent, queue, dlq, faults, conflict>>

(* Promise.allSettled: when no leg is pending, one refusal or failure      *)
(* rolls the acknowledged legs back to zero.                               *)
ReserveDone(r) ==
    /\ pc[r] = "reserving" /\ ~Waiting(r)
    /\ IF Fulfilled(r) = LegsOf(r)
       THEN Goes(r, "reserved") /\ UNCHANGED <<leg, net, outcome>>
       ELSE Finalize(r, Fulfilled(r), 0)
    /\ UNCHANGED <<row, now, mode, sent, queue, dlq, faults, conflict>>

(* markBudgetDispatched: only the legs whose reserve did not already       *)
(* acknowledge the dispatch.                                               *)
MutMarkNothing(r) ==
    /\ pc[r] = "reserved"
    /\ Goes(r, "ready") /\ UNCHANGED <<leg, net>>
    /\ UNCHANGED <<row, now, mode, outcome, sent, queue, dlq, faults, conflict>>
Mark(r) ==
    /\ pc[r] = "reserved"
    /\ Call("dispatch", {i \in LegsOf(r) : leg[i] = "held"}, "calling")
    /\ Goes(r, "marking")
    /\ UNCHANGED <<row, now, mode, outcome, sent, queue, dlq, faults, conflict>>

(* A leg whose dispatch failed keeps its place in the reservation, so the  *)
(* failure settles every leg.                                              *)
MutMarkDoneAtBound(r) ==
    /\ pc[r] = "marking" /\ ~Waiting(r)
    /\ IF Fulfilled(r) = LegsOf(r)
       THEN Goes(r, "ready") /\ UNCHANGED <<leg, net, outcome>>
       ELSE Finalize(r, LegsOf(r), Cost)
    /\ UNCHANGED <<row, now, mode, sent, queue, dlq, faults, conflict>>
MarkDone(r) ==
    /\ pc[r] = "marking" /\ ~Waiting(r)
    /\ IF Fulfilled(r) = LegsOf(r)
       THEN Goes(r, "ready") /\ UNCHANGED <<leg, net, outcome>>
       ELSE Finalize(r, LegsOf(r), 0)
    /\ UNCHANGED <<row, now, mode, sent, queue, dlq, faults, conflict>>

(* Required retention failed, the account was not requalified, or the      *)
(* caller went away before the fetch: known unsent.                        *)
MutAbandonAtBound(r) ==
    /\ pc[r] \in {"reserved", "ready"}
    /\ Finalize(r, Fulfilled(r), Cost)
    /\ UNCHANGED <<row, now, mode, sent, queue, dlq, faults, conflict>>
Abandon(r) ==
    /\ pc[r] \in {"reserved", "ready"}
    /\ Finalize(r, Fulfilled(r), 0)
    /\ UNCHANGED <<row, now, mode, sent, queue, dlq, faults, conflict>>

Send(r) ==
    /\ pc[r] = "ready"
    /\ Goes(r, "sent")
    /\ sent' = [sent EXCEPT ![r] = TRUE]
    /\ UNCHANGED <<row, now, mode, leg, outcome, net, queue, dlq, faults, conflict>>

(* accounting.complete or accounting.fail: the measured cost, which may be *)
(* more than the bound, the bound when the outcome is unknown, or zero for *)
(* a received rejection.                                                   *)
Respond(r) ==
    /\ pc[r] = "sent"
    /\ \E amount \in 0..MaxMicros : Finalize(r, LegsOf(r), amount)
    /\ UNCHANGED <<row, now, mode, sent, queue, dlq, faults, conflict>>

(* The soft status read denied a request already sent: nothing is charged. *)
SoftDeny(r) ==
    /\ pc[r] = "sent" /\ mode[r] = "soft"
    /\ Finalize(r, {}, 0)
    /\ UNCHANGED <<row, now, mode, sent, queue, dlq, faults, conflict>>

-----------------------------------------------------------------------------
(* The ledger of a leg maintains its own rows before every handler.        *)
ObjectMaintained(l) ==
    [i \in Ids |-> IF i[2] = l THEN MaintainedRow(row[i], now) ELSE row[i]]

ReserveRequest(i) ==
    [id |-> i, window |-> WindowOf(i[2]), scope |-> NoScope, cost |-> Cost, limit |-> Limit,
     dispatched |-> mode[i[1]] = "fused"]

ChargeOf(i) ==
    [id |-> i, window |-> WindowOf(i[2]), scope |-> NoScope, amount |-> outcome[i[1]]]

(* What a heard reply tells the worker: reserveLedgerIntent,               *)
(* markBudgetDispatched, settleReservation, chargeBudget.                  *)
Learned(operation, i, table) ==
    CASE operation = "reserve" ->
            IF ~Allowed(table, ReserveRequest(i)) THEN "failed"
            ELSE IF AckedDispatched(table, now, ReserveRequest(i)) THEN "marked" ELSE "held"
      [] operation = "dispatch" -> IF Dispatchable(table, now, i) THEN "marked" ELSE "failed"
      [] operation = "settle" ->
            IF SettleAccepted(table, i, outcome[i[1]]) THEN "settled" ELSE "failing"
      [] operation = "charge" -> IF ChargeAccepted(table, ChargeOf(i)) THEN "settled" ELSE "failing"

Applied(operation, i, table) ==
    CASE operation = "reserve" -> Reserved(table, now, ReserveRequest(i))
      [] operation = "dispatch" -> Dispatched(table, now, i)
      [] operation = "settle" -> Settled(table, i, outcome[i[1]])
      [] operation = "charge" ->
            IF ChargeAccepted(table, ChargeOf(i)) THEN Charged(table, now, ChargeOf(i)) ELSE table

(* The worker awaits exactly this call.                                    *)
Awaits(operation, i) ==
    /\ pc[i[1]] # "dead"
    /\ CASE operation = "reserve" -> pc[i[1]] = "reserving" /\ leg[i] = "calling"
         [] operation = "dispatch" -> pc[i[1]] = "marking" /\ leg[i] = "calling"
         [] OTHER -> leg[i] = "owing"

(* A call reaches its ledger and its reply reaches the worker.             *)
Serve(m) ==
    LET table == ObjectMaintained(m[2][2]) IN
    /\ net' = net \ {m}
    /\ row' = Applied(m[1], m[2], table)
    /\ leg' = IF Awaits(m[1], m[2])
              THEN [leg EXCEPT ![m[2]] = Learned(m[1], m[2], table)] ELSE leg
    /\ conflict' = (conflict \/ Learned(m[1], m[2], table) = "failing")
    /\ UNCHANGED <<now, pc, mode, outcome, sent, queue, dlq, faults>>

(* The ledger commits and the reply is lost.                               *)
ServeUnheard(m) ==
    /\ Fault
    /\ net' = net \ {m}
    /\ row' = Applied(m[1], m[2], ObjectMaintained(m[2][2]))
    /\ UNCHANGED <<now, pc, mode, leg, outcome, sent, queue, dlq, conflict>>

(* The call never arrives.                                                 *)
Drop(m) ==
    /\ Fault
    /\ net' = net \ {m}
    /\ UNCHANGED <<row, now, pc, mode, leg, outcome, sent, queue, dlq, conflict>>

(* The call fails in the worker: at once while it is still on its way, or  *)
(* because it or its reply is gone.                                        *)
GivenUp(i) ==
    /\ leg' = [leg EXCEPT ![i] = IF leg[i] = "owing" THEN "failing" ELSE "failed"]
    /\ UNCHANGED <<row, now, pc, mode, outcome, sent, net, queue, dlq, conflict>>

TimeOut(m) == Awaits(m[1], m[2]) /\ Fault /\ GivenUp(m[2])

CallFails(i) ==
    /\ \E operation \in Operations : Awaits(operation, i)
    /\ \A operation \in Operations : <<operation, i>> \notin net
    /\ GivenUp(i) /\ UNCHANGED faults

-----------------------------------------------------------------------------
(* settleReservation and chargeBudget fall back to the queue.              *)
MutEnqueueForgotten(i) ==
    /\ leg[i] = "failing" /\ pc[i[1]] # "dead"
    /\ leg' = [leg EXCEPT ![i] = "queued"]
    /\ UNCHANGED <<row, now, pc, mode, outcome, sent, net, queue, dlq, faults, conflict>>
Enqueue(i) ==
    /\ leg[i] = "failing" /\ pc[i[1]] # "dead"
    /\ queue' = [queue EXCEPT ![i] = 0]
    /\ leg' = [leg EXCEPT ![i] = "queued"]
    /\ UNCHANGED <<row, now, pc, mode, outcome, sent, net, dlq, faults, conflict>>

(* A rejected send may still have been accepted.                           *)
EnqueueFails(i) ==
    /\ Fault
    /\ leg[i] = "failing" /\ pc[i[1]] # "dead"
    /\ queue' \in {queue, [queue EXCEPT ![i] = 0]}
    /\ leg' = [leg EXCEPT ![i] = "lost"]
    /\ UNCHANGED <<row, now, pc, mode, outcome, sent, net, dlq, conflict>>

(* queue(): the job is acknowledged when the ledger acknowledged it.       *)
JobOf(i) == IF mode[i[1]] = "soft" THEN "charge" ELSE "settle"

MutRetriedOnceMore(i) ==
    IF queue[i] > MaxRetries
    THEN queue' = [queue EXCEPT ![i] = -1] /\ dlq' = dlq \cup {i}
    ELSE queue' = [queue EXCEPT ![i] = @ + 1] /\ UNCHANGED dlq
Retried(i) ==
    IF queue[i] = MaxRetries
    THEN queue' = [queue EXCEPT ![i] = -1] /\ dlq' = dlq \cup {i}
    ELSE queue' = [queue EXCEPT ![i] = @ + 1] /\ UNCHANGED dlq

Consume(i) ==
    LET table == ObjectMaintained(i[2])
        accepted == Learned(JobOf(i), i, table) = "settled"
    IN
    /\ queue[i] >= 0
    /\ row' = Applied(JobOf(i), i, table)
    /\ IF accepted THEN queue' = [queue EXCEPT ![i] = -1] /\ UNCHANGED dlq ELSE Retried(i)
    /\ conflict' = (conflict \/ ~accepted)
    /\ UNCHANGED <<now, pc, mode, leg, outcome, sent, net, faults>>

(* The consumer's call or its reply is lost; or the acknowledgement of the *)
(* message is, and the queue delivers it again.                            *)
ConsumeFails(i) ==
    /\ Fault
    /\ queue[i] >= 0
    /\ row' \in {row, Applied(JobOf(i), i, ObjectMaintained(i[2]))}
    /\ Retried(i)
    /\ UNCHANGED <<now, pc, mode, leg, outcome, sent, net, conflict>>

-----------------------------------------------------------------------------
(* The isolate dies; its calls may still arrive.                           *)
Die(r) ==
    /\ Fault
    /\ pc[r] \notin {"idle", "dead"}
    /\ Goes(r, "dead")
    /\ UNCHANGED <<row, now, mode, leg, outcome, sent, net, queue, dlq, conflict>>

(* Other traffic or the alarm of the object of a leg.                      *)
Traffic(l) ==
    /\ row' = ObjectMaintained(l)
    /\ UNCHANGED <<now, pc, mode, leg, outcome, sent, net, queue, dlq, faults, conflict>>

Tick ==
    /\ now < MaxTime
    /\ now' = now + 1
    /\ UNCHANGED <<row, pc, mode, leg, outcome, sent, net, queue, dlq, faults, conflict>>

Worker(r) == Plan(r) \/ ReserveDone(r) \/ Mark(r) \/ MarkDone(r) \/ Send(r) \/ Respond(r)

Next ==
    \/ \E r \in Requests : Worker(r) \/ Abandon(r) \/ SoftDeny(r) \/ Die(r)
    \/ \E m \in net : Serve(m) \/ ServeUnheard(m) \/ Drop(m) \/ TimeOut(m)
    \/ \E i \in Ids : \/ CallFails(i) \/ Enqueue(i) \/ EnqueueFails(i)
                      \/ Consume(i) \/ ConsumeFails(i)
    \/ \E l \in Legs : Traffic(l)
    \/ Tick

Spec == Init /\ [][Next]_vars

(* A worker that has a request runs on, calls end, the queue delivers.     *)
Fairness ==
    /\ \A r \in Requests : WF_vars(pc[r] # "idle" /\ Worker(r))
    /\ \A i \in Ids : /\ WF_vars(\E m \in net : m[2] = i /\ Serve(m))
                      /\ WF_vars(CallFails(i)) /\ WF_vars(Enqueue(i)) /\ WF_vars(Consume(i))
FairSpec == Spec /\ Fairness

-----------------------------------------------------------------------------
(* markBudgetDispatched before fetch: once an upstream request of reserve  *)
(* mode has left, every leg holds a dispatched charge of the full bound    *)
(* until it is finalized; lease expiry, late calls, retries and the death  *)
(* of the worker do not release it.                                        *)
EgressCovered ==
    \A i \in Ids : sent[i[1]] /\ mode[i[1]] # "soft" =>
        /\ row[i] # NoRow
        /\ row[i].dispatched
        /\ row[i].settled # 1 => row[i].micros = Cost

(* reserve and markBudgetDispatched together: the upstream requests of     *)
(* reserve mode that have left, and are not settled below their bound, fit *)
(* in the limit of every leg together, however their reservations, lease   *)
(* expiries, lost replies and settlements interleave.                      *)
Exposed(l) ==
    {r \in Requests : /\ <<r, l>> \in Ids /\ sent[r] /\ mode[r] # "soft"
                      /\ ~(/\ row[<<r, l>>] # NoRow
                           /\ row[<<r, l>>].settled = 1
                           /\ row[<<r, l>>].micros < Cost)}
EgressWithinLimit == \A l \in Legs : Cardinality(Exposed(l)) * Cost <= Limit

(* finalizeAccounting: every final charge of a request, on every leg and   *)
(* by every path (direct, queue, retry, late delivery), is the amount the  *)
(* request was finalized with, and zero if it was never sent.              *)
FinalChargeAgrees ==
    \A i \in Ids : row[i] # NoRow /\ row[i].settled = 1 =>
        row[i].micros = (IF sent[i[1]] THEN outcome[i[1]] ELSE 0)

(* settle and charge: no path of the worker or of the queue ever makes a   *)
(* ledger refuse a settlement or a charge, so none is retried in vain.     *)
NeverConflicts == ~conflict

(* settleReservation and queue(): a request the worker finalized is        *)
(* settled on every leg, unless the queue refused the message or its       *)
(* retries ran out, or the worker died before it had queued the message.   *)
Owing(i) == leg[i] \in {"owing", "failing", "queued"}
SettlementArrives ==
    \A i \in Ids : Owing(i) ~>
        \/ row[i] # NoRow /\ row[i].settled = 1
        \/ i \in dlq \/ leg[i] = "lost"
        \/ pc[i[1]] = "dead" /\ leg[i] # "queued"

(* docs/agent-spend-control.md: "Pre-dispatch failures still release       *)
(* reservations to zero."  A request that the living worker refused        *)
(* before sending leaves no charge once its calls and settlements are      *)
(* through and its lease is over.                                          *)
Quiet(r) == /\ \A m \in net : m[2][1] # r
            /\ \A i \in LegsOf(r) : queue[i] = -1 /\ i \notin dlq
            /\ \A i \in LegsOf(r) : leg[i] \in {"failed", "settled"}
PreDispatchFailureIsFree ==
    \A r \in Requests : pc[r] = "finalizing" /\ ~sent[r] /\ Quiet(r) =>
        \A i \in LegsOf(r) : row[i] # NoRow => row[i].settled = 0 \/ row[i].micros = 0

(* Egress is paid for: the legs of every request that left hold its bound, *)
(* and all such bounds together fit, through every partial reservation,    *)
(* lost reply, late call, expiry, retry and death of accounting.ts.        *)
EgressAccounted == TypeOK /\ EgressCovered /\ EgressWithinLimit

(* However often and by whichever path a settlement is delivered, the      *)
(* ledgers end up with one amount and never refuse a delivery.             *)
SettlementsAgree == FinalChargeAgrees /\ NeverConflicts
=============================================================================
