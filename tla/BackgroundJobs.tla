--------------------------- MODULE BackgroundJobs ---------------------------
(***************************************************************************)
(* Background generations (worker/background-store.ts, the scoped owner of *)
(* worker/responses-scope.ts, worker/managed-predictions.ts and the        *)
(* background branch of worker/proxy.ts) over the budget ledgers.          *)
(*                                                                         *)
(* A request's worker only delivers.  A durable job in the owner of the    *)
(* caller's scope reserves the budgets, claims the one dispatch, freezes   *)
(* one receipt and has every sink acknowledge it.  Each transaction of the *)
(* owner's serial tail, with the alarm it schedules, is one step; between  *)
(* two of them calls are lost or late, alarms fire, workers stop and the   *)
(* owner restarts.  A delay shorter than a tick is no delay.               *)
(***************************************************************************)
EXTENDS BudgetTable

CONSTANTS
    Jobs,           \* admissions: bg_ ids, one per attempt of a client
    Managed,        \* the jobs of a managed protocol; the others are Responses
    Key,            \* idempotency key of a managed job
    NoKey,          \* an admission without one
    Legs,           \* the budgets a plan may hold a job to
    Cost,           \* the reserved bound, the fixed tariff of a managed job
    Limit,          \* the limit of every budget
    Admission,      \* the 60 seconds of an admission
    Observation,    \* backgroundObservationMs
    AutoRetry,      \* backgroundAutoRetryMs
    Replay,         \* backgroundReplayMs
    ActiveLimit,    \* backgroundActiveLimit
    Capacity,       \* backgroundCapacity
    Arrivals,       \* bound: the ticks at which the worker of a job asks
    MaxFaults,      \* bound: lost calls, lost replies and restarts in a run
    Never           \* no alarm is set

ASSUME JobsType ==
    /\ Ids \subseteq Jobs \X Legs /\ Kinds = Legs
    /\ Arrivals \in [Jobs -> SUBSET (0..MaxTime)]
    /\ Managed \subseteq Jobs /\ \A j \in Jobs \ Managed : Key[j] = NoKey
    /\ Cost \in 0..MaxMicros /\ Limit \in 0..MaxLimit
    /\ ActiveLimit \in Nat /\ Capacity \in Nat /\ MaxFaults \in Nat
    /\ Never \notin Nat

(* One minute, one hour, 7 days and 44 days; a reservation outlives the    *)
(* admission, and its receipt every replay.                                *)
ASSUME Deadlines ==
    /\ Admission \in Nat \ {0} /\ {Observation, AutoRetry, Replay} \subseteq Nat
    /\ Admission < Observation /\ Observation < AutoRetry /\ AutoRetry < Replay
    /\ Admission <= Lease /\ Replay + Admission <= Retention

VARIABLES
    row,      \* the rows of the budget ledgers
    now,      \* Date.now()
    job,      \* the owner's rows: responses_background
    leg,      \* the legs of each job
    binding,  \* the published identity of a job in http_continuations
    run,      \* how far the owner is in the call its worker made
    asked,    \* the ledger call that run awaits, or its answer
    process,  \* how far the owner is in recovering a claimed job
    receipt,  \* the settlement that process awaits, or its answer
    alarm,    \* the owner's alarm
    worker,   \* how far the worker of a job is
    sent,     \* the generation request has left
    net,      \* calls on their way to a ledger: <<operation, id>>
    faults    \* how many faults have happened

vars == <<row, now, job, leg, binding, run, asked, process, receipt, alarm,
          worker, sent, net, faults>>

Live == {"admitting", "observing", "outbox"}
Tombstones == {"complete", "expired"}
Job == [phase  : {"none", "evicted"} \cup Live \cup Tombstones,
        born   : 0..MaxTime + Admission,  \* admittedAt
        egress : BOOLEAN,
        claimed: BOOLEAN,             \* dispatchClaimed
        known  : BOOLEAN,             \* responseId is stored
        frozen : BOOLEAN,             \* event is stored
        amount : 0..MaxMicros,
        usage  : {"pending", "stored", "unavailable"},
        next   : 0..MaxTime + Admission + Replay]  \* nextAttemptAt
Dispositions == {"settled", "missing", "conflict", "unavailable"}
Leg == [reserve   : {"never", "sent", "accepted", "denied"},
        dispatched: BOOLEAN,
        settlement: {"pending"} \cup Dispositions]

TypeOK ==
    /\ row \in Table
    /\ now \in 0..MaxTime
    /\ job \in [Jobs -> Job]
    /\ leg \in [Ids -> Leg]
    /\ binding \in [Jobs -> {"none", "open", "closed"}]
    /\ run \in [Jobs -> {"none", "reserve", "dispatch", "dispatched"}]
    /\ asked \in [Ids -> {"nothing", "reserve", "dispatch", "yes", "no", "lost"}]
    /\ process \in [Jobs -> {"none", "collect", "replay", "settling", "closing"}]
    /\ receipt \in [Ids -> {"nothing", "settle"} \cup Dispositions]
    /\ alarm \in 0..(MaxTime + Admission + Replay) \cup {Never}
    /\ worker \in [Jobs -> {"idle", "admitting", "admitted", "dispatching", "ready",
                            "sent", "bound", "done"}]
    /\ sent \in [Jobs -> BOOLEAN]
    /\ net \subseteq {"reserve", "dispatch", "settle"} \X Ids
    /\ faults \in 0..MaxFaults

NoJob == [phase |-> "none", born |-> 0, egress |-> FALSE, claimed |-> FALSE, known |-> FALSE,
          frozen |-> FALSE, amount |-> 0, usage |-> "pending", next |-> 0]
NewLeg == [reserve |-> "never", dispatched |-> FALSE, settlement |-> "pending"]

Init ==
    /\ row = [i \in Ids |-> NoRow]
    /\ now = 0
    /\ job = [j \in Jobs |-> NoJob]
    /\ leg = [i \in Ids |-> NewLeg]
    /\ binding = [j \in Jobs |-> "none"]
    /\ run = [j \in Jobs |-> "none"]
    /\ asked = [i \in Ids |-> "nothing"]
    /\ process = [j \in Jobs |-> "none"]
    /\ receipt = [i \in Ids |-> "nothing"]
    /\ alarm = Never
    /\ worker = [j \in Jobs |-> "idle"]
    /\ sent = [j \in Jobs |-> FALSE]
    /\ net = {}
    /\ faults = 0

-----------------------------------------------------------------------------
LegsOf(j) == {i \in Ids : i[1] = j}
IsLive(j) == job[j].phase \in Live
Stored(j) == job[j].phase \in Live \cup Tombstones
Fault == faults < MaxFaults /\ faults' = faults + 1

ReplayUntil(r) == r.born + Replay
ObserveUntil(r) == r.born + Observation
AutoRetryUntil(r) == r.born + AutoRetry

(* admitting(): the guard of every step before egress.                     *)
Admitting(j) == job[j].phase = "admitting" /\ now < job[j].born + Admission

(* A deadline of now, or of now and some seconds, is due until it is met.  *)
AtOnce == 0
Soon(r) == IF now < AutoRetryUntil(r) THEN AtOnce ELSE AutoRetryUntil(r)

Earliest(times) == CHOOSE t \in times : \A u \in times : t <= u

(* save(): next_action_ms.                                                 *)
MutNextActionOpen(r) ==
    Earliest((IF r.frozen THEN {AutoRetryUntil(r) + Replay} ELSE {ObserveUntil(r)}) \cup
             (IF r.next >= AutoRetryUntil(r) THEN {} ELSE
              IF ~r.frozen /\ ~r.known /\ r.phase = "observing"
              THEN {ObserveUntil(r)} ELSE {r.next}))
NextAction(r) ==
    Earliest({ReplayUntil(r)} \cup
             (IF r.frozen THEN {} ELSE {ObserveUntil(r)}) \cup
             (IF r.next >= AutoRetryUntil(r) THEN {} ELSE
              IF ~r.frozen /\ ~r.known /\ r.phase = "observing"
              THEN {ObserveUntil(r)} ELSE {r.next}))

(* serial(): after a transaction the alarm is moved to the first deadline, *)
(* never to a later one, and deleted when there is none.                   *)
DueTimes(rows) == {NextAction(rows[j]) : j \in {k \in Jobs : rows[k].phase \in Live}}
Scheduled(rows, current) ==
    IF DueTimes(rows) = {} THEN Never
    ELSE LET first == Earliest(DueTimes(rows))
             next == IF first > now THEN first ELSE AtOnce
         IN  IF current = Never \/ current > next THEN next ELSE current

-----------------------------------------------------------------------------
(* freeze(): the first receipt of a job is its only one.                   *)
Receipt(r, amount) ==
    IF r.phase \notin Live \/ r.frozen THEN r
    ELSE [r EXCEPT !.phase = "outbox", !.frozen = TRUE, !.amount = amount,
                   !.known = FALSE, !.next = Soon(r)]

(* A leg that never asked, or was certainly denied, holds nothing.         *)
MutLegAtFreezeAll(l) == IF l.reserve # "accepted" THEN [l EXCEPT !.settlement = "settled"] ELSE l
LegAtFreeze(l) == IF l.reserve \in {"never", "denied"} THEN [l EXCEPT !.settlement = "settled"] ELSE l

(* A transaction of the owner: rows and legs as given, plus what freezing  *)
(* does to the legs and to the published identity, plus the alarm.         *)
Mutate(rows, legs, bindings, current) ==
    LET freezes(j) == rows[j].frozen /\ ~job[j].frozen IN
    /\ job' = rows
    /\ leg' = [i \in Ids |-> IF freezes(i[1]) THEN LegAtFreeze(legs[i]) ELSE legs[i]]
    /\ binding' = [j \in Jobs |-> IF freezes(j) /\ bindings[j] = "open" THEN "closed"
                                  ELSE bindings[j]]
    /\ alarm' = Scheduled(rows, current)

SaveJob(j, r) == Mutate([job EXCEPT ![j] = r], leg, binding, alarm)
SaveLeg(i, l) == Mutate(job, [leg EXCEPT ![i] = l], binding, alarm)
Freeze(j, amount) == SaveJob(j, Receipt(job[j], amount))
Unchanged == UNCHANGED <<job, leg, binding, alarm>>

Billed == Cost
Unbilled == 0

Runs(j, place) == run' = [run EXCEPT ![j] = place]
Works(j, place) == worker' = [worker EXCEPT ![j] = place]

-----------------------------------------------------------------------------
(* managedRetry(): a row of the same key guards it until replayUntil.      *)
Guards(k, j) ==
    Key[j] # NoKey /\ Key[k] = Key[j] /\ Stored(k) /\ now < ReplayUntil(job[k])

(* The tombstones that capacity pressure may delete.                       *)
MutEvictable == {k \in Jobs : job[k].phase \in Tombstones}
Evictable ==
    {k \in Jobs : /\ job[k].phase \in Tombstones
                  /\ k \notin Managed \/ ReplayUntil(job[k]) <= now}

(* A DELETE ... ORDER BY admitted_at_ms ... LIMIT 1, when the table is     *)
(* full.                                                                   *)
Evicted(rows) ==
    IF Cardinality({k \in Jobs : Stored(k)}) < Capacity THEN {rows}
    ELSE {[rows EXCEPT ![k].phase = "evicted"] :
             k \in {e \in Evictable : \A f \in Evictable : job[e].born <= job[f].born}}

(* The worker stamped its own clock before the call.                       *)
MutStampsAny == 0..(MaxTime + 2 * Admission)
Stamps == {t \in 0..now + Admission : now - t <= Admission}

(* admit, admitManaged: a repeated key is answered from its row, a full    *)
(* scope refuses.                                                          *)
Admit(j) ==
    /\ worker[j] = "idle" /\ now \in Arrivals[j]
    /\ IF (\E k \in Jobs : Guards(k, j))
          \/ Cardinality({k \in Jobs : job[k].phase \in {"admitting", "observing"}}) >= ActiveLimit
          \/ Evicted(job) = {}
       THEN Works(j, "done") /\ Unchanged /\ UNCHANGED run
       ELSE /\ \E born \in Stamps, rows \in Evicted(job) :
                  Mutate([rows EXCEPT ![j] = [NoJob EXCEPT !.phase = "admitting", !.born = born,
                                                           !.next = born + Admission]],
                         leg, binding, alarm)
            /\ Works(j, "admitting") /\ Runs(j, "reserve")
    /\ UNCHANGED <<row, now, asked, process, receipt, sent, net, faults>>

-----------------------------------------------------------------------------
(* reserve(): one leg after the other.  beginReserve is outside the try.   *)
Ask(operation, i) ==
    /\ net' = net \cup {<<operation, i>>}
    /\ asked' = [asked EXCEPT ![i] = operation]
Forget(i) == asked' = [asked EXCEPT ![i] = "nothing"]
NoneAsked(j) == \A i \in LegsOf(j) : asked[i] = "nothing"

BeginReserve(i) ==
    /\ run[i[1]] = "reserve" /\ NoneAsked(i[1]) /\ leg[i].reserve = "never"
    /\ IF Admitting(i[1])
       THEN SaveLeg(i, [leg[i] EXCEPT !.reserve = "sent"]) /\ Ask("reserve", i) /\ UNCHANGED run
       ELSE Runs(i[1], "none") /\ Unchanged /\ UNCHANGED <<asked, net>>
    /\ UNCHANGED <<row, now, process, receipt, worker, sent, faults>>

(* reserved(true) fails, and freezes, when the admission is over; a denial *)
(* is stored with the freeze in one transaction, or not at all.            *)
ReserveAnswered(i) ==
    /\ run[i[1]] = "reserve" /\ asked[i] \in {"yes", "no", "lost"}
    /\ Forget(i)
    /\ IF asked[i] = "yes" /\ Admitting(i[1])
       THEN SaveLeg(i, [leg[i] EXCEPT !.reserve = "accepted"]) /\ UNCHANGED run
       ELSE /\ Runs(i[1], "none")
            /\ IF asked[i] = "no"
               THEN IF Admitting(i[1])
                    THEN Mutate([job EXCEPT ![i[1]] = Receipt(@, Unbilled)],
                                [leg EXCEPT ![i].reserve = "denied"], binding, alarm)
                    ELSE Unchanged
               ELSE Freeze(i[1], Unbilled)
    /\ UNCHANGED <<row, now, process, receipt, worker, sent, net, faults>>

(* dispatch(): beginDispatch claims the only dispatch, before the try.     *)
BeginDispatch(j) ==
    /\ worker[j] = "admitted"
    /\ Works(j, "dispatching")
    /\ IF Admitting(j) /\ ~job[j].claimed
       THEN SaveJob(j, [job[j] EXCEPT !.claimed = TRUE]) /\ Runs(j, "dispatch")
       ELSE Runs(j, "none") /\ Unchanged
    /\ UNCHANGED <<row, now, asked, process, receipt, sent, net, faults>>

AskDispatch(i) ==
    /\ run[i[1]] = "dispatch" /\ NoneAsked(i[1]) /\ ~leg[i].dispatched
    /\ Ask("dispatch", i)
    /\ UNCHANGED <<row, now, job, leg, binding, run, process, receipt, alarm, worker, sent, faults>>

DispatchAnswered(i) ==
    /\ run[i[1]] = "dispatch" /\ asked[i] \in {"yes", "no", "lost"}
    /\ Forget(i)
    /\ IF asked[i] = "yes" /\ Admitting(i[1]) /\ leg[i].reserve = "accepted"
       THEN SaveLeg(i, [leg[i] EXCEPT !.dispatched = TRUE]) /\ UNCHANGED run
       ELSE Freeze(i[1], Unbilled) /\ Runs(i[1], "none")
    /\ UNCHANGED <<row, now, process, receipt, worker, sent, net, faults>>

(* beginEgress: uncertainty is committed before egress is granted.         *)
BeginEgress(j) ==
    /\ run[j] = "dispatch" /\ NoneAsked(j)
    /\ \A i \in LegsOf(j) : leg[i].dispatched
    /\ IF Admitting(j) /\ \A i \in LegsOf(j) : leg[i].reserve = "accepted"
       THEN /\ SaveJob(j, [job[j] EXCEPT !.egress = TRUE, !.phase = "observing", !.next = Soon(job[j])])
            /\ Runs(j, "dispatched")
       ELSE Freeze(j, Unbilled) /\ Runs(j, "none")
    /\ UNCHANGED <<row, now, asked, process, receipt, worker, sent, net, faults>>

-----------------------------------------------------------------------------
(* The worker of a job: managedPrediction and the background branch of the *)
(* proxy.  One that died, or that got no acknowledgement of an admission   *)
(* or of a managed submission and gave up in silence, takes no more steps. *)
HearAdmitted(j) ==
    /\ worker[j] = "admitting" /\ run[j] = "reserve" /\ NoneAsked(j)
    /\ \A i \in LegsOf(j) : leg[i].reserve # "never"
    /\ Works(j, "admitted") /\ Runs(j, "none")
    /\ UNCHANGED <<row, now, job, leg, binding, asked, process, receipt, alarm, sent, net, faults>>

HearDispatched(j) ==
    /\ worker[j] = "dispatching" /\ run[j] = "dispatched"
    /\ Works(j, "ready") /\ Runs(j, "none")
    /\ UNCHANGED <<row, now, job, leg, binding, asked, process, receipt, alarm, sent, net, faults>>

(* unsent(): nothing was attempted; or it was confirmed and the fetch not  *)
(* started; or the dispatch of a Responses job was not acknowledged.       *)
KnownUnsent(j) ==
    \/ worker[j] \in {"admitted", "ready"}
    \/ (worker[j] = "dispatching" /\ j \notin Managed)

Unsent(j) ==
    /\ KnownUnsent(j)
    /\ Freeze(j, Unbilled)
    /\ Works(j, "done")
    /\ UNCHANGED <<row, now, run, asked, process, receipt, sent, net, faults>>

Send(j) ==
    /\ worker[j] = "ready"
    /\ Works(j, "sent")
    /\ sent' = [sent EXCEPT ![j] = TRUE]
    /\ UNCHANGED <<row, now, job, leg, binding, run, asked, process, receipt, alarm, net, faults>>

(* finishRejectedDelivery: a received rejection of a Responses job is free *)
(* unless billable work was delivered with it.                             *)
Rejected(j) ==
    /\ worker[j] = "sent"
    /\ \E amount \in 0..MaxMicros : Freeze(j, amount)
    /\ Works(j, "done")
    /\ UNCHANGED <<row, now, run, asked, process, receipt, sent, net, faults>>

(* identity(): stored only while the job may still be observed.            *)
Observable(j) == IsLive(j) /\ ~job[j].frozen /\ now < ObserveUntil(job[j])
Identified(j) == IF Observable(j) THEN [job[j] EXCEPT !.known = TRUE] ELSE job[j]

(* bindManaged and continuation(): the identity is registered with the     *)
(* job's in one transaction; a closed job publishes it closed, a retired   *)
(* one publishes nothing new.                                              *)
MutBindOpen(j) ==
    /\ worker[j] = "sent"
    /\ Mutate([job EXCEPT ![j] = Identified(j)], leg, [binding EXCEPT ![j] = "open"], alarm)
    /\ Works(j, "bound")
    /\ UNCHANGED <<row, now, run, asked, process, receipt, sent, net, faults>>
Bind(j) ==
    /\ worker[j] = "sent"
    /\ IF j \in Managed
       THEN IF Observable(j) /\ job[j].phase = "observing"
            THEN /\ Mutate([job EXCEPT ![j] = Identified(j)], leg, [binding EXCEPT ![j] = "open"], alarm)
                 /\ Works(j, "bound")
            ELSE Unchanged /\ Works(j, "done")
       ELSE IF IsLive(j)
            THEN /\ Mutate([job EXCEPT ![j] = Identified(j)], leg,
                           [binding EXCEPT ![j] = IF job[j].frozen THEN "closed" ELSE "open"], alarm)
                 /\ Works(j, "bound")
            ELSE Unchanged /\ Works(j, "done")
    /\ UNCHANGED <<row, now, run, asked, process, receipt, sent, net, faults>>

(* observeManaged and observe with terminal evidence.  A managed job has   *)
(* its fixed tariff, a Responses job the measured cost.                    *)
Observed(j) ==
    IF Observable(j)
    THEN \E amount \in (IF j \in Managed THEN {Billed} ELSE 0..MaxMicros) : Freeze(j, amount)
    ELSE Unchanged

Observe(j) ==
    /\ worker[j] = "bound"
    /\ Observed(j)
    /\ Works(j, "done")
    /\ UNCHANGED <<row, now, run, asked, process, receipt, sent, net, faults>>

-----------------------------------------------------------------------------
(* claim(): an expired replay closes the job, a lost admission and an      *)
(* expired observation freeze it, work is given out until autoRetryUntil.  *)
MutClaimRefunds(r) ==
    LET lost == r.phase = "admitting" \/ (~r.frozen /\ now >= ObserveUntil(r))
        s == IF lost THEN Receipt(r, Unbilled) ELSE r
    IN  IF now >= ReplayUntil(r) THEN [r EXCEPT !.phase = "expired"]
        ELSE [s EXCEPT !.next = Soon(r)]
Claim(r) ==
    LET lost == r.phase = "admitting" \/ (~r.frozen /\ now >= ObserveUntil(r))
        s == IF lost THEN Receipt(r, IF r.egress THEN Billed ELSE Unbilled) ELSE r
    IN  IF now >= ReplayUntil(r) THEN [r EXCEPT !.phase = "expired"]
        ELSE [s EXCEPT !.next = Soon(r)]

(* A claimed job is worked on by a new attempt; the results of an older    *)
(* one are fenced off.                                                     *)
Claims(due, manual) ==
    LET work == {j \in due : now < ReplayUntil(job[j])
                             /\ (manual \/ now < AutoRetryUntil(job[j]))}
    IN  /\ Mutate([j \in Jobs |-> IF j \in due THEN Claim(job[j]) ELSE job[j]],
                  leg, binding, IF manual THEN alarm ELSE Never)
        /\ process' = [j \in Jobs |-> IF j \notin work THEN process[j]
                                      ELSE IF manual THEN "replay" ELSE "collect"]

Alarm ==
    /\ alarm # Never /\ alarm <= now
    /\ Claims({j \in Jobs : IsLive(j) /\ NextAction(job[j]) <= now}, FALSE)
    /\ UNCHANGED <<row, now, run, asked, receipt, worker, sent, net, faults>>

(* replay: an administrator, for a frozen receipt only.  Before            *)
(* autoRetryUntil it does what the alarm does.                             *)
ManualReplay(j) ==
    /\ IsLive(j) /\ job[j].frozen /\ now >= AutoRetryUntil(job[j])
    /\ Claims({j}, TRUE)
    /\ UNCHANGED <<row, now, run, asked, receipt, worker, sent, net, faults>>

(* process(): collect the outcome of a job without a receipt.              *)
Collect(j) ==
    /\ process[j] = "collect" /\ job[j].known /\ Observable(j)
    /\ Observed(j)
    /\ UNCHANGED <<row, now, run, asked, process, receipt, worker, sent, net, faults>>

(* retry(): nothing was learned; the next attempt is due.                  *)
CollectFails(j) ==
    /\ process[j] = "collect" /\ ~job[j].frozen
    /\ IF IsLive(j) THEN SaveJob(j, [job[j] EXCEPT !.next = Soon(job[j])]) ELSE Unchanged
    /\ process' = [process EXCEPT ![j] = "none"]
    /\ UNCHANGED <<row, now, run, asked, receipt, worker, sent, net, faults>>

(* settleOperation: every open leg is settled at once, by an automatic     *)
(* attempt until autoRetryUntil and by a manual one until replayUntil.     *)
Settle(j) ==
    LET open == {i \in LegsOf(j) : leg[i].settlement # "settled"}
        until == IF process[j] = "replay" THEN ReplayUntil(job[j]) ELSE AutoRetryUntil(job[j])
        call == IF now < until THEN open ELSE {}
    IN
    /\ process[j] \in {"collect", "replay"} /\ job[j].frozen
    /\ IF IsLive(j) /\ now < ReplayUntil(job[j])
       THEN /\ process' = [process EXCEPT ![j] = "settling"]
            /\ net' = net \cup {<<"settle", i>> : i \in call}
            /\ receipt' = [i \in Ids |-> IF i \in call THEN "settle"
                                         ELSE IF i \in open THEN "unavailable" ELSE receipt[i]]
       ELSE process' = [process EXCEPT ![j] = "none"] /\ UNCHANGED <<net, receipt>>
    /\ UNCHANGED <<row, now, job, leg, binding, run, asked, alarm, worker, sent, faults>>

(* acknowledge(): complete once every sink acknowledged the receipt.       *)
Acknowledged(j, r, legs) ==
    IF r.usage = "stored" /\ \A i \in LegsOf(j) : legs[i].settlement = "settled"
    THEN [r EXCEPT !.phase = "complete"] ELSE r

MayAcknowledge(j) == IsLive(j) /\ job[j].frozen /\ now < ReplayUntil(job[j])

AcknowledgeLeg(i) ==
    LET j == i[1]
        legs == [leg EXCEPT ![i].settlement = receipt[i]]
    IN
    /\ receipt[i] \in Dispositions
    /\ receipt' = [receipt EXCEPT ![i] = "nothing"]
    /\ IF MayAcknowledge(j) /\ leg[i].settlement # "settled"
       THEN Mutate([job EXCEPT ![j] = Acknowledged(j, @, legs)], legs, binding, alarm)
       ELSE Unchanged
    /\ UNCHANGED <<row, now, run, asked, process, worker, sent, net, faults>>

(* ingestUsage is idempotent in the event id; its reply may be lost.       *)
AcknowledgeUsage(j, disposition) ==
    LET r == [job[j] EXCEPT !.usage = disposition] IN
    /\ process[j] = "settling"
    /\ process' = [process EXCEPT ![j] = "closing"]
    /\ IF MayAcknowledge(j) /\ job[j].usage # "stored"
       THEN SaveJob(j, Acknowledged(j, r, leg)) ELSE Unchanged
    /\ UNCHANGED <<row, now, run, asked, receipt, worker, sent, net>>

ProcessDone(j) ==
    /\ process[j] = "closing" /\ \A i \in LegsOf(j) : receipt[i] = "nothing"
    /\ IF IsLive(j) THEN SaveJob(j, [job[j] EXCEPT !.next = Soon(job[j])]) ELSE Unchanged
    /\ process' = [process EXCEPT ![j] = "none"]
    /\ UNCHANGED <<row, now, run, asked, receipt, worker, sent, net, faults>>

-----------------------------------------------------------------------------
(* The ledgers.                                                            *)
ObjectMaintained(l) ==
    [i \in Ids |-> IF i[2] = l THEN MaintainedRow(row[i], now) ELSE row[i]]

(* planBudgetReservation at admittedAt; the calendar ends at MaxTime.      *)
Planned(i) == WindowAt(i[2], Earliest({job[i[1]].born, MaxTime}))
ReserveRequest(i) ==
    [id |-> i, window |-> Planned(i), scope |-> NoScope, cost |-> Cost, limit |-> Limit,
     dispatched |-> FALSE]

Applied(m, table) ==
    CASE m[1] = "reserve" -> Reserved(table, now, ReserveRequest(m[2]))
      [] m[1] = "dispatch" -> Dispatched(table, now, m[2])
      [] m[1] = "settle" -> Settled(table, m[2], job[m[2][1]].amount)

Answer(m, table) ==
    CASE m[1] = "reserve" -> IF Allowed(table, ReserveRequest(m[2])) THEN "yes" ELSE "no"
      [] m[1] = "dispatch" -> IF Dispatchable(table, now, m[2]) THEN "yes" ELSE "no"
      [] m[1] = "settle" ->
            IF SettleAccepted(table, m[2], job[m[2][1]].amount) THEN "settled"
            ELSE IF Known(table, m[2]) THEN "conflict" ELSE "missing"

(* What the owner awaits of a call.                                        *)
Reply(m, answer) ==
    /\ asked' = IF asked[m[2]] = m[1] THEN [asked EXCEPT ![m[2]] = answer] ELSE asked
    /\ receipt' = IF m[1] = "settle" /\ receipt[m[2]] = "settle"
                  THEN [receipt EXCEPT ![m[2]] = answer] ELSE receipt

Serve(m) ==
    LET table == ObjectMaintained(m[2][2]) IN
    /\ row' = Applied(m, table)
    /\ net' = net \ {m}
    /\ Reply(m, Answer(m, table))
    /\ UNCHANGED <<now, job, leg, binding, run, process, alarm, worker, sent, faults>>

(* The call is lost, or it commits and its reply is.                       *)
Lose(m) ==
    /\ Fault
    /\ row' \in {row, Applied(m, ObjectMaintained(m[2][2]))}
    /\ net' = net \ {m}
    /\ Reply(m, IF m[1] = "settle" THEN "unavailable" ELSE "lost")
    /\ UNCHANGED <<now, job, leg, binding, run, process, alarm, worker, sent>>

(* bounded(): the owner gives up on a call that is still on its way.       *)
TimeOut(m) ==
    /\ Fault
    /\ asked[m[2]] = m[1] \/ (m[1] = "settle" /\ receipt[m[2]] = "settle")
    /\ Reply(m, IF m[1] = "settle" THEN "unavailable" ELSE "lost")
    /\ UNCHANGED <<row, now, job, leg, binding, run, process, alarm, worker, sent, net>>

(* The owner restarts: what it awaited is gone, its rows and alarm stay.   *)
Restart ==
    /\ Fault
    /\ run' = [j \in Jobs |-> "none"]
    /\ asked' = [i \in Ids |-> "nothing"]
    /\ process' = [j \in Jobs |-> "none"]
    /\ receipt' = [i \in Ids |-> "nothing"]
    /\ UNCHANGED <<row, now, job, leg, binding, alarm, worker, sent, net>>

Tick ==
    /\ now < MaxTime
    /\ now' = now + 1
    /\ UNCHANGED <<row, job, leg, binding, run, asked, process, receipt, alarm, worker, sent, net, faults>>

WorkerStep(j) ==
    \/ Admit(j) \/ HearAdmitted(j) \/ BeginDispatch(j) \/ HearDispatched(j)
    \/ Unsent(j) \/ Send(j) \/ Bind(j) \/ Observe(j)

OwnerStep(j) ==
    \/ BeginEgress(j) \/ ManualReplay(j)
    \/ Collect(j) \/ CollectFails(j) \/ Settle(j) \/ ProcessDone(j)
    \/ AcknowledgeUsage(j, "stored") /\ UNCHANGED faults
    \/ AcknowledgeUsage(j, "unavailable") /\ Fault

LegStep(i) ==
    BeginReserve(i) \/ ReserveAnswered(i) \/ AskDispatch(i) \/ DispatchAnswered(i) \/ AcknowledgeLeg(i)

Next ==
    \/ \E j \in Jobs : WorkerStep(j) \/ OwnerStep(j)
    \/ \E j \in Jobs \ Managed : Rejected(j)
    \/ \E i \in Ids : LegStep(i)
    \/ \E m \in net : Serve(m) \/ Lose(m) \/ TimeOut(m)
    \/ Alarm \/ Restart \/ Tick

Spec == Init /\ [][Next]_vars

(* The platform delivers an alarm that is due, and time passes.  Nothing   *)
(* else is assumed to answer.                                              *)
FairSpec == Spec /\ WF_vars(Alarm) /\ WF_vars(Tick)

-----------------------------------------------------------------------------
(* admitManaged, capacity and the dispatch claim: however often a client   *)
(* repeats an idempotency key, one generation leaves per replay window of  *)
(* 44 days, give or take the clocks of two workers.                        *)
OneGeneration ==
    \A j, k \in Jobs : j # k /\ Key[j] # NoKey /\ Key[j] = Key[k] /\ sent[j] /\ sent[k] =>
        \/ job[j].born + Replay <= job[k].born + Admission
        \/ job[k].born + Replay <= job[j].born + Admission

(* managedPrediction and claim: a managed generation that left is never    *)
(* frozen as unsent or refunded, and no ledger releases it: not by a lost  *)
(* acknowledgement, a late call, the lease, a restart or a lost worker.    *)
SentIsCharged ==
    \A j \in Managed : sent[j] =>
        /\ job[j].frozen => job[j].amount = Billed
        /\ \A i \in LegsOf(j) : row[i] # NoRow => row[i].dispatched /\ row[i].micros = Cost

(* acknowledge and freeze: a complete job leaves no open or different      *)
(* charge in any ledger, although calls it gave up on may arrive later.    *)
CompleteIsSettled ==
    \A i \in Ids : job[i[1]].phase = "complete" /\ row[i] # NoRow =>
        row[i].settled = 1 /\ row[i].micros = job[i[1]].amount

(* backgroundReplayMs against the retention of the ledgers: as long as a   *)
(* receipt may be replayed its reservation is there to be settled, and no  *)
(* ledger has settled it differently.                                      *)
ReplayFindsReservation ==
    \A i \in Ids : MayAcknowledge(i[1]) /\ leg[i].reserve = "accepted" =>
        row[i] # NoRow /\ leg[i].settlement # "conflict"

(* freeze and register: an identity is open only while its job can still   *)
(* be collected; a publication that loses to the receipt is closed.        *)
FrozenIsClosed == \A j \in Jobs : job[j].frozen => binding[j] # "open"

(* save and serial: a live job reaches a tombstone although no ledger, no  *)
(* provider and no worker ever answers, so no slot is held for ever.       *)
JobsEnd ==
    \A j \in Jobs : (IsLive(j) /\ ReplayUntil(job[j]) <= MaxTime) ~> ~IsLive(j)

(* A generation is paid for from its dispatch to its tombstone: what was   *)
(* sent stays charged, a receipt finds its reservation for as long as it   *)
(* may be replayed, and a complete job leaves every ledger settled.        *)
JobsCharged == TypeOK /\ SentIsCharged /\ CompleteIsSettled /\ ReplayFindsReservation
=============================================================================
