# ClawRouter in TLA+

ClawRouter is a multi-tenant gateway for AI providers on Cloudflare Workers. A
stateless Worker authenticates a request, chooses a provider account, holds the
request to the budgets of its policy, forwards it, meters the answer and settles
the charge. Everything that must survive a Worker lives in Durable Objects with
SQLite tables, in a KV namespace and in a queue. This directory models the parts
of `worker/` in which state outlives a call and two actors can disagree, checks
them with TLC on small instances, and proves with TLAPS, for every instance, what
all but one of them promise: the budget ledger and the requests settled on it, the
usage ledger, the credential owners and their index, the observed quota of a grant,
background generations and response identities, the admission cache, realtime
sessions, proxy keys, budget overrides, soft budgets and submission tickets.

## 1. Inventory

### Components, their state and their operations

| Component | State | Operations | Module |
| --- | --- | --- | --- |
| Budget ledger (`ledgers.ts`) | `budget_reservations`, `budget_windows`, one alarm per object | status, reserve, dispatch, settle, charge, `maintain`, `scheduleAlarm`, alarm | `BudgetTable`, `BudgetLedger` |
| Request accounting (`accounting.ts`, `proxy.ts`) and the usage queue | the legs of a request in memory, queue messages, dead letters | plan and reserve legs, mark dispatched, send, finalize, enqueue, consume | `Accounting` |
| Soft budget (`soft-budget.ts`) | exhaustion remembered per isolate, turns in flight | preflight, status read, abort, deliver | `SoftBudget` |
| Usage ledger (`ledgers.ts`, `usage-rollups.ts`, `usage-report-store.ts`) | `usage_events`, daily rollups, reporting projection, three migration cursors, an alarm | ingest, snapshot, grant usage, backfills, migration, retention, alarm | `UsageLedger` |
| Credential owners (`grant-credentials.ts`) and attachment index (`authority.ts`) | one credential record per grant with generation, dirty flag and admission receipt; pool versions and members; the KV projection | put, install, use, refresh, inspect, reconcile, revoke, import, publish; admit, cancel, restore | `GrantIndex`, `GrantAttachments` |
| Grant runtime (`grant-runtime.ts`, `admission-cache.ts`, `grant-credentials.ts`) | quota readings and cooldown per grant, pending observations per isolate | observe, coalesce, flush, merge, poll, keep warm | `GrantRuntime` |
| Refresh token ownership (`refresh-ownership.ts`, `performRefresh`) | reservations by token digest, attempt marker and `used` flag in the record | claim, discovery, fence, exchange, settle, put, import, revoke | `RefreshOwnership` |
| Device flows (`minimax-device-flow.ts`, `copilot-device-flow.ts`, `copilot-account-flow.ts`) | one attempt per record with phase and deadlines, one exchange in flight | begin, poll, cancel, status, settle, qualify and bind the account | `DeviceFlow` |
| Vertex refresh (`vertex-owner-refresh.ts`) | a fence and a diagnosis in the record, the active exchange in memory | fence, exchange outside the tail, settle, cancel, diagnose | `VertexRefresh` |
| Background generations (`background-store.ts`, `responses-scope.ts`, `managed-predictions.ts`, `http-background.ts`) | `responses_background` rows, one alarm per scope | admit, reserve, dispatch, egress, bind, observe, alarm, replay, collect, settle, acknowledge | `BackgroundJobs` |
| Continuations (`continuation-store.ts`, `responses-scope.ts`, `http-continuation.ts`) | identity rows with owner, producer and tool knowledge | register, resolve, qualify, expire | `Continuations` |
| Responses and realtime sockets (`responses-websocket-session.ts`, `realtime-session.ts`) | a session object: lanes, creates, buffers; units of paid media | create, admit, send, attribute, interrupt, time out, settle, close | `ResponsesSession`, `RealtimeSession` |
| Admission and hot caches (`hot-cache.ts`, `admission-cache.ts`, `colo-cache.ts`) | entries, publication rights, leaders, pending feedback, background work | load, join, publish, revalidate, invalidate, observe, flush | `AdmissionCache` |
| Authority: keys, users, policies (`authority.ts`, `credentials.ts`, `authority-admission.ts`) | SQLite rows and the markers of an import from KV | create, rotate, rename, revoke, prune, import, admit, select | `CredentialAuthority` |
| Authority: budget overrides (`authority-budgets.ts`) | the override of a user and its tag | view, save, profile write, reconciliation | `BudgetCaps` |
| Pool submissions (`pool-submissions.ts`) | one ticket with claim and receipt | claim, store, complete, release, expire, purge | `Submissions` |
| Fusion, MiniMax operation owners, body budget of HTTP, content retention, assignments, reports | see section 6 | | not modelled |
| Pricing, provider adapters and codecs, discovery, Worker entry, admin console, scripts | none of their own, or user interface | | not modelled |

`PROJECT.json` lists every component with its sources and status.

### How they interact

A Worker admits a request from its isolate's cache or from the authority, which
looks up the key, its policy and owner and selects a grant; what the response
tells about that grant flows back to the authority. The Worker calls the ledger
objects of a request (one per budget: policy, daily, weekly, provider) by RPC, in
parallel. What it could not settle goes to the queue, whose consumer calls the
same ledgers. Usage events take the same queue to the usage ledger. The grant's
own object hands out tokens; it admits, stores and then publishes to the index and
to KV, asks the ownership index before it spends a refresh token, and runs the
device and service-account exchanges outside its tail. A socket keeps all of this
in one session object; a background generation moves it into the object of the
caller's scope, which reserves, dispatches and settles by itself and also keeps
the identities that later requests continue.

### What is hard, and what makes it correct

* Every remote call can be lost, can commit and lose its reply, and can arrive
  after its caller gave up. Ids make calls idempotent, so the question is always
  what a repeat or a late call meets.
* A Durable Object runs one event at a time but gives up its turn at an await.
  The credential owner and the scope owner therefore keep a promise tail; the
  ownership index reads other owners past their tails, and exchanges with
  providers run beside them.
* Isolates die, objects restart, alarms are one per object and fire late.
* A cache answers with what was true when it was loaded; a load may return after
  the change that outdated it, an import after the mutation it did not see.
* Windows, leases, retention, replay and observation have different lengths, set
  in different files.
* Rows are migrated, counted and deleted at once, and SQLite reuses rowids.
* A socket can be closed by either side, by a timer or by a failure while any of
  its creates is being admitted, sent, bound or settled.

The `hazards` of `PROJECT.json` name each of these at its line, with the
properties that would fail.

## 2. Modules

`EXTENDS` is shown by indentation; modules in brackets are extended as well.

    BudgetTable              the reservation table and the effect of each handler
      BudgetTableProofs      lemmas about rows and sums
      BudgetLedger           one object under arbitrary callers, its alarm and restarts
        BudgetLedgerProofs   [BudgetTableProofs] theorems
        MCBudgetLedger
      Accounting             requests with several legs, calls in flight, queue
        AccountingProofs     [BudgetTableProofs] theorems
        MCAccounting
      BackgroundJobs         durable generations over the same table
        ScopeProofs          [Continuations, BudgetTableProofs] theorems
        MCBackgroundJobs
          MCScope            [Continuations]
    BudgetReceipt            the abstract life of a reservation; BudgetLedger implements it
    Continuations            response and turn identities of a scope
    UsageLedger              events, rollups, projection and three migrations
      UsageLedgerProofs      [ResponsesSession] theorems
      MCUsageLedger
    GrantIndex               entries of the attachment index and its transactions
      GrantAttachments       credential owners that publish to it
        GrantProofs          [GrantRuntime] theorems
        MCGrantAttachments
          MCGrants           [GrantRuntime]
        MCOwners             [RefreshOwnership, DeviceFlow, VertexRefresh]
    GrantRuntime             observed quota and cooldown of a grant
    RefreshOwnership         token reservations and the fenced exchange
    DeviceFlow               device authorization on a credential owner
    VertexRefresh            the service-account exchange on a credential owner
      OwnerProofs            [all three] theorems
    ResponsesSession         a Responses socket (theorems in UsageLedgerProofs)
    RealtimeSession          a realtime socket
      MCSessions             [both]
    AdmissionCache, CredentialAuthority, BudgetCaps, SoftBudget, Submissions
      ControlProofs          [all five, RealtimeSession] theorems
      MCControl              [all five]
      MCSubmissions          [Submissions]

**BudgetTable** writes each handler of `BudgetLedgerObject` as a predicate (what
it accepts) and a function from table to table, so that the same definitions serve
an object under arbitrary callers (BudgetLedger), the protocol of the Worker
(Accounting) and that of the scope owner (BackgroundJobs). A row is
`window, scope, micros, created, settled, dispatched` as in the SQL schema, with
`settled` 0 (held), 1 (final), 2 (expired after dispatch). A sum of money is the
cardinality of a set of single micros: no recursion, and sums can be proved about.
The calendar is a constant function from ticks to window numbers, as months and
weeks have no common length.

**BudgetLedger** adds the clock, the alarm and a restart between the insert and
the `setAlarm` it asked for. `fetch` runs `maintain()` when a request arrives and
awaits its body before the handler, so `Arrive` (which is all of `/status`) and the
handlers are separate steps: other requests and the clock move in between, and only
the handler's own lease check keeps a late dispatch out (`BudgetReceipt!Commit`). The
cover routes read their body first and then do both at once, which is an `Arrive`
followed by the handler. Its history variables `bound` and `told` record what
`/reserve` admitted and what `/settle` or `/charge` acknowledged.

**Accounting** keeps one process per request (`pc`), one knowledge state per leg,
the set `net` of calls in flight and the queue. `fused` legs are reserved as
dispatched, `split` legs are marked before egress, `soft` requests are charged
afterwards. A call leaves `net` by being served, by failing or by arriving late.

**SoftBudget** is the other side of `soft` requests: the status of a leg is read
while the provider works, an exhaustion is remembered under an id that names the
limit, and a denial races headers, the grace period, delivery and the cleanup of a
failed fetch. Shared WebSocket lanes cannot be aborted. `EffectiveSpent` is what
`/status` answers: final charges (`softCharged`) and the unsettled reservations of
whoever reserves on the same leg (`softHeld`), a `reserve` policy of the same
provider, a background or a Fusion request. Such a hold settles at less, is
released or expires (`HoldEnds`), so the total falls, and a turn may be refused over
a limit that the ledger has come below again; that is how the code behaves, and what
`docs/agent-spend-control.md` says (outstanding reservations count as spent). The
property is therefore about the observation a refusal rests on. Its history
variables say who last heard of a leg (`lastHeard`) and which legs were full while a
turn asked (`softFull`).

**UsageLedger** holds the database as one record; each SQL transaction is an
operator on it, each handler an action. `Init` covers what an earlier release may
have left, `OldIngest` is an older release writing again after a rollback.

**GrantIndex / GrantAttachments**: an entry of the index carries generation,
revision, member rows by provider and the status it shows. The owner's handlers
run step by step (`task`), any step can fail, and a call given up on stays in
`late`.

**GrantRuntime**: a state is a revision, a time, a cooldown, one reading per
window and the last usage snapshot. `Merge` is `mergeGrantRuntimeState`, used by
isolates for what is pending and by the authority for what arrives. The states as
they were observed (`sightings`) and those the authority got (`heard`) are kept as
reference: an isolate must go by what they say, whatever the order. Publishing a
grant that is not active deletes its row (`RetireRuntime`); as a publication may be
late, that can happen to a grant in use, and what the row had heard is then lost like
an observation that never arrived. `Casts` selects which observers are in a behaviour.

**RefreshOwnership** separates the durable record, the registry, the handler at
the head of each tail and the index object's scan, and keeps the provider's view
(`valid`, `spent`, `doubt`, `sentBy`) as the reference.

**DeviceFlow** has the durable attempt, the exchange in flight of the device flow
and that of the account flow, and handlers that run outside the tail between a
saved `unknown` phase and their settlement. `withdrawn`, `sent` and `pendings`
record what an administrator gave up, what was sent and what the provider
answered with "pending".

**VertexRefresh** has the same shape with a fence, a diagnosis for a fence nobody
serves, and put and revoke as cancellations.

**BackgroundJobs**: `job` is the row of `responses_background` with the fields the
control depends on; `run` and `process` are where the owner is in a worker's call
and in a recovery, `asked` and `receipt` the ledger calls those await. Every
transaction of the owner is one step together with the alarm `serial` schedules
after it. Delays of seconds are due at once (`AtOnce`); 60 seconds, one hour, 7
days and 44 days are ticks. A manual replay before `autoRetryUntil` does what the
alarm does and is not repeated as an action.

**Continuations** models the same owner for identities: a producer resolves what
it continues, registers what upstream names before the client sees it, and
qualifies the tools it retains. Calls are lost, late or unanswered, expiry runs
in batches, and the owner may stop between a commit and its `setAlarm`. Tool
knowledge keeps its order (doubt wins), as children are billed by it.

**ResponsesSession** has one record for the session and one per create
(`Operation`); an action is what runs between two awaits. Admission, accounting,
the continuation store and upstream are external and answer in any order.
**RealtimeSession** serialises events on a tail and counts audio in chunks; a unit
is the receipt under which a response or a stretch of transcribed input is paid.

**AdmissionCache** models one cache key in several isolates of a colo with the
publication rights of `HotCache`; the background load of request `r` is task `-r`.
**CredentialAuthority** models proxy keys with the import of legacy KV records,
which happens row by row and table by table while keys are edited; its actions
end where the object awaits. **BudgetCaps** has the override of one user, its tag
and the other writers of the record. **Submissions** has one ticket, the route
and the owner's store.

## 3. Runs

| Run | Instance | What it shows |
| --- | --- | --- |
| `ledger` | 2 ids, windows of two ticks, debt in the first, limit 2, lease 1, retention 3, 6 ticks | the cap, pricing by receipts only, windows kept, holds expire, refinement of BudgetReceipt, with time between arrival and handler |
| `accounting` | one request of two legs in all modes with 3 faults and 1 retry; or two that compete for a leg that covers one, with 1 fault | egress is covered on every leg and within the limit, settlements agree, owed settlements arrive |
| `accounting_refused` | 1 fused request, 2 legs, 2 faults | violation, see findings |
| `usage` | 2 events of one principal in two spellings, retention 1, takeover at tick 2, 3 rowids | rollups and ownership are exact, the projection is answered from only when it equals the events, migrations finish |
| `grants` | index: 1 key, 2 providers, 3 generations, 1 failure; runtime: 3 observations by a coalescing isolate, a direct one, polls and keep-warm, up to 3 ticks and 2 revisions | the index agrees with its owner and stale selection ends; feedback merges into what was observed |
| `owners` | attachments: 2 keys, 1 seat; ownership: 2 grants older than the index, 2 tokens; device: 3 handlers, 2 attempts, both providers; vertex: 3 handlers, 2 keys | pool capacity; one sender per token, no replay, spent tokens fenced, a copy takes nothing; device codes spent once and only current ones installed, attempts stand; `VertexSafe` |
| `attachments_probe` | 1 probed key | violation, see findings |
| `background` | 1 managed job with one budget, 6 ticks (admission 1, observation 2, auto retry 3, replay 4), 1 fault | sent work is charged, complete jobs are settled, replays find their reservation, every job ends |
| `scope` | jobs: 2 attempts with one key and a Responses job that comes with or before the second, a table of one row; identities: 3 requests, a table of 2 rows, 2 days, 1 stop, five plans | one generation per key and replay window, no open identity behind a receipt, `ContinuationsHold` |
| `sessions` | responses: up to 3 creates on 1 or 2 lanes, limits of 1 and 2; realtime: 3 units, buffer of 2 | creates settle once, lanes are kept, units are funded, an ended session settles everything |
| `control` | cache: 2 isolates, 2 requests, five scenes; authority: 3 keys, 2 members, 2 editors, five KV contents; caps: 2 administrators; ticket: 3 requests, 2 bundles; soft: 2 turns, one on a shared lane, 1 leg, limits 0 to 2, a total of up to 1, fresh for 1 tick | `CacheCurrent`, `FeedbackKept`, `MutationsStand`, `KeysChecked`, `OverridesStand`, `OneReceipt`, `SoftVerdict` |
| `submissions` | 1 ticket, 3 requests, 2 bundles | violation, see findings |

Several properties are conjunctions of named parts, stated one by one in the
modules (`EgressAccounted` of `EgressCovered` and `EgressWithinLimit`, `IndexAgrees`
of `IndexNeverAhead`, `NeverWedged` and `CleanIsPublished`, and so on), with the
type invariant of the module as one of them.

**Runs over several modules.** `grants`, `owners`, `scope`, `sessions` and
`control` check modules that share no state. A variable `part`, chosen in the
initial state, says which of them moves; the others keep one initial state. The
reachable states of a part are those it has alone, so the run checks what separate
runs would. The fairness of a part that does not move can only exclude behaviours
of the other part from the liveness check of the first, never add one; safety is
not affected.

**Mutants.** Every property has at least one mutant in `PROJECT.json`: a
definition changed the way a slip in the code would change it, under which TLC
reports that property violated with the same configuration. The mutated forms
stand before the definitions they replace, as `Mut...`.

**Bounds, and why they are enough.** Two ids are enough for the ledger because a
handler reads one row and one sum; the proof removes the bound. In Accounting a
fault is a lost call, a lost reply, an early timeout or a death; three of them
make every leg fail in a different way and one retry reaches the dead-letter
queue; `Contended` lets a second request compete only with at most one fault. The
usage run lets a rowid be freed and reused on both sides of a watermark with
batches of one row; it has no event whose principal is no email address. Three
generations let a publication be overtaken by the second and repeated after the
third. In `owners`, `Competing` keeps the seat's two keys to three generations
between them, `OneMishap` counts a token the provider gives up by itself as the
one fault, and `InOrder` starts interchangeable handlers in order. In
BackgroundJobs one tick separates any two deadlines of the code, stamps are off by
up to one tick in both directions, and the arrivals put the second attempt before
and after the replay window of the first; one fault, together with calls that stay
in flight for as long as they like, is a restart, a lost reply or a timeout at any
point. Three observations of a grant are the fewest in which a late one meets a
state that two others made; readings and rejections, revisions, losses and the two
kinds of upkeep are explored in separate casts. Two creates on a lane interact,
the third meets the queue behind them; scenes, plans, scripts and KV contents
enumerate who takes part, and every step of theirs is still interleaved freely. Two
turns of a soft budget let one be refused over what the other heard; that an
exhaustion which a third one contradicted denies nobody is left to the theorem.

`CHECK_DEADLOCK FALSE` is set where the clock of a run or the script of a part
ends: a bounded system may stop there.

**Fairness.** `ledger`: the platform fires a due alarm, runs the object's
continuation, and time passes. `accounting`: a worker that is alive runs on, calls
end (every call of the code has a timeout), and the queue delivers a message
again until its retries are used up; nothing is assumed of a dead worker, whose
settlements arrive only if it had queued them.
`usage`: a due alarm fires. `grants`: handlers that do not fail go on and, strongly
fair, requests keep reaching a grant that the index selects, as the tail is first
in, first out. `background`: only alarms and time; no ledger, no provider and no
worker has to answer for a job to end. `sessions`: the runtime runs callbacks that
are due and fires timers, connects or fails to, and writes frames out; guards and
fundings have deadlines, settlements answer or fail; neither the client nor
upstream has to send anything. Safety properties assume nothing.

## 4. Proofs

Seven modules hold theorems, each about a specification that a run checks on a
small instance, and `BudgetTableProofs` the lemmas about the reservation table that
three of them share. A theorem holds for every value of the constants that satisfies the
named assumptions of the module. Every proof has the same shape. An invariant of
the run is seldom inductive: the module states a stronger one, one lemma per action
(or per kind of change) shows that it is kept, and the invariant and the action
properties follow from it. The strengthenings were model-checked on the instances
of the runs before they were proved. *Assumptions* that only give a constant its
type (a bound is a natural number, a set is finite, the absence of a token is no
token) are not repeated below; TLC evaluates all of them.

### Budget ledger

`BudgetLedgerProofs` proves, for every set of ids, scopes and kinds of windows,
every monotone calendar, lease, retention and limit:

* `TypeCorrect`: `TypeOK` is invariant.
* `PricedByReceipts`: `OnlyReceiptsPrice` is invariant. Dispatched work is priced
  by an acknowledged receipt only, otherwise held at what was admitted.
* `CleanupKeepsOpenWindows`: no step removes a row of an open window.
* `CapHolds`: `AdmittedWithinLimit` is invariant.
* `ImplementsReceipt`: the ledger implements `BudgetReceipt` under the mapping of
  phase, amount and birth; in it a dispatch is recorded within the lease only.

*Assumptions*: those named in `BudgetTable` and `BudgetLedger`. The one with
content is `RetentionLongest`: the lease does not exceed the retention, and two
ticks further apart than the retention lie in different windows (45 days against
calendar months). TLC evaluates all of them on the instances.

*Argument.* `TypeOK /\ OnlyReceiptsPrice /\ WindowBegun` is inductive.
`WindowBegun` (no row is charged to a window that begins later than the row) is
what makes the retention argument go through: a row old enough to be forgotten
was born in, or after, its window, which therefore is closed. Instead of treating
every conjunct under every handler, `NextMoves` classifies each step once: a row
stays, expires, is forgotten, is admitted, dispatched or priced (`RowMove`); all
moves but an admission are quiet (`QuietMove`). The
invariants, the cap and the refinement are then proved over moves. The cap is
inductive in the sum itself: steps that admit nothing shrink the set of admitted
micros, the admitting step adds at most `cost` of them, and `Fits` bounds the sum.

### Request accounting

`AccountingProofs`, for every set of requests, legs and modes, every bound, limit,
price and legacy debt, and any number of faults:

* `SettlementsConverge`: `SettlementsAgree` is invariant.
* `EgressIsPaidFor`: `EgressAccounted` is invariant.

*Assumption* with content: `RunRetained`, a run is over before a ledger forgets a
charge of it (the queue keeps a message for days, a ledger a charge for 45 days).

*Argument.* `AccountingInv` says what the place of the worker (`PlaceOK`) and what
it knows of a leg (`LegOK`) say about the row of that leg (`RowOK`), whatever is
still on its way (`CallOK`): a reservation that was acknowledged has a row, a leg
that was marked has a dispatched one, a row that is settled has the amount of its
request, and a settlement is on its way only after the request was finalized. A
late call meets a row that one of these describes. That the bounds of all that left
fit in a limit is a second induction, over the set of admitted micros of a leg as in
the ledger (`LimitsHold`), and a count: the bounds of the legs that left are disjoint
parts of that set.

### Usage ledger

`UsageLedgerProofs`, for every number of events, rows and principals, every
idempotent normalization of principals, every retention and every batch size of the
three migrations:

* `UsageIsExact`: `UsageExact` is invariant.
* `ReportsAreTrusted`: `ProjectionTrusted` is invariant.

*Argument.* The invariant is one of a database (`DbInv`), kept by each transaction,
so that a handler that runs several is done by citing them. `CountsHeld`: an id has
one row, a row without attribution columns is still before the attribution cursor,
and the rollup of a key is the number of rows that are counted (the trigger or the
backfill has met them) and have that key. Each transaction is then an equation
between sets: a delete takes rows out of a group, an insert adds one, the
attribution backfill moves a batch from one group to another, the rollup backfill
adds exactly what the triggers left out. `BatchIsFirst` carries the cursors: a batch
is the rows between the old and the new cursor, and when it is short it is all that
was left, although rowids are freed and reused meanwhile. That a principal's groups
add up to its events is a bijection between its rows and the pairs of a key and a
number up to its rollup. `RoundHeld` and `VerifiedHeld` say what a round of the
reporting migration that no unpaired write has disturbed answers for: the rows it
has passed and those above its bound, at last all of them.

### Background generations and identities

`ScopeProofs`, for every set of jobs, keys and legs, every cost and limit and any
number of faults, and for every set of requests and identities, every plan,
retention and capacity and any number of stops:

* `GenerationsAreCharged`: `JobsCharged` is invariant.
* `KeysGenerateOnce`: `OneGeneration` is invariant.
* `IdentitiesClose`: `FrozenIsClosed` is invariant.
* `IdentitiesStayOwned`: `ContinuationsHold` is invariant.

*Assumptions* with content: `Deadlines`, the order of the deadlines of a job and
that a reservation outlives the replay of its receipt; `PlansType`, a request
continues at most one response (its `previous_response_id`).

*Argument.* `JobsInv` relates a job, its worker and the call its owner awaits
(`JobOK`, `EgressOK`), and for each leg what the owner knows, awaits and has on its
way with the row of the ledger (`LegOK`, `AskedOK`, `RowOK`, `ReceiptOK`). A row may
be gone only when the job can no longer be replayed (`Gone`), as its age is bounded
by that of the job. `KeyOK` says of two admissions with one key that the replay
window of one was over when the other began. `IdentityInv` follows a grant of the
owner: a row that has not expired keeps its route and producer whatever is
registered, so what was granted holds while the reply waits in the tail
(`TailHeld`), on its way (`ReplyHeld`) and once the client was shown it
(`ClaimHeld`); a row of a producer carries its own proof or none yet (`BoundHeld`).

### Credential owners

`OwnerProofs`, for every finite set of grants, every set of tokens,
every choice of older grants and any bound on failures:

* `OwnershipTypeCorrect`: `TypeOK` is invariant.
* `OnlyTheOwnerSends`: `OneSender` is invariant.
* `DoubtIsNeverResent`: `NeverReplayed` is invariant.
* `SpentTokensAreFenced`: `SpentIsFenced` is invariant.
* `CopiesNeverRob`: every step satisfies `CopyNeverRobs`.

*Argument.* `Inv` adds three parts to `TypeOK`. `SentInv`: a token that was sent
or is in doubt has a used reservation, which names every sender; reservations only
grow (`RegistryGrows`), so that name is the only one. `ScanInv`: what the index is
searching for is not reserved, and only the handler that made the claim hears the
answer. `HandlerInv` is what the handler of a grant relies on between its awaits:
its claim describes its record, a fence or a send holds the used reservation, and a
record that owns a token in doubt is fenced (`DoubtFenced`). The last one is why no
replay is possible: a refresh starts from a record without fence, and a put or an
import that is granted a token in doubt was the current, fenced holder. Two lemmas
carry the case analysis: `OthersKept` for the steps of one grant's object, and
`AnswerKept` for the steps of the index. `SpentInv` follows a token after the
exchange that used it up: until the handler has stored the successor or the doubt,
its record carries the attempt. `CoverInv` is about the search for other holders:
what is stored is reserved first, so while the index looks for the holders of an
unreserved token nobody new can come to hold it; the only ones who may are grants
older than the index, and each of those is still to be read (`ScanKept`).

Also in `OwnerProofs`, for every set of handlers, any number of attempts,
generations, keys and restarts:

* `DeviceFlowsAreSafe`: `DeviceSafe` is invariant, in all three flows.
* `DeviceAttemptsStand`: every step satisfies `AttemptsStand`.
* `VertexCorrect`: `VertexSafe` is invariant.

*Argument.* A device exchange that may still settle (it was sent for the stored
attempt, and nothing stopped it) is the one in flight, and the attempt is in the
phase the handler saved before it sent or is closed for good (`CallHeld`,
`FlightsHeld`). The rest says which attempts can hold a code, a token or an account
(`CodeHeld`, `RowHeld`, `AccountHeld`). `VertexInv` adds to the three parts of
`VertexSafe` what a handler relies on while it is outside the tail: attempt numbers
are handed out once (`Numbered`), the served attempt has a handler that runs
(`Served`), the handler of the row's fence is the served one for as long as it runs
(`FenceServed`), and a row without a fence has no diagnosis (`Undiagnosed`).

`GrantProofs`, for every finite set of grants, any non-empty set of providers,
any capacity, generation and number of failures:

* `IndexFollowsOwners`: `IndexAgrees` is invariant.
* `PoolsKeepCapacity`: `CapacityKept` is invariant.

*Argument.* The two are one induction: an entry can be repaired only if its rows
are what the transactions of the index leave, and the transactions keep the
capacity only on such rows. A row kept for a proposal remembers what it replaced,
and that was not an active row (`WellRow`); so putting a proposal back never needs
a seat (`Kept`). `EntryFits` relates owner, entry and KV, `WorkFits` adds where the
handler waits, and `CallFits` bounds every call that was given up on: it is of an
older generation, or behind the entry's revision, or it repeats what the owner is.

Also in `GrantProofs`, for every set of isolates, quota windows, reports, cooldowns
and any number of revisions and observations:

* `FeedbackConverges`: `FeedbackMerges` is invariant.

*Argument.* A state *describes* a set of observations when its snapshot and its
readings are the newest of theirs less what the snapshot retires, and its cooldown
is one of theirs (`Describes`). Every state anywhere, pending, on its way or stored,
describes the observations it is made of, and merging two states of a revision
describes both sets (`MergeHeld`). That needs one fact about the world
(`SightingsHeld`): two usage snapshots of one time are the same, and a snapshot
comes with readings of its own time for the windows it has. Otherwise the order of
arrival would decide which of two snapshots of one time retires what the other
reports. The observations an isolate goes by are those of the
newest revision it knows (`StoredHeld`, `CurrentIs`), so the order of arrival does
not matter. `KeptHeld` accounts for each observation.

### Responses sessions

`UsageLedgerProofs` (its second part; the two share the lemmas on least members of a
set of numbers), for every finite set of creates, every set of lanes and every limit
of active turns, bytes and interrupts:

* `CreatesAreSettled`: `CreatesSettle` is invariant.
* `LanesAreKept`: `LaneKept` is invariant.

*Argument.* `SessionInv` speaks of the session and its operations as the pair that
the methods pass along. `Core` holds whether or not the session has ended: where an
operation is (`PlaceHeld`), what upstream knows of it (`AnswerHeld`) and what has
been billed (`BillHeld`) tell each other; a queue holds the creates that are queued,
once; the lane's active slot holds its live operation, and the settling list those
whose settlement is being written (`QueuesHeld`, `LanesHeld`, `SettlingHeld`);
buffered bytes are counted against the operations that still hold a frame. `Flow`
holds until it ends: a sent create ends only by upstream's answer, and one that is
scheduled behind a settlement waits for exactly that settlement. This is what keeps
two turns of a lane apart, and it does not survive `Close`, which ends everything at
once; from then on `AllEnded` takes its place. `Kept` says that a terminal frame on
the wire that claims to be bound is in the continuation store. Two steps are delicate.
`schedule` runs over all lanes in insertion order under one limit: it is the last
member of a chain of pairs, one per lane (`TurnsExist`), and a first member that does
not satisfy the invariant would have a predecessor that does (`TurnsHeld`). And a method that finishes a create schedules again before
it returns, so the lemmas of the methods are about pairs that may lack one conjunct
in between.

### Realtime sessions, caches and control

`ControlProofs`, for every set of units, any buffer and any number of automatic
responses: `RealtimeUnitsAreFunded`, `UnitsFunded` is invariant. *Argument.*
`RealtimeInv` relates the session, the place at which the handler of the tail
waits, the receipts and the books: a unit that is active, under the input buffer or
held by the waiting handler has a receipt that is open (`ReceiptsHeld`), a settled
one has exactly one line in the books, and a free line means that upstream kept
nothing under it (`BooksHeld`).

For every set of isolates and requests, any maximal age, any
limit of the two registries, and every scene within these bounds:

* `CachedAdmissionsAreRecent`: `CacheCurrent` is invariant.
* `ObservationsAreKept`: `FeedbackKept` is invariant.

*Argument.* The heart is what a snapshot promises wherever it is, in an entry, in
the shared cache, in a publication or at an await (`Sound`): it was the current
version when the tick of its load began, and it contains the changes of every
isolate whose fence is older than that load. A fence is the time of a change, and a
change is applied before the next load of that isolate begins; so a load that is
overtaken by a change is not newer than the fence, and publishing it is refused.
`WorkHeld` counts the background registry against the tasks and publications that
occupy it, `LeadsHeld` and `AliveHeld` the leaders, and `FeedbackHeld` says of a
rejection that is owed which of the three ways out it still has.

For any number of callers and any limits:

* `OneContribution`: `OneReceipt` is invariant (Submissions).
* `SoftVerdictsHold`: `SoftVerdict` is invariant (SoftBudget).
* `NoOverrideIsUndone`: every step satisfies `OverridesStand` (BudgetCaps).
* `KeyMutationsStand`: `MutationsStand` is invariant (CredentialAuthority).
* `KeyChecksHold`: every step satisfies `KeysChecked` (CredentialAuthority).

*Argument.* Submissions: claims are numbered and never reused, so a request whose
claim is current brought the bundle the ticket names, and a consumed ticket does not
change. SoftBudget: a mark and a denial point to the turn they come from; it heard
of the leg, its limit and its time of hearing stay, and the leg was noted as full
while it asked (`Grounded`); a leg that is full while a turn asks is noted at once, by
whichever of the turn and the ledger moves (`AskHeld`). BudgetCaps: stamps
rise with every save (`StampRises`), whatever the clock does, so an equal stamp
means an unchanged override. CredentialAuthority: a mutated key is in the table
and its table is marked initialised (`KeyMutated`), an editor that saw the import
done may rely on it (`EditorHeld`), and an admission that finishes knows its
owner from the table or from KV (`OwnerKnown`). *Assumption* with content:
`AuthorityType`, an edit of a snapshot names an existing key.

### Only model-checked

* Liveness (`HoldsExpire`, `SettlementArrives`, `MigrationsFinish`,
  `StaleSelectionEnds`, `JobsEnd`, `SessionsSettle`): out of the prover's reach.

## 5. Findings

* **A refused request can stay charged** (`accounting_refused`,
  `accounting.ts:101`). With fused admission a leg that committed and lost its
  reply is not among the legs the rollback settles, and the lease does not release
  it because it was reserved as dispatched. `docs/agent-spend-control.md` promises
  that pre-dispatch failures release reservations to zero.
* **A grant that needs reauthorization can keep its slot** (`attachments_probe`,
  `grant-credentials.ts:1321`). A 401 on a quota poll changes the status without a
  new generation or dirty flag, so the index keeps the member active.
  `docs/architecture.md` says such rows free an active slot.
* **A submission ticket can accept a second, different bundle** (`submissions`,
  `pool-submissions.ts:39`). When the owner stored a bundle and its reply was
  lost, the route gives the claim back; the ticket then takes another bundle.
  `docs/deploy-cloudflare.md` says that a different replay is rejected.

`PROJECT.json` quotes the documents with their lines.

Observations that contradict no document, and are therefore no finding:

* A load of the admission cache that read the authority before a feedback write
  and returns after that write settled publishes an admission without the mark of
  the rejection, until its max age.
* When the settlement of an earlier exchange was saved and its acknowledgement
  lost, its error handler may close a newer poll of the same device attempt as
  `unknown` (`RunningIsNotAbandoned` excepts it).
* A PUT of a policy writes the whole policy from an earlier read, so a concurrent
  change of another field can be undone.
* A turn identity that is registered again keeps its first expiry.
* Of two cooldowns of a grant the one in the state observed last counts. A late
  rejection does not extend the cooldown of an earlier one if a quota reading was
  merged in between, and a newer, shorter cooldown replaces a longer one;
  `CooldownKept` therefore speaks only of the time in which none has run out.

## 6. Not modelled, and why

* In the modelled parts: amounts are small integers and pricing is a
  nondeterministic amount; secrets, digests and quota numbers are model values;
  report rendering and pagination are left out.
  * BackgroundJobs: input uploads (`allocateInput` and its child job), published
    inputs, output files, continuation expiry and a job id that is used twice;
    `claim` takes all due rows (the code takes four at a time), legs are asked in
    any order, and a transaction and its `setAlarm` are one step (the gap is in
    Continuations for identities and in BudgetLedger for reservations).
  * Accounting and BackgroundJobs take the arrival of a call at a ledger and its
    handler as one step; BudgetLedger separates them.
  * SoftBudget: one window period per leg, the capacity of the cache of exhausted
    budgets, and `musicCoverSoftBudget`.
  * BudgetCaps: the raw `POST /users/put` of the authority, a whole-record write that
    no code of the Worker calls (which is why a stored role never changes), and the
    creation of an absent user.
  * GrantAttachments: what is said of the index and of stale selections leaves out
    grants that hold an access token only and are polled for quota (`Probed`): that a
    401 of the probe is not published is a finding of its own.
  * Sessions: conversation items, tool calls, truncation, deletion and
    cancellation of realtime; Google Live; compaction witnesses and the
    per-socket witness cache.
  * AdmissionCache: eviction of old entries and the credential cache.
    CredentialAuthority: one policy, and two isolates that mint one generation.
    DeviceFlow: the catalog flow of Copilot and the authorization-code flow.
  * GrantRuntime: ranking, stickiness, failover, the limit of 128 windows,
    account facts, several probes in one poll, clocks that disagree.
* Not started: Fusion (its spending is that of Accounting per leg), MiniMax
  operation owners, leases of HTTP bodies, directory assignments beyond their
  write of a user's groups, content retention, usage reports and sharding.
* Pure functions and translation, which a unit test reaches and a state machine
  does not: pricing and usage extraction, provider adapters and codecs, discovery,
  the admin console, provider compilation, deployment and operations scripts. They
  are most of the repository's lines, which is why the modules cover a small share
  of them.
* Outside a model: cryptography, JWT verification, the SQL engine, the platform.

## 7. Plan

Modules next: MiniMax operation owners and HTTP body leases; input uploads in
BackgroundJobs; assignment reconciliation; selection and failover over
GrantRuntime; token arithmetic against a reference definition.

Theorems next: every invariant and action property of a passing run is proved; a new
component's invariants come with their theorems.
