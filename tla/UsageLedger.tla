----------------------------- MODULE UsageLedger -----------------------------
(***************************************************************************)
(* One UsageLedgerObject (worker/ledgers.ts) with its two derived tables:  *)
(* daily rollups (worker/usage-rollups.ts) and the reporting projection    *)
(* (worker/usage-report-store.ts).  Both are kept by SQL triggers on       *)
(* usage_events while three migrations walk the same table by rowid, while *)
(* retention deletes rows and lets SQLite reuse their rowids, and while an *)
(* older release that knows nothing of the projection may write again.     *)
(*                                                                         *)
(* The database is one record.  Each transaction of the code is an         *)
(* operator from database to database; an action is one handler.           *)
(*                                                                         *)
(* A payload is reduced to the raw principal its JSON names.  The coverage *)
(* generation only ever grows, so each generation the code compares with   *)
(* it is reduced to whether it still equals it (verified, round).          *)
(***************************************************************************)
EXTENDS Integers, FiniteSets

CONSTANTS
    Ids,              \* event ids
    Raws,             \* principal_id values as written
    RawOf,            \* the principal_id in the JSON of an event
    Normal,           \* normalizeEmail
    Null,             \* SQL NULL
    NoEvent,          \* no row with this rowid
    Retention,        \* usageRetentionMs, reportRetentionMs
    Start,            \* tick at which this release takes over
    MaxTime,          \* last tick of the clock
    MaxRowid,         \* largest rowid in a run
    HistoryRows,      \* largest rowid an earlier release left behind
    AttributionBatch, \* usageAttributionBatchSize
    RollupBatch,      \* usageRollupBatchSize
    ReportBatch       \* batchSize of /reporting-migration

ASSUME UsageType ==
    /\ IsFiniteSet(Ids)
    /\ RawOf \in [Ids -> Raws]
    /\ Normal \in [Raws -> Raws \cup {Null}] /\ Null \notin Raws
    /\ Retention \in Nat /\ MaxTime \in Nat /\ Start \in 0..MaxTime
    /\ MaxRowid \in Nat /\ HistoryRows \in 0..MaxRowid
    /\ {AttributionBatch, RollupBatch, ReportBatch} \subseteq Nat \ {0}

(* normalizeEmail is idempotent.                                           *)
ASSUME NormalIdempotent ==
    \A raw \in Raws : Normal[raw] # Null => Normal[Normal[raw]] = Normal[raw]

VARIABLES
    db,               \* the SQL storage of the object
    alarm,            \* "none", "soon" (usageRollupAlarmMs) or "daily"
    now               \* Date.now()

vars == <<db, alarm, now>>

Rowids == 1..MaxRowid
Times == 0..MaxTime
Keys == Raws \cup {Null}
Event == [id : Ids, at : Times, projected : BOOLEAN]
Watermark == {m \in [last : 0..MaxRowid, upper : 0..MaxRowid, complete : BOOLEAN] :
                m.last <= m.upper}

(* A rowid that is not in use holds no event.                              *)
ASSUME NoEventIsNone == NoEvent \notin Event

(* usage_events by rowid, usage_report_events by id (its occurred_at_ms),  *)
(* request_count of usage_rollups by principal_key, the three migrations   *)
(* and usage_report_coverage.                                              *)
Database == [events : [Rowids -> Event \cup {NoEvent}],
             reports : [Ids -> Times \cup {Null}],
             rollups : [Keys -> 0..MaxRowid],
             attribution : Watermark, rollup : Watermark, report : Watermark,
             verified : BOOLEAN, round : BOOLEAN]

TypeOK == db \in Database /\ alarm \in {"none", "soon", "daily"} /\ now \in Times

-----------------------------------------------------------------------------
Rows(d) == {n \in Rowids : d.events[n] # NoEvent}
Top(d) == IF Rows(d) = {} THEN 0 ELSE CHOOSE n \in Rows(d) : \A m \in Rows(d) : m <= n
RowOf(d, i) == {n \in Rows(d) : d.events[n].id = i}

(* SELECT ... WHERE rowid > last AND rowid <= upper ORDER BY rowid LIMIT n *)
Batch(d, last, upper, size) ==
    LET range == {n \in Rows(d) : last < n /\ n <= upper}
    IN  {n \in range : Cardinality({m \in range : m < n}) < size}
LastOf(batch, upper) ==
    IF batch = {} THEN upper ELSE CHOOSE n \in batch : \A m \in batch : m <= n

(* attributionPending                                                      *)
Pending(d, n) ==
    ~d.attribution.complete /\ d.attribution.last < n /\ n <= d.attribution.upper

(* counted: the trigger leaves rows to a backfill that has yet to come.    *)
MutCountedBelowLast(d, n) == d.rollup.complete \/ n <= d.rollup.last
Counted(d, n) == d.rollup.complete \/ n <= d.rollup.last \/ n > d.rollup.upper

(* keyValues: COALESCE(principal_key, principal_id, the JSON if pending).  *)
KeyOf(d, n, event) ==
    LET raw == RawOf[event.id] IN
    IF event.projected THEN (IF Normal[raw] # Null THEN Normal[raw] ELSE raw)
    ELSE IF Pending(d, n) THEN raw ELSE Null

Share(d, rows, events, k) ==
    Cardinality({n \in rows : Counted(d, n) /\ KeyOf(d, n, events[n]) = k})

(* The rollup triggers for a set of rows: remove(OLD) and insert(NEW).  An *)
(* absent group has nothing to subtract from.                              *)
Removed(d, rows) ==
    [k \in Keys |-> LET left == d.rollups[k] - Share(d, rows, d.events, k)
                    IN  IF left > 0 THEN left ELSE 0]
Added(d, counts, rows, events) == [k \in Keys |-> counts[k] + Share(d, rows, events, k)]

IdsOf(d, rows) == {d.events[n].id : n \in rows}

(* The reporting triggers: a canonical write drops the projection of a     *)
(* deleted or updated row and starts a new coverage generation.            *)
Uncovered(d, rows, gone) ==
    [d EXCEPT !.reports = [i \in Ids |-> IF i \in gone THEN Null ELSE d.reports[i]],
              !.verified = d.verified /\ rows = {},
              !.round = d.round /\ rows = {}]

(* withUsageReportPair: a generation that was current stays current.       *)
MutPairedAlways(before, after) == [after EXCEPT !.verified = TRUE, !.round = TRUE]
Paired(before, after) == [after EXCEPT !.verified = before.verified, !.round = before.round]

-----------------------------------------------------------------------------
Expired(d, t) == {n \in Rows(d) : d.events[n].at < t - Retention}

(* DELETE FROM usage_events, as any release does it.                       *)
EventsDeleted(d, rows) ==
    [Uncovered(d, rows, IdsOf(d, rows)) EXCEPT
        !.events = [n \in Rowids |-> IF n \in rows THEN NoEvent ELSE d.events[n]],
        !.rollups = Removed(d, rows)]

(* cleanup()                                                               *)
CleanedUp(d, t) ==
    LET gone == EventsDeleted(d, Expired(d, t)) IN
    Paired(d, [gone EXCEPT !.reports =
                  [i \in Ids |-> IF gone.reports[i] # Null /\ gone.reports[i] < t - Retention
                                 THEN Null ELSE gone.reports[i]]])

(* INSERT INTO usage_events: the rowid is one above the largest in use.    *)
EventInserted(d, i, at) ==
    LET n == Top(d) + 1
        events == [d.events EXCEPT ![n] = [id |-> i, at |-> at, projected |-> TRUE]]
    IN  [Uncovered(d, {n}, {}) EXCEPT
            !.events = events, !.rollups = Added(d, d.rollups, {n}, events)]

(* ingest(): cleanup, then one transaction that a projection row already   *)
(* there (an orphan) rolls back.                                           *)
Stored(d, t, i, at) ==
    RowOf(d, i) = {} /\ at >= t - Retention /\ d.reports[i] = Null
Ingested(d, t, i, at) ==
    IF Stored(d, t, i, at)
    THEN Paired(d, [EventInserted(d, i, at) EXCEPT !.reports[i] = at])
    ELSE d

(* backfillAttribution(): the UPDATE triggers run before the watermark     *)
(* moves, in the same transaction.                                         *)
MutAttributionDoneEarly(d) ==
    LET m == d.attribution
        batch == Batch(d, m.last, m.upper, AttributionBatch)
        last == LastOf(batch, m.upper)
        events == [n \in Rowids |-> IF n \in batch THEN [d.events[n] EXCEPT !.projected = TRUE]
                                    ELSE d.events[n]]
    IN  IF m.complete THEN d ELSE
        [Uncovered(d, batch, IdsOf(d, batch)) EXCEPT
            !.events = events,
            !.rollups = Added(d, Removed(d, batch), batch, events),
            !.attribution = [last |-> last, upper |-> m.upper,
                             complete |-> Cardinality(batch) < AttributionBatch \/ last + 1 >= m.upper]]
BackfilledAttribution(d) ==
    LET m == d.attribution
        batch == Batch(d, m.last, m.upper, AttributionBatch)
        last == LastOf(batch, m.upper)
        events == [n \in Rowids |-> IF n \in batch THEN [d.events[n] EXCEPT !.projected = TRUE]
                                    ELSE d.events[n]]
    IN  IF m.complete THEN d ELSE
        [Uncovered(d, batch, IdsOf(d, batch)) EXCEPT
            !.events = events,
            !.rollups = Added(d, Removed(d, batch), batch, events),
            !.attribution = [last |-> last, upper |-> m.upper,
                             complete |-> Cardinality(batch) < AttributionBatch \/ last = m.upper]]

(* backfillUsageRollups()                                                  *)
MutBackfillByCount(d) ==
    LET m == d.rollup
        batch == Batch(d, m.last, m.upper, RollupBatch)
        last == m.last + RollupBatch
        covered == Cardinality(batch) < RollupBatch \/ last = m.upper
    IN  IF m.complete THEN d ELSE
        [d EXCEPT
            !.rollups = [k \in Keys |-> d.rollups[k] +
                            Cardinality({n \in batch : KeyOf(d, n, d.events[n]) = k})],
            !.rollup = [last |-> last, upper |-> m.upper,
                        complete |-> covered /\ d.attribution.complete]]
BackfilledRollups(d) ==
    LET m == d.rollup
        batch == Batch(d, m.last, m.upper, RollupBatch)
        last == LastOf(batch, m.upper)
        covered == Cardinality(batch) < RollupBatch \/ last = m.upper
    IN  IF m.complete THEN d ELSE
        [d EXCEPT
            !.rollups = [k \in Keys |-> d.rollups[k] +
                            Cardinality({n \in batch : KeyOf(d, n, d.events[n]) = k})],
            !.rollup = [last |-> last, upper |-> m.upper,
                        complete |-> covered /\ d.attribution.complete]]

(* usageReportProjectionComplete                                           *)
ProjectionComplete(d) == d.report.complete /\ d.verified

(* migrateUsageReport with apply.  An unpaired write since the last call   *)
(* makes it start over with a new bound.                                   *)
Migrated(d, t) ==
    LET fresh == ~ProjectionComplete(d) /\ ~d.round
        upper == IF fresh THEN Top(d) ELSE d.report.upper
        batch == IF ProjectionComplete(d) THEN {}
                 ELSE Batch(d, IF fresh THEN 0 ELSE d.report.last, upper, ReportBatch)
        next == LastOf(batch, upper)
        scanned == Cardinality(batch) < ReportBatch \/ next = upper
        orphans == {i \in Ids : d.reports[i] # Null /\
                       (RowOf(d, i) = {} \/ d.reports[i] < t - Retention)}
        keep == {n \in batch : d.events[n].at >= t - Retention}
    IN  {[d EXCEPT
            !.reports = [i \in Ids |->
                IF \E n \in keep : d.events[n].id = i
                THEN d.events[CHOOSE n \in keep : d.events[n].id = i].at
                ELSE IF i \in obsolete \cup IdsOf(d, batch) THEN Null ELSE d.reports[i]],
            !.report = [last |-> next, upper |-> upper,
                        complete |-> scanned /\ Cardinality(obsolete) < ReportBatch],
            !.round = TRUE,
            !.verified = d.verified \/ (scanned /\ Cardinality(obsolete) < ReportBatch)] :
         obsolete \in IF ProjectionComplete(d) \/ ~scanned THEN {{}}
                      ELSE IF Cardinality(orphans) < ReportBatch THEN {orphans}
                      ELSE {s \in SUBSET orphans : Cardinality(s) = ReportBatch}}

-----------------------------------------------------------------------------
(* The first construction by this release.  An earlier one left events,    *)
(* projected or with attribution still to be backfilled, and perhaps a     *)
(* sparse projection without coverage, complete by its own marker.         *)
History(d) ==
    /\ \A n, m \in Rows(d) : d.events[n].id = d.events[m].id => n = m
    /\ \A n \in Rows(d) : d.events[n].projected =
          (n <= d.attribution.last \/ n > d.attribution.upper)
    /\ IF d.attribution.complete
       THEN \A n \in Rows(d) : n <= d.attribution.last \/ n > d.attribution.upper
       ELSE d.attribution.last < d.attribution.upper
    /\ \A i \in Ids : d.reports[i] # Null =>
          IF RowOf(d, i) = {} THEN d.reports[i] < Start - Retention
          ELSE \A n \in RowOf(d, i) : d.reports[i] = d.events[n].at

Empty(d) == Rows(d) = {} /\ \A i \in Ids : d.reports[i] = Null

(* ensureSchema(), ensureUsageRollups(), ensureUsageReportSchema()         *)
Init ==
    /\ \E old \in [1..HistoryRows -> [id : Ids, at : 0..Start] \cup {NoEvent}],
          m \in {w \in Watermark : w.upper <= HistoryRows},
          reports \in [Ids -> 0..Start \cup {Null}], marked \in BOOLEAN :
       LET events == [n \in Rowids |->
               IF n > HistoryRows THEN NoEvent ELSE IF old[n] = NoEvent THEN NoEvent
               ELSE [id |-> old[n].id, at |-> old[n].at,
                     projected |-> n <= m.last \/ n > m.upper]]
           top == Top([events |-> events])
           d == [events |-> events, reports |-> reports, rollups |-> [k \in Keys |-> 0],
                 attribution |-> m,
                 rollup |-> [last |-> 0, upper |-> top, complete |-> top = 0],
                 report |-> [last |-> 0, upper |-> top, complete |-> top = 0 \/ marked],
                 verified |-> Empty([events |-> events, reports |-> reports]),
                 round |-> FALSE]
       IN  History(d) /\ db = d
    /\ alarm \in {"none", "daily"}
    /\ now = Start

(* scheduleUsageAlarm(): an alarm is only ever moved forward.              *)
Scheduled(d) ==
    IF ~d.rollup.complete \/ ~d.attribution.complete THEN "soon"
    ELSE IF alarm = "none" THEN "daily" ELSE alarm

(* POST /ingest                                                            *)
Ingest(i, at) ==
    /\ at <= now
    /\ \E clean \in {CleanedUp(db, now)} :
          Top(clean) < MaxRowid /\ db' = Ingested(clean, now, i, at)
    /\ alarm' = Scheduled(db')
    /\ UNCHANGED now

(* GET /snapshot                                                           *)
Snapshot ==
    /\ \E attributed \in {BackfilledAttribution(db)} : db' = CleanedUp(attributed, now)
    /\ alarm' = Scheduled(db')
    /\ UNCHANGED now

(* GET /grant-usage                                                        *)
GrantUsage ==
    /\ db' = CleanedUp(db, now)
    /\ UNCHANGED <<alarm, now>>

(* POST /reporting-migration                                               *)
MigrateUsageReport ==
    /\ db' \in Migrated(db, now)
    /\ UNCHANGED <<alarm, now>>

MutAlarmOnce ==
    /\ alarm # "none"
    /\ \E clean \in {CleanedUp(db, now)} : \E attributed \in {BackfilledAttribution(clean)} :
          db' = BackfilledRollups(attributed)
    /\ alarm' = "none"
    /\ UNCHANGED now
Alarm ==
    /\ alarm # "none"
    /\ \E clean \in {CleanedUp(db, now)} : \E attributed \in {BackfilledAttribution(clean)} :
          db' = BackfilledRollups(attributed)
    /\ alarm' = IF ~db'.rollup.complete \/ ~db'.attribution.complete THEN "soon"
                ELSE IF Rows(db') = {} THEN "none" ELSE "daily"
    /\ UNCHANGED now

(* An earlier release serves the object again: it has the attribution      *)
(* columns and the triggers of the database, and nothing else.             *)
OldIngest(i, at) ==
    /\ at <= now
    /\ \E clean \in {EventsDeleted(db, Expired(db, now))} :
          /\ Top(clean) < MaxRowid
          /\ db' = IF RowOf(clean, i) = {} /\ at >= now - Retention
                   THEN EventInserted(clean, i, at) ELSE clean
    /\ UNCHANGED <<alarm, now>>

Tick == now < MaxTime /\ now' = now + 1 /\ UNCHANGED <<db, alarm>>

Next == \/ \E i \in Ids, at \in Times : Ingest(i, at) \/ OldIngest(i, at)
        \/ Snapshot
        \/ GrantUsage
        \/ MigrateUsageReport
        \/ Alarm
        \/ Tick

Spec == Init /\ [][Next]_vars

(* The platform fires a due alarm.                                         *)
FairSpec == Spec /\ WF_vars(Alarm)

-----------------------------------------------------------------------------
Principals == {Normal[raw] : raw \in Raws} \ {Null}

(* What a principal's events are, by the JSON that records them.           *)
Owned(p) == {n \in Rows(db) : Normal[RawOf[db.events[n].id]] = p}

(* rollupOwnerCondition sums every group whose key normalizes to p.        *)
Total(p) ==
    Cardinality({g \in Raws \X (1..MaxRowid) : Normal[g[1]] = p /\ g[2] <= db.rollups[g[1]]})

(* snapshot(): once the rollups answer for the events, every principal's   *)
(* totals are those of its retained events, whatever rows the triggers and *)
(* the two backfills met in which order, and although retention made       *)
(* SQLite reuse rowids on both sides of the watermarks.                    *)
RollupsExact ==
    db.rollup.complete => \A p \in Principals : Total(p) = Cardinality(Owned(p))

(* ownerCondition, after backfillAttribution: rows still pending match by  *)
(* their JSON, the others by column; neither misses or adds an event.      *)
OwnerCondition(d, p) ==
    {n \in Rows(d) :
        \/ Pending(d, n) /\ Normal[RawOf[d.events[n].id]] = p
        \/ ~Pending(d, n) /\ d.events[n].projected /\ Normal[RawOf[d.events[n].id]] = p}
OwnEventsOnly == \A p \in Principals : OwnerCondition(db, p) = Owned(p)

(* usageReportProjectionComplete: a report is answered from the projection *)
(* only when it holds every retained event, as it was ingested, and        *)
(* nothing else, old writers, interrupted migration rounds, attribution    *)
(* updates and reused rowids notwithstanding.                              *)
ProjectionTrusted ==
    ProjectionComplete(db) =>
        /\ \A n \in Rows(db) : db.events[n].at >= now - Retention =>
              db.reports[db.events[n].id] = db.events[n].at
        /\ \A i \in Ids : db.reports[i] # Null => RowOf(db, i) # {}

(* alarm(): once the migrations are scheduled they finish, although every  *)
(* call may add rows and move the alarm.                                   *)
MigrationsFinish ==
    alarm = "soon" ~> (db.rollup.complete /\ db.attribution.complete)

(* Totals and attribution: the rollups are exact once they answer, and at  *)
(* every moment of the attribution backfill a principal's condition        *)
(* selects its own events and no others (usage-rollups.ts, usage-          *)
(* attribution.ts).                                                        *)
UsageExact == TypeOK /\ RollupsExact /\ OwnEventsOnly
=============================================================================
