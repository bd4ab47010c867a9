-------------------------- MODULE AdmissionCache --------------------------
(***************************************************************************)
(* The isolate-local admission cache over the authority: the hot cache     *)
(* with its publication rights (worker/hot-cache.ts), the admission path   *)
(* that uses it (worker/admission-cache.ts), the per-colo layer under it   *)
(* (worker/colo-cache.ts) and the invalidation after a mutating request    *)
(* (worker/index.ts).                                                      *)
(*                                                                         *)
(* One cache key is modelled, in several isolates.  The authority's answer *)
(* for the key is a numbered version, and whether that version admits the  *)
(* key (only admitted outcomes are cached).  Every await of the code is a  *)
(* point where other steps may run: a request is at rest in phase "colo"   *)
(* (cache.match in flight), "held" (its answer is there), "asked"          *)
(* (/admission/resolve on its way) or "read" (the answer is on its way     *)
(* back).  The background load of a request r (revalidate) is the task -r. *)
(* The clock does not run backwards, so issuedWatermark never exceeds it.  *)
(***************************************************************************)
EXTENDS Integers, FiniteSets, FiniteSetsExt

CONSTANTS Isolates,    \* isolates of one colo
          Requests,    \* proxy requests, a set of positive numbers
          Scenes,      \* what may happen in one behaviour, see Scene
          MaxAge,      \* CLAWROUTER_HOT_CACHE_MAX_AGE_SECONDS, in ticks
          FreshAge,    \* HOT_CACHE_FRESH_SECONDS, in ticks
          LeaderLimit, \* the limit of HotCache
          WorkLimit,   \* BACKGROUND_WORK_LIMIT
          MaxTime, MaxVersion, MaxFeedback   \* bounds of the exploration

(***************************************************************************)
(* A behaviour is explored for one scene: the isolate each request reaches *)
(* and whether it is a first attempt, a failover after an upstream         *)
(* rejection (excludedKeys) or comes with another secret; the isolates     *)
(* that serve mutating requests; and the ones that observe rejections.     *)
(***************************************************************************)
Scene == [home : [Requests -> Isolates],
          manner : [Requests -> {"plain", "failover", "stranger", "absent"}],
          changes : SUBSET Isolates, observes : SUBSET Isolates]

ASSUME CacheAssumption ==
  /\ Requests \subseteq Nat \ {0}
  /\ Scenes \subseteq Scene
  /\ {MaxAge, FreshAge, LeaderLimit, WorkLimit} \subseteq Nat \ {0}
  /\ FreshAge <= MaxAge
ASSUME CacheBounds == {MaxTime, MaxVersion, MaxFeedback} \subseteq Nat

VARIABLES scene, \* the scene of this behaviour
          now,     \* hotCacheNow()
          began,   \* the version at the authority when each tick began
          truth,   \* the authority: version and whether it admits the key
          iso,     \* the module state of each isolate
          serve,   \* the requests and their background loads
          colo,    \* the entry of caches.default
          puts     \* cache.put calls in flight

cacheVars == <<scene, now, began, truth, iso, serve, colo, puts>>

ServeTasks == Requests \cup {-r : r \in Requests}
Caller(t) == IF t < 0 THEN -t ELSE t
Home == scene.home
Manner == scene.manner
At(t) == Home[Caller(t)]
NoTask == 0
Values == [n : 0..MaxVersion, ok : BOOLEAN, cool : BOOLEAN]
Nothing == [n |-> -1, ok |-> FALSE, cool |-> FALSE]
Entries == [val : Values \cup {Nothing}, at : 0..MaxTime]
NoEntry == [val |-> Nothing, at |-> 0]
HasValue(e) == e.val # Nothing
Busy == {"colo", "held", "asked", "read"}   \* phases between two awaits

(***************************************************************************)
(* HotCache.peek: an entry is usable below the max age and fresh below the *)
(* fresh age; a dead one is dropped by the look.                           *)
(***************************************************************************)
MutUsable(e) == HasValue(e) /\ now - e.at <= MaxAge
Usable(e) == HasValue(e) /\ now - e.at < MaxAge
FreshEntry(e) == now - e.at < FreshAge
Peeked(i) == IF Usable(i.entry) THEN i ELSE [i EXCEPT !.entry = NoEntry]

(***************************************************************************)
(* The publication rights of HotCache: beginPublication takes the key from *)
(* whoever leads it, unless too many publications are alive.               *)
(***************************************************************************)
Owns(i, t) == i.leader = t
Begin(i, t) ==
  IF Cardinality(i.live) >= LeaderLimit THEN [i EXCEPT !.leader = NoTask]
  ELSE [i EXCEPT !.leader = t, !.live = @ \cup {t}]
MutEnd(i, t) == [i EXCEPT !.live = @ \ {t}]
End(i, t) ==
  [i EXCEPT !.live = @ \ {t}, !.leader = IF @ = t THEN NoTask ELSE @]

Publish(i, t, val, at) ==
  IF Owns(i, t) THEN [i EXCEPT !.entry = [val |-> val, at |-> at]] ELSE i
Discard(i, t) == IF Owns(i, t) THEN [i EXCEPT !.entry = NoEntry] ELSE i

(***************************************************************************)
(* applyPendingRuntime: feedback this isolate has not yet delivered is     *)
(* laid over every snapshot it takes in.                                   *)
(***************************************************************************)
MutOverlay(i, val) == val
Overlay(i, val) == IF i.pend > 0 THEN [val EXCEPT !.cool = TRUE] ELSE val

(***************************************************************************)
(* tryRunInBackground: the registry is shared by background loads, colo    *)
(* puts and feedback flushes; a full one refuses and never starts.         *)
(***************************************************************************)
Working(x, i) ==
  Cardinality({t \in ServeTasks : t < 0 /\ At(t) = x /\ serve[t].pc \in Busy})
    + Cardinality({p \in puts : p.by = x})
    + Cardinality(i.writing) + (IF i.armed THEN 1 ELSE 0)
MutRoom(x, i) == Working(x, i) <= WorkLimit
Room(x, i) == Working(x, i) < WorkLimit

(***************************************************************************)
(* scheduleFlush: one flush is armed at a time; `refused` remembers that   *)
(* the last attempt found the registry full.                               *)
(***************************************************************************)
Scheduled(x, i) ==
  LET armed == i.armed \/ Room(x, i)
  IN  [i EXCEPT !.armed = armed, !.refused = ~armed]

CacheInit ==
  /\ scene \in Scenes
  /\ now = 0 /\ began = [t \in {0} |-> 0]
  /\ truth = [n |-> 0, ok |-> TRUE, cool |-> FALSE]
  /\ iso = [x \in Isolates |->
       [entry |-> NoEntry, leader |-> NoTask, live |-> {}, fence |-> 0,
        pend |-> 0, seen |-> 0, settled |-> 0, armed |-> FALSE, writing |-> {},
        refused |-> FALSE, changing |-> -1, applied |-> 0]]
  /\ serve = [t \in ServeTasks |->
       [pc |-> "idle", at |-> 0, got |-> NoEntry, floor |-> 0, how |-> "none"]]
  /\ colo = NoEntry /\ puts = {}

(***************************************************************************)
(* A request is answered with a value; `got` keeps it with the time of the *)
(* answer, `how` tells a snapshot ("cache") from an authority answer.      *)
(***************************************************************************)
Answered(rec, val, how) ==
  [rec EXCEPT !.pc = "done", !.got = [val |-> val, at |-> now], !.how = how]

(***************************************************************************)
(* load: the acquisition time is taken before /admission/resolve is sent.  *)
(***************************************************************************)
Asking(rec) == [rec EXCEPT !.pc = "asked", !.at = now, !.got = NoEntry]

(***************************************************************************)
(* HotCache.revalidate: one background load, unless the key is led or the  *)
(* registry is full.  `i` is the isolate's state at the call and `rec` the *)
(* record of the request that makes it.                                    *)
(***************************************************************************)
Revalidate(r, i, rec) ==
  IF i.leader = NoTask /\ Room(Home[r], i)
  THEN /\ iso' = [iso EXCEPT ![Home[r]] = Begin(i, -r)]
       /\ serve' = [serve EXCEPT ![r] = rec, ![-r] = Asking(@)]
  ELSE /\ iso' = [iso EXCEPT ![Home[r]] = i]
       /\ serve' = [serve EXCEPT ![r] = rec]

(***************************************************************************)
(* A snapshot answers: the selection is made and counted locally (which    *)
(* schedules a flush), and an entry past its fresh age is revalidated.     *)
(***************************************************************************)
AnswerFrom(r, i, rec, e) ==
  IF FreshEntry(e)
  THEN /\ serve' = [serve EXCEPT ![r] = Answered(rec, e.val, "cache")]
       /\ iso' = [iso EXCEPT ![Home[r]] = i]
  ELSE Revalidate(r, i, Answered(rec, e.val, "cache"))

(***************************************************************************)
(* The rest of resolveAdmission once no snapshot answered: take the lead,  *)
(* and read the colo cache unless failing over or refused the lead.        *)
(***************************************************************************)
Lead(r, i, rec) ==
  LET led == Begin(i, r) IN
  /\ iso' = [iso EXCEPT ![Home[r]] = led]
  /\ serve' = [serve EXCEPT ![r] =
       IF Owns(led, r) /\ Manner[r] # "failover"
       THEN [rec EXCEPT !.pc = "colo"] ELSE Asking(rec)]

(***************************************************************************)
(* A snapshot answers only the key's own secret, and localSelection may    *)
(* still find nothing in it: the request then goes on.                     *)
(***************************************************************************)
Serves(r, e) == Usable(e) /\ Manner[r] # "stranger"

(***************************************************************************)
(* resolveAdmission: served from the entry, waiting for the leader, or     *)
(* leading.  A failing-over request looks at neither entry nor leader.     *)
(***************************************************************************)
Arrive(r) ==
  LET x == Home[r]
      failover == Manner[r] = "failover"
      i == IF failover THEN iso[x] ELSE Peeked(iso[x])
      rec == [serve[r] EXCEPT !.floor = iso[x].applied]
  IN  /\ serve[r].pc = "idle" /\ Manner[r] # "absent"
      /\ \/ /\ ~failover /\ Serves(r, i.entry)
            /\ AnswerFrom(r, Scheduled(x, i), rec, i.entry)
         \/ /\ ~failover /\ i.leader # NoTask
            /\ serve' = [serve EXCEPT ![r] = [rec EXCEPT !.pc = "wait"]]
            /\ iso' = [iso EXCEPT ![x] = i]
         \/ /\ failover \/ i.leader = NoTask
            /\ Lead(r, i, rec)
      /\ UNCHANGED <<scene, now, began, truth, colo, puts>>

(***************************************************************************)
(* waitForPublication: the poll sees the leader gone, or the wait times    *)
(* out, which it may at any moment; the entry then serves or r leads.      *)
(***************************************************************************)
Joined(r) ==
  LET i == Peeked(iso[Home[r]]) IN
  /\ serve[r].pc = "wait"
  /\ \/ /\ Serves(r, i.entry)
        /\ serve' = [serve EXCEPT ![r] = Answered(@, i.entry.val, "cache")]
        /\ iso' = [iso EXCEPT ![Home[r]] = Scheduled(Home[r], i)]
     \/ Lead(r, i, serve[r])
  /\ UNCHANGED <<scene, now, began, truth, colo, puts>>

(***************************************************************************)
(* coloGet: cache.match answers with the entry of that moment, or nothing. *)
(***************************************************************************)
ColoRead(r) ==
  /\ serve[r].pc = "colo"
  /\ \E e \in {colo, NoEntry} :
       serve' = [serve EXCEPT ![r] = [@ EXCEPT !.pc = "held", !.got = e]]
  /\ UNCHANGED <<scene, now, began, truth, iso, colo, puts>>

(***************************************************************************)
(* What a shared entry needs to be adopted: an age below the max age, a    *)
(* fetch after the fence, the lead still held, and an admitted outcome for *)
(* the caller's secret.                                                    *)
(***************************************************************************)
Adoptable(r, i, e) ==
  Usable(e) /\ e.at > i.fence /\ Owns(i, r) /\ e.val.ok /\ Manner[r] # "stranger"

(***************************************************************************)
(* The answer of the colo cache: adopted under its original fetch time,    *)
(* with a background refresh when it is no longer fresh; otherwise, or     *)
(* when nothing can be selected from it, the authority is asked.           *)
(***************************************************************************)
Adopt(r) ==
  LET x == Home[r]
      i == iso[x]
      e == serve[r].got
      val == Overlay(i, e.val)
      shared == Publish(i, r, val, e.at)
  IN  /\ serve[r].pc = "held"
      /\ \/ /\ Adoptable(r, i, e)
            /\ AnswerFrom(r, End(Scheduled(x, shared), r), serve[r], [e EXCEPT !.val = val])
         \/ /\ serve' = [serve EXCEPT ![r] = Asking(@)]
            /\ iso' = [iso EXCEPT ![x] = IF Adoptable(r, i, e) THEN shared ELSE @]
      /\ UNCHANGED <<scene, now, began, truth, colo, puts>>

(***************************************************************************)
(* /admission/resolve reads the authority.                                 *)
(***************************************************************************)
Resolve(t) ==
  /\ serve[t].pc = "asked"
  /\ serve' = [serve EXCEPT ![t] = [@ EXCEPT !.pc = "read",
                                           !.got = [val |-> truth, at |-> 0]]]
  /\ UNCHANGED <<scene, now, began, truth, iso, colo, puts>>

(***************************************************************************)
(* The answer arrives: the overlay, the colo put of a current leader, the  *)
(* publication or the eviction it earns, and the end of the lead.  Whether *)
(* a foreground answer needs a local selection, which schedules a flush,   *)
(* is left open.                                                           *)
(***************************************************************************)
StoredAt(t) == serve[t].at
Loaded(t) ==
  LET x == At(t)
      i == iso[x]
      stranger == Manner[Caller(t)] = "stranger"
      val == Overlay(i, serve[t].got.val)
      ok == val.ok /\ ~stranger
      put == [val |-> val, at |-> StoredAt(t), by |-> x]
      Outcome(j) == IF ok THEN Publish(j, t, val, StoredAt(t))
                    ELSE IF stranger THEN j ELSE Discard(j, t)
  IN  /\ serve[t].pc = "read"
      /\ \E j \in {i} \cup (IF ok /\ t > 0 THEN {Scheduled(x, i)} ELSE {}) :
           /\ puts' = IF ok /\ Owns(j, t) /\ Room(x, j) THEN puts \cup {put} ELSE puts
           /\ iso' = [iso EXCEPT ![x] = End(Outcome(j), t)]
      /\ serve' = [serve EXCEPT ![t] = Answered(@, val, "authority")]
      /\ UNCHANGED <<scene, now, began, truth, colo>>

(***************************************************************************)
(* The authority does not answer: load throws, and the lead is given up.   *)
(* (An answer lost on its way back has the same effect.)                   *)
(***************************************************************************)
LoadFails(t) ==
  /\ serve[t].pc = "asked"
  /\ iso' = [iso EXCEPT ![At(t)] = End(@, t)]
  /\ serve' = [serve EXCEPT ![t] = [@ EXCEPT !.pc = "done", !.got = NoEntry]]
  /\ UNCHANGED <<scene, now, began, truth, colo, puts>>

(***************************************************************************)
(* coloPut lands, in any order, or is lost.                                *)
(***************************************************************************)
ColoStore(p) ==
  /\ p \in puts /\ puts' = puts \ {p}
  /\ \E e \in {[val |-> p.val, at |-> p.at], colo} : colo' = e
  /\ UNCHANGED <<scene, now, began, truth, iso, serve>>

(***************************************************************************)
(* A mutating request of isolate x: its change commits at the authority,   *)
(* and when its route has returned the isolate clears its caches and       *)
(* fences the shared entries.                                              *)
(***************************************************************************)
ChangeGrants(x) ==
  /\ x \in scene.changes /\ truth.n < MaxVersion /\ iso[x].changing = -1
  /\ \E ok \in BOOLEAN : truth' = [truth EXCEPT !.n = @ + 1, !.ok = ok]
  /\ iso' = [iso EXCEPT ![x].changing = truth.n + 1]
  /\ UNCHANGED <<scene, now, began, serve, colo, puts>>

MutInvalidated(i) ==
  [i EXCEPT !.entry = NoEntry, !.fence = now]
Invalidated(i) ==
  [i EXCEPT !.entry = NoEntry, !.leader = NoTask, !.fence = Max({@, now})]
Invalidate(x) ==
  /\ iso[x].changing >= 0
  /\ iso' = [iso EXCEPT ![x] =
       [Invalidated(@) EXCEPT !.applied = iso[x].changing, !.changing = -1]]
  /\ UNCHANGED <<scene, now, began, truth, serve, colo, puts>>

(***************************************************************************)
(* queueGrantRuntime: a quota or cooldown observation is applied to this   *)
(* isolate's snapshot, remembered, and a flush is scheduled.  Successive   *)
(* observations are numbered, since the map holds a new object each time.  *)
(***************************************************************************)
ObserveFeedback(x) ==
  LET i == iso[x] IN
  /\ x \in scene.observes /\ i.seen < MaxFeedback
  /\ iso' = [iso EXCEPT ![x] = Scheduled(x,
       [i EXCEPT !.entry.val.cool = @ \/ HasValue(i.entry),
                 !.seen = @ + 1, !.pend = i.seen + 1])]
  /\ UNCHANGED <<scene, now, began, truth, serve, colo, puts>>

(***************************************************************************)
(* flushSelections after the coalescing window: the pending observation (0 *)
(* for none: the counters alone) is sent.  Once the write has settled,     *)
(* recorded or lost, it is forgotten unless a later one took its place.    *)
(* At most one write of the same observation is explored at a time.        *)
(***************************************************************************)
Flush(x) ==
  /\ iso[x].armed /\ iso[x].pend \notin iso[x].writing
  /\ iso' = [iso EXCEPT ![x].armed = FALSE, ![x].writing = @ \cup {iso[x].pend}]
  /\ UNCHANGED <<scene, now, began, truth, serve, colo, puts>>

MutForgotten(i, k) == [i EXCEPT !.writing = @ \ {k}, !.pend = 0]
Forgotten(i, k) == [i EXCEPT !.writing = @ \ {k}, !.pend = IF @ = k THEN 0 ELSE @]
FlushEnds(x) ==
  \E k \in iso[x].writing :
    /\ iso' = [iso EXCEPT ![x] =
         [Forgotten(iso[x], k) EXCEPT !.settled = Max({@, k})]]
    /\ truth' \in {truth} \cup (IF k > 0 THEN {[truth EXCEPT !.cool = TRUE]} ELSE {})
    /\ UNCHANGED <<scene, now, began, serve, colo, puts>>

Tick ==
  /\ now < MaxTime
  /\ now' = now + 1
  /\ began' = [t \in 0..now' |-> IF t = now' THEN truth.n ELSE began[t]]
  /\ UNCHANGED <<scene, truth, iso, serve, colo, puts>>

CacheNext ==
  \/ \E r \in Requests : Arrive(r) \/ Joined(r) \/ ColoRead(r) \/ Adopt(r)
  \/ \E t \in ServeTasks : Resolve(t) \/ Loaded(t) \/ LoadFails(t)
  \/ \E p \in puts : ColoStore(p)
  \/ \E x \in Isolates :
       ChangeGrants(x) \/ Invalidate(x) \/ ObserveFeedback(x) \/ Flush(x) \/ FlushEnds(x)
  \/ Tick

CacheSpec == CacheInit /\ [][CacheNext]_cacheVars

-----------------------------------------------------------------------------
(***************************************************************************)
(* Type correctness; the live publications of HotCache never exceed its    *)
(* limit and the background registry never exceeds its own.                *)
(***************************************************************************)
CacheTypeOK ==
  /\ now \in 0..MaxTime
  /\ began \in [0..now -> 0..MaxVersion]
  /\ truth \in Values
  /\ colo \in Entries
  /\ puts \subseteq [val : Values, at : 0..MaxTime, by : Isolates]
  /\ \A x \in Isolates :
       /\ iso[x].entry \in Entries
       /\ iso[x].leader \in ServeTasks \cup {NoTask}
       /\ iso[x].live \subseteq {t \in ServeTasks : At(t) = x}
       /\ Cardinality(iso[x].live) <= LeaderLimit
       /\ Working(x, iso[x]) <= WorkLimit
       /\ iso[x].writing \subseteq 0..MaxFeedback
  /\ \A t \in ServeTasks :
       /\ serve[t].pc \in Busy \cup {"idle", "wait", "done"}
       /\ serve[t].got \in Entries

(***************************************************************************)
(* "Mutations served by this isolate take effect here at once": whatever   *)
(* load, wait or colo read was under way, after a mutating request the     *)
(* isolate holds no older snapshot, and a request that arrives after it is *)
(* never answered with an older version (hot-cache.ts publications and     *)
(* fence, index.ts).                                                       *)
(***************************************************************************)
OwnChangesApply ==
  /\ \A x \in Isolates : HasValue(iso[x].entry) => iso[x].entry.val.n >= iso[x].applied
  /\ \A r \in Requests : HasValue(serve[r].got) /\ serve[r].pc = "done"
                            => serve[r].got.val.n >= serve[r].floor

(***************************************************************************)
(* "Staleness is bounded by the max age": an answer from a snapshot, own   *)
(* or adopted from the colo, is a version that was still current less than *)
(* the max age ago, however long its load took.                            *)
(***************************************************************************)
StalenessBounded ==
  \A r \in Requests : serve[r].how = "cache" =>
    serve[r].got.val.n >= began[Max({0, serve[r].got.at - MaxAge + 1})]

(***************************************************************************)
(* Until the write of an observed rejection has settled, every snapshot    *)
(* the isolate holds carries it, also one loaded or adopted after it.      *)
(***************************************************************************)
FeedbackOwed(i) == i.seen > i.settled
PendingIsOverlaid ==
  \A x \in Isolates :
    FeedbackOwed(iso[x]) /\ HasValue(iso[x].entry) => iso[x].entry.val.cool

(***************************************************************************)
(* The latest observation, until its write has settled, has a flush armed  *)
(* or that write in flight, unless the registry refused the last flush: an *)
(* older write that settles does not take it along.                        *)
(***************************************************************************)
FeedbackScheduled ==
  \A x \in Isolates : LET i == iso[x] IN
    FeedbackOwed(i) => (i.armed /\ i.pend = i.seen) \/ i.seen \in i.writing \/ i.refused

(***************************************************************************)
(* Nobody leads a key without a load under way that will give it up, so    *)
(* waiters never wait for a leader that is gone; and an invalidated load   *)
(* stays charged until its own work settles.                               *)
(***************************************************************************)
LeadersAlive ==
  \A x \in Isolates :
    /\ iso[x].leader # NoTask => iso[x].leader \in iso[x].live
    /\ \A t \in iso[x].live : serve[t].pc \in Busy

(* A cached admission is recent: own changes at once, those made elsewhere *)
(* within the max age (hot-cache.ts, admission-cache.ts).                  *)
CacheCurrent == CacheTypeOK /\ OwnChangesApply /\ StalenessBounded

(* Background work is not lost: a rejection stays on the cached admission  *)
(* until its write settled, that write is on its way, and every leader is  *)
(* alive.                                                                  *)
FeedbackKept == PendingIsOverlaid /\ FeedbackScheduled /\ LeadersAlive
=============================================================================
