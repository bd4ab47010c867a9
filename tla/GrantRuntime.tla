---------------------------- MODULE GrantRuntime ----------------------------
(***************************************************************************)
(* What is known of one grant's quota and cooldown.  Inference responses   *)
(* in every isolate and the maintenance of the credential owner observe    *)
(* it; an isolate coalesces its observations and sends them in the         *)
(* background (worker/proxy.ts, worker/admission-cache.ts), the owner      *)
(* sends its own at once (probeQuota and keepWarm in                       *)
(* worker/grant-credentials.ts), and the authority merges what arrives,    *)
(* late, twice or out of order (worker/grant-runtime.ts).                  *)
(*                                                                         *)
(* A reading of a window is its time and the observation it comes from;    *)
(* limits, and the status and cooldown that quotaRuntime derives from the  *)
(* windows, follow from the readings and are left out.  A poll makes one   *)
(* probe.  All clocks agree.                                               *)
(***************************************************************************)
EXTENDS Integers, Sequences, FiniteSets, FiniteSetsExt

CONSTANTS
    Feeders,         \* isolates that observe inference responses
    Immediate,       \* the ones without hot cache, which write at once
    QuotaWindows,    \* window ids
    Polled,          \* the ones in the scopes of the owner's probe
    Casts,           \* bound: who observes in one behaviour, see below
    Unknown          \* no state, no reading, no snapshot, no maintenance

(* A behaviour is explored for one cast: the isolates and the kinds of     *)
(* upkeep that observe (who), the windows that response headers give, how  *)
(* long rejections cool the grant down, and its last tick, the number of   *)
(* revisions, of losses and of observations.                               *)
ASSUME RuntimeAssumption ==
    /\ Immediate \subseteq Feeders
    /\ Polled \subseteq QuotaWindows
    /\ \A c \in Casts : /\ c.who \subseteq Feeders \cup {"poll", "warm"}
                       /\ c.reports \subseteq SUBSET QuotaWindows
                       /\ c.cools \subseteq Nat \ {0}

(* What is written of a grant: the revision it is about, when, the end of  *)
(* the cooldown, the readings, the last usage snapshot, and by which of    *)
(* the observations.                                                       *)
Reading == [at : Nat, by : Nat]
UsageSnap == [at : Nat, ids : SUBSET Polled]
RuntimeState == [rev : Nat, at : Nat, until : Nat,
                 win : [QuotaWindows -> Reading \cup {Unknown}],
                 snap : UsageSnap \cup {Unknown}, of : SUBSET Nat]
Upkeep == [kind : {"poll", "warm"}, at : Nat, fresh : BOOLEAN,
           had : RuntimeState \cup {Unknown}]
ASSUME UnknownIsNone == Unknown \notin Reading \cup UsageSnap \cup RuntimeState \cup Upkeep

VARIABLES
    cast,           \* the cast of this behaviour
    clock,          \* Date.now()
    edits,          \* the grant's revision, its updatedAt
    pendingRuntime, \* by isolate: observations whose write has not settled
    calls,          \* by isolate: the states whose write is awaited
    feedback,       \* states on their way to the authority
    stored,         \* upstream_grant_runtime
    upkeep,         \* the owner's poll or keep-warm request
    sightings,      \* history: the states as they were observed
    heard,          \* history: the observations in what the authority got
    lost            \* history: the ones in writes, isolates or rows that are gone

runtimeVars == <<cast, clock, edits, pendingRuntime, calls, feedback, stored, upkeep,
                 sightings, heard, lost>>
runtimeHistory == <<cast, heard, lost>>

NoReadings == [w \in QuotaWindows |-> Unknown]

RuntimeInit ==
    /\ cast \in Casts /\ clock = 1 /\ edits = 1
    /\ pendingRuntime = [i \in Feeders |-> Unknown]
    /\ calls = [i \in Feeders |-> {}]
    /\ feedback = {} /\ stored = Unknown /\ upkeep = Unknown
    /\ sightings = <<>> /\ heard = {} /\ lost = {}

(***************************************************************************)
(* mergeGrantRuntimeState.  Another revision replaces or is dropped.  Of   *)
(* one revision every window keeps its newest reading, the incoming one at *)
(* a tie, unless the newest snapshot of its scope is not older and misses  *)
(* it; a signal of inference that is still active outlasts quota readings, *)
(* the newer of two such states counts.                                    *)
(***************************************************************************)
Cooling(state) == state # Unknown /\ state.until > clock
Newer(old, new) ==
    IF new # Unknown /\ (old = Unknown \/ new.at >= old.at) THEN new ELSE old
MutRetires(snap, w, reading) ==
    /\ w \in Polled /\ {snap, reading} \cap {Unknown} = {}
    /\ w \notin snap.ids
Retires(snap, w, reading) ==
    /\ w \in Polled /\ {snap, reading} \cap {Unknown} = {}
    /\ w \notin snap.ids /\ reading.at <= snap.at
MutSignal(old, new) == Newer(old, new).until
Signal(old, new) ==
    IF Cooling(new) /\ (new.at > old.at \/ ~Cooling(old)) THEN new.until
    ELSE IF Cooling(old) THEN old.until ELSE 0
MutMerge(old, new) == IF old = Unknown \/ new.at >= old.at THEN new ELSE old
Merge(old, new) ==
    IF old = Unknown THEN new
    ELSE IF old.rev # new.rev THEN IF old.rev > new.rev THEN old ELSE new
    ELSE LET snap == Newer(old.snap, new.snap)
             win == [w \in QuotaWindows |-> Newer(old.win[w], new.win[w])]
         IN  [rev |-> old.rev, at |-> Max({old.at, new.at}), until |-> Signal(old, new),
              win |-> [w \in QuotaWindows |->
                         IF Retires(snap, w, win[w]) THEN Unknown ELSE win[w]],
              snap |-> snap, of |-> old.of \cup new.of]

(* The next observation, and the readings it takes of some windows.        *)
Number == Len(sightings) + 1
Read(ws, at, win) ==
    [w \in QuotaWindows |-> IF w \in ws THEN [at |-> at, by |-> Number] ELSE win[w]]
State(rev, at, until, win, snap) ==
    [rev |-> rev, at |-> at, until |-> until, win |-> win, snap |-> snap, of |-> {Number}]
Sight(state) == Number <= cast.sightings /\ sightings' = Append(sightings, state)

(* observeGrantQuota: a 401, 403 or 429 is a signal with a cooldown; a     *)
(* response without signal and without windows is no observation.          *)
Responses(rev) ==
    {State(rev, clock, until, Read(ws, clock, NoReadings), Unknown) :
       ws \in cast.reports, until \in {0} \cup {clock + d : d \in cast.cools}}
      \ {State(rev, clock, 0, NoReadings, Unknown)}

(* queueGrantRuntime: without hot cache an observation is sent at once.    *)
Queue(i, state) ==
    IF i \in Immediate
    THEN feedback' = feedback \cup {state} /\ UNCHANGED pendingRuntime
    ELSE /\ pendingRuntime' = [pendingRuntime EXCEPT ![i] = Merge(@, state)]
         /\ UNCHANGED feedback

(* captureGrantRuntime: the response of a request that was sent with the   *)
(* current or an earlier revision of the grant.                            *)
Capture(i) ==
    \E rev \in 1..edits : \E state \in Responses(rev) :
      /\ Sight(state) /\ Queue(i, state)
      /\ UNCHANGED <<clock, edits, calls, stored, upkeep, runtimeHistory>>

(* flushSelections: what is pending is sent and stays pending until the    *)
(* write settles, and longer if it has changed meanwhile.                  *)
Flush(i) ==
    /\ pendingRuntime[i] # Unknown
    /\ feedback' = feedback \cup {pendingRuntime[i]}
    /\ calls' = [calls EXCEPT ![i] = @ \cup {pendingRuntime[i]}]
    /\ UNCHANGED <<clock, edits, pendingRuntime, stored, upkeep, sightings, runtimeHistory>>
MutSettled(i, state) ==
    /\ calls' = [calls EXCEPT ![i] = @ \ {state}]
    /\ pendingRuntime' = [pendingRuntime EXCEPT ![i] = Unknown]
    /\ UNCHANGED <<clock, edits, feedback, stored, upkeep, sightings, runtimeHistory>>
Settled(i, state) ==
    /\ calls' = [calls EXCEPT ![i] = @ \ {state}]
    /\ pendingRuntime' = [pendingRuntime EXCEPT ![i] = IF @ = state THEN Unknown ELSE @]
    /\ UNCHANGED <<clock, edits, feedback, stored, upkeep, sightings, runtimeHistory>>

(* External: the isolate is gone, or a write does not arrive.              *)
Gone(i) ==
    /\ pendingRuntime[i] # Unknown
    /\ lost' = lost \cup pendingRuntime[i].of /\ Cardinality(lost') <= cast.losses
    /\ pendingRuntime' = [pendingRuntime EXCEPT ![i] = Unknown]
    /\ calls' = [calls EXCEPT ![i] = {}]
    /\ UNCHANGED <<clock, edits, feedback, stored, upkeep, sightings, heard, cast>>
Dropped(state) ==
    /\ feedback' = feedback \ {state}
    /\ lost' = lost \cup state.of /\ Cardinality(lost') <= cast.losses
    /\ UNCHANGED <<clock, edits, pendingRuntime, calls, stored, upkeep, sightings, heard, cast>>

(* putGrantRuntime.                                                        *)
PutGrantRuntime(state) ==
    /\ stored' = Merge(stored, state)
    /\ feedback' = feedback \ {state} /\ heard' = heard \cup state.of
    /\ UNCHANGED <<clock, edits, pendingRuntime, calls, upkeep, sightings, lost, cast>>

(* publishGrantAttachment deletes the row of a grant that is not active.   *)
(* Any edit may have made it so, and its publication may come late.        *)
RetireRuntime ==
    /\ edits > 1 /\ stored # Unknown
    /\ stored' = Unknown /\ heard' = {} /\ lost' = lost \cup heard
    /\ UNCHANGED <<clock, edits, pendingRuntime, calls, feedback, upkeep, sightings, cast>>

(***************************************************************************)
(* The owner, in its tail: nothing edits the grant meanwhile but a refresh *)
(* of its own.  A poll reads the stored state of this revision and sends   *)
(* its probe, here in one step; one poll in a tick, as a poll takes longer *)
(* than the clock's resolution.                                            *)
(***************************************************************************)
Had(member, none) == IF upkeep.had = Unknown THEN none ELSE upkeep.had[member]
StartUpkeep(kind) ==
    /\ kind \in cast.who /\ upkeep = Unknown
    /\ upkeep' = [kind |-> kind, at |-> clock, fresh |-> TRUE,
                  had |-> IF stored # Unknown /\ stored.rev = edits THEN stored ELSE Unknown]
    /\ UNCHANGED <<clock, edits, pendingRuntime, calls, feedback, stored, sightings,
                   runtimeHistory>>
StartPoll ==
    /\ \A n \in DOMAIN sightings :
         sightings[n].snap # Unknown => sightings[n].snap.at < clock
    /\ StartUpkeep("poll")
StartKeepWarm == ~Cooling(stored) /\ StartUpkeep("warm")

(* publishRuntime stamps the revision the record has by now.               *)
PublishRuntime(state) ==
    /\ Sight(state) /\ feedback' = feedback \cup {state} /\ upkeep' = Unknown
    /\ UNCHANGED <<clock, edits, pendingRuntime, calls, stored, runtimeHistory>>

(* A usage answer replaces the polled windows by the ones it has, of the   *)
(* time the probe was sent, and its snapshot retires the others.           *)
PollAnswered(ids) ==
    /\ upkeep # Unknown /\ upkeep.kind = "poll" /\ ids # {}
    /\ PublishRuntime(State(edits, upkeep.at, 0,
         Read(ids, upkeep.at, [w \in QuotaWindows |-> IF w \in Polled THEN Unknown
                                                      ELSE Had("win", NoReadings)[w]]),
         [at |-> upkeep.at, ids |-> ids]))

(* An answer with account facts only repeats what was known; a 401 or 403  *)
(* is a signal that keeps the readings.                                    *)
PollFacts ==
    /\ upkeep # Unknown /\ upkeep.kind = "poll"
    /\ PublishRuntime(State(edits, Had("at", clock), Had("until", 0),
                            Had("win", NoReadings), Unknown))
PollRejected ==
    /\ upkeep # Unknown /\ upkeep.kind = "poll"
    /\ \E d \in cast.cools :
         PublishRuntime(State(edits, clock, clock + d, Had("win", NoReadings), Unknown))
(* The first 401 of a poll refreshes the grant, which is a new revision.   *)
PollRecovers ==
    /\ upkeep # Unknown /\ upkeep.kind = "poll" /\ upkeep.fresh /\ edits < cast.edits
    /\ edits' = edits + 1 /\ upkeep' = [upkeep EXCEPT !.fresh = FALSE]
    /\ UNCHANGED <<clock, pendingRuntime, calls, feedback, stored, sightings, runtimeHistory>>
WarmAnswered ==
    /\ upkeep # Unknown /\ upkeep.kind = "warm"
    /\ \E state \in Responses(edits) : PublishRuntime(state)
(* A timeout, a throttled poll or a malformed answer says nothing.         *)
UpkeepFails ==
    /\ upkeep # Unknown /\ upkeep' = Unknown
    /\ UNCHANGED <<clock, edits, pendingRuntime, calls, feedback, stored, sightings,
                   runtimeHistory>>

(* Any other write of the owner's record.                                  *)
EditGrant ==
    /\ upkeep = Unknown /\ edits < cast.edits /\ edits' = edits + 1
    /\ UNCHANGED <<clock, pendingRuntime, calls, feedback, stored, upkeep, sightings,
                   runtimeHistory>>
PassTime ==
    /\ clock < cast.ticks /\ clock' = clock + 1
    /\ UNCHANGED <<edits, pendingRuntime, calls, feedback, stored, upkeep, sightings,
                   runtimeHistory>>

RuntimeNext ==
    \/ \E i \in Feeders \cap cast.who : Capture(i) \/ Flush(i) \/ Gone(i)
    \/ \E i \in Feeders : \E state \in calls[i] : Settled(i, state)
    \/ \E state \in feedback : PutGrantRuntime(state) \/ Dropped(state)
    \/ RetireRuntime
    \/ StartPoll \/ StartKeepWarm
    \/ \E ids \in SUBSET Polled : PollAnswered(ids)
    \/ PollFacts \/ PollRejected \/ PollRecovers \/ WarmAnswered \/ UpkeepFails
    \/ EditGrant \/ PassTime

RuntimeSpec == RuntimeInit /\ [][RuntimeNext]_runtimeVars

(***************************************************************************)
(* What an isolate goes by: what the authority stored with its own         *)
(* unsettled observations merged in (applyPendingRuntime), which ones it   *)
(* may know, and those of them that are about the newest revision.         *)
(***************************************************************************)
View(i) == IF pendingRuntime[i] = Unknown THEN stored ELSE Merge(stored, pendingRuntime[i])
Unsent(i) == IF pendingRuntime[i] = Unknown THEN {} ELSE pendingRuntime[i].of
Known(i) == {sightings[n] : n \in heard \cup Unsent(i)}
Current(i) == {s \in Known(i) : \A t \in Known(i) : t.rev <= s.rev}

Newest(set) == {r \in set : \A q \in set : q.at <= r.at}

(* Whatever the order of arrival, an isolate goes by the newest reading of *)
(* each window of the newest revision, and by none of a polled window that *)
(* the newest usage snapshot, not older than the reading, does not have.   *)
WindowsExact ==
    \A i \in Feeders : \A w \in QuotaWindows :
      LET readings == Newest({s.win[w] : s \in Current(i)} \ {Unknown})
          snaps == Newest({s.snap : s \in Current(i)} \ {Unknown})
          kept == {r \in readings : \A snap \in snaps :
                     w \in Polled \ snap.ids => r.at > snap.at}
      IN  View(i) # Unknown =>
            IF kept = {} THEN View(i).win[w] = Unknown ELSE View(i).win[w] \in kept

(* A grant cools down while none of the rejections known of its newest     *)
(* revision has run out, and for no longer than one of them says.          *)
CooldownKept ==
    \A i \in Feeders :
      LET signals == {s.until : s \in Current(i)} \ {0}
      IN  View(i) # Unknown =>
            /\ View(i).until \in signals \cup {0}
            /\ signals # {} /\ (\A u \in signals : u > clock) => Cooling(View(i))

(* No observation disappears but with its isolate, with a write that does  *)
(* not arrive, with the row of an inactive grant or behind a newer         *)
(* revision.                                                               *)
NothingDropped ==
    \A n \in DOMAIN sightings :
      \/ n \in heard \cup lost \cup UNION {s.of : s \in feedback}
      \/ \E i \in Feeders : n \in Unsent(i)
      \/ \E t \in DOMAIN sightings : sightings[t].rev > sightings[n].rev

(* Feedback that is coalesced, repeated, late or out of order ends in the  *)
(* state that its observations, taken together, describe.                  *)
FeedbackMerges == WindowsExact /\ CooldownKept /\ NothingDropped
=============================================================================
