--------------------------- MODULE Continuations ---------------------------
(***************************************************************************)
(* Response identities (worker/continuation-store.ts, its serial tail and  *)
(* alarm in worker/responses-scope.ts, the producers of                    *)
(* worker/http-continuation.ts).  A producer is one proxied Responses      *)
(* request: it resolves the identities it continues, registers those that  *)
(* upstream gives it before it shows them to the client, and qualifies the *)
(* tools its response retains.  Calls to the owner of the scope may be     *)
(* lost, late or unanswered; the owner may stop after a commit and before  *)
(* it has set its alarm.  The rows of background jobs are BackgroundJobs'. *)
(***************************************************************************)
EXTENDS Integers, FiniteSets, FiniteSetsExt

CONSTANTS
    Producers,      \* requests: producerId
    Nobody,         \* the producer of a row that names none
    Responses,      \* response identities upstream may give
    Turns,          \* x-codex-turn-state identities
    Routes,         \* ContinuationOwner
    Plans,          \* what clients send, upstream answers and old workers write
    Keep,           \* continuationRetentionMs
    Room,           \* continuationCapacity
    ExpireBatch,    \* the rows one expire deletes at most
    MaxDays,        \* bound: the clock
    MaxStops,       \* bound: the times the owner stops
    Unset           \* no row, no alarm, no reply

Identities == Responses \cup Turns

ASSUME ContinuationsType ==
    /\ Nobody \notin Producers /\ Responses \cap Turns = {} /\ IsFiniteSet(Identities)
    /\ Unset \notin Int /\ Unset \notin Identities
    /\ Keep \in Nat \ {0} /\ ExpireBatch \in Nat \ {0} /\ Room \in Nat /\ MaxDays \in Nat

VARIABLES
    scope,      \* the owner: its table, its count, its alarm and its tail
    plan,       \* one of Plans
    producer,   \* the requests
    mail,       \* calls on their way to the owner
    day,        \* Date.now()
    stops       \* how often the owner stopped

continuationVars == <<scope, plan, producer, mail, day, stops>>

(* ToolKnowledge: what a response retains for its children to be billed    *)
(* by, and the union that gives doubt precedence.                          *)
ToolKnowledge == {"token_only", "hosted_tool_usage", "hosted_tool_fee", "unknown"}
Union(a, b) == IF "unknown" \in {a, b} THEN "unknown"
               ELSE IF "hosted_tool_fee" \in {a, b} THEN "hosted_tool_fee"
               ELSE IF "hosted_tool_usage" \in {a, b} THEN "hosted_tool_usage" ELSE "token_only"

(* A row of http_continuations; "none" is evidence that is NULL.           *)
Binding == [owner : Routes, by : Producers \cup {Nobody},
            proof : {"none", "pending"} \cup ToolKnowledge, expires : Nat]

Call == [by : Producers, action : {"register", "qualify"}, keys : SUBSET Identities,
         claim : Responses \cup {Unset}]

(* What the tail still has to do after a committed operation: set the      *)
(* alarm, then answer.                                                     *)
Idle == [kind |-> "idle", to |-> Nobody, reply |-> Unset, expires |-> 0]

(* One plan: what each request continues, on which route it is sent, the   *)
(* identities upstream gives it and the tools its own output retains; and  *)
(* the identities that workers of an older release register.               *)
Request == [continues : SUBSET Identities, owner : Routes, own : ToolKnowledge,
            turn : SUBSET Turns, id : Responses \cup {Unset}]
ASSUME UnsetIsNone ==
    Unset \notin Binding /\ Unset \notin Request /\ Unset \notin {"owned", "legacy_unknown"}

(* A request continues one response, its previous_response_id, at most.    *)
ASSUME PlansType ==
    \A x \in Plans :
        /\ x.request \in [Producers -> Request \cup {Unset}]
        /\ x.old \subseteq Identities \X Routes
        /\ \A p \in Producers : x.request[p] # Unset =>
              \A j, k \in x.request[p].continues \cap Responses : j = k

NewProducer ==
    [pc |-> "new", parent |-> "unknown", parents |-> {}, claim |-> Unset,
     reply |-> Unset, expires |-> 0]

ContinuationInit ==
    /\ scope = [rows |-> [k \in Identities |-> Unset], count |-> 0, alarm |-> Unset,
                tail |-> Idle, firing |-> FALSE, gap |-> FALSE]
    /\ plan \in Plans
    /\ producer = [p \in Producers |-> NewProducer]
    /\ mail = {} /\ day = 0 /\ stops = 0

-----------------------------------------------------------------------------
(* The table.                                                              *)

Bound(rows) == {k \in Identities : rows[k] # Unset}
(* get: an expired row is not seen, deleted or not.                        *)
Seen(rows) == {k \in Bound(rows) : rows[k].expires > day}
Expired(rows) == Bound(rows) \ Seen(rows)
Deleted(rows, ks) == [k \in Identities |-> IF k \in ks THEN Unset ELSE rows[k]]

(* expire: the oldest rows, a batch at a time.                             *)
Batches(rows) ==
    {ks \in SUBSET Expired(rows) :
        /\ Cardinality(ks) = Min({ExpireBatch, Cardinality(Expired(rows))})
        /\ \A k \in ks, j \in Expired(rows) \ ks : rows[k].expires <= rows[j].expires}

(* The conflicts of a registration, of a claim by w or of none.            *)
OwnerConflict(rows, ks, o) == \E k \in ks \cap Seen(rows) : rows[k].owner # o
MutProducerConflict(rows, ks, claim, w) ==
    \E k \in ks \cap Seen(rows) : rows[k].by # Nobody /\ k # claim
ProducerConflict(rows, ks, claim, w) ==
    \E k \in ks \cap Seen(rows) : rows[k].by # Nobody /\ ~(k = claim /\ rows[k].by = w)

Inserted(rows, ks, claim, w, o) ==
    [k \in Identities |->
        IF k \notin ks THEN rows[k]
        ELSE [owner |-> o, by |-> IF k = claim THEN w ELSE Nobody,
              proof |-> IF k = claim THEN "pending" ELSE "none", expires |-> day + Keep]]

(* The count after a deletion.                                             *)
MutRemaining(count, gone) == IF gone = {} THEN count ELSE count - 1
Remaining(count, gone) == count - Cardinality(gone)

(* register: conflicts are found before anything is deleted; a full table  *)
(* refuses after the deletions, which commit.                              *)
Registered(rows, count, ks, claim, w, o, batch) ==
    LET missing == ks \ Seen(rows)
        stale == ks \cap Expired(rows)
        left == Deleted(rows, stale \cup batch)
        number == Remaining(count, stale \cup batch)
    IN IF OwnerConflict(rows, ks, o) THEN [rows |-> rows, count |-> count, reply |-> "conflict"]
       ELSE IF ProducerConflict(rows, ks, claim, w)
            THEN [rows |-> rows, count |-> count, reply |-> "producer_conflict"]
       ELSE IF number + Cardinality(missing) > Room
            THEN [rows |-> left, count |-> number, reply |-> "capacity"]
       ELSE [rows |-> Inserted(left, missing, claim, w, o),
             count |-> number + Cardinality(missing), reply |-> "stored"]

(* The batch is taken from what the deletion of the own keys left.         *)
AfterOwn(ks) == Deleted(scope.rows, ks \cap Expired(scope.rows))

(* qualify: a compare-and-swap from this producer's pending claim.         *)
MutQualified(rows, k, w, o, knowledge) ==
    IF k \in Seen(rows) /\ rows[k].owner = o THEN "qualified" ELSE "conflict"
Qualified(rows, k, w, o, knowledge) ==
    IF k \notin Seen(rows) THEN "unavailable"
    ELSE IF rows[k].owner # o THEN "conflict"
    ELSE IF rows[k].by # w THEN "producer_conflict"
    ELSE IF rows[k].proof \in {"pending", knowledge} THEN "qualified" ELSE "producer_conflict"

Free == scope.tail = Idle

(* An operation of the tail commits; its alarm and its answer follow.      *)
Commit(rows, count, kind, to, reply, expires) ==
    scope' = [scope EXCEPT !.rows = rows, !.count = count,
                           !.tail = [kind |-> kind, to |-> to, reply |-> reply, expires |-> expires]]

Proof(p) == Union(producer[p].parent, plan.request[p].own)

HandleRegister(m) ==
    /\ Free /\ m \in mail /\ m.action = "register"
    /\ \E batch \in Batches(AfterOwn(m.keys)) :
         LET o == plan.request[m.by].owner
             r == Registered(scope.rows, scope.count, m.keys, m.claim, m.by, o, batch)
             claimed == r.reply = "stored" /\ m.claim # Unset
             reply == IF ~claimed THEN r.reply
                      ELSE IF r.rows[m.claim].proof = "none" THEN "legacy_unknown" ELSE "owned"
         IN Commit(r.rows, r.count, "call", m.by, reply,
                   IF claimed THEN r.rows[m.claim].expires ELSE 0)
    /\ mail' = mail \ {m}
    /\ UNCHANGED <<plan, producer, day, stops>>

HandleQualify(m) ==
    /\ Free /\ m \in mail /\ m.action = "qualify"
    /\ LET k == m.claim
           outcome == Qualified(scope.rows, k, m.by, plan.request[m.by].owner, Proof(m.by))
           rows == IF outcome = "qualified"
                   THEN [scope.rows EXCEPT ![k].proof = Proof(m.by)] ELSE scope.rows
       IN Commit(rows, scope.count, "call", m.by, outcome, 0)
    /\ mail' = mail \ {m}
    /\ UNCHANGED <<plan, producer, day, stops>>

(* A worker of an older release registers an identity without a claim.     *)
LegacyRegister(k, o) ==
    /\ Free
    /\ \E batch \in Batches(AfterOwn({k})) :
         LET r == Registered(scope.rows, scope.count, {k}, Unset, Nobody, o, batch)
         IN Commit(r.rows, r.count, "call", Nobody, Unset, 0)
    /\ UNCHANGED <<plan, producer, mail, day, stops>>

-----------------------------------------------------------------------------
(* The alarm and the tail.                                                 *)

NextDeadline == Min({scope.rows[k].expires : k \in Bound(scope.rows)})

(* The alarm after an operation: the earliest deadline, unless an earlier  *)
(* alarm is set; in the alarm's own handler none is.                       *)
Armed(current) ==
    IF Bound(scope.rows) = {} THEN Unset
    ELSE LET next == Max({day, NextDeadline})
         IN IF current = Unset \/ current > next THEN next ELSE current

(* The finally of serial, and the answer.                                  *)
Arm ==
    /\ ~Free
    /\ LET t == scope.tail IN
       /\ scope' = [scope EXCEPT !.alarm = Armed(IF t.kind = "alarm" THEN Unset ELSE @),
                                 !.tail = Idle, !.gap = FALSE]
       /\ producer' = IF t.to \notin Producers THEN producer
                      ELSE [producer EXCEPT ![t.to].reply = t.reply, ![t.to].expires =
                              IF producer[t.to].pc = "body" THEN t.expires ELSE @]
    /\ UNCHANGED <<plan, mail, day, stops>>

(* The runtime starts alarm(), which waits for the tail.                   *)
AlarmStarts ==
    /\ scope.alarm # Unset /\ scope.alarm <= day /\ ~scope.firing
    /\ scope' = [scope EXCEPT !.alarm = Unset, !.firing = TRUE]
    /\ UNCHANGED <<plan, producer, mail, day, stops>>

MutAlarmExpires ==
    /\ Free /\ scope.firing
    /\ \E batch \in Batches(scope.rows) :
         scope' = [scope EXCEPT !.rows = Deleted(@, batch), !.count = Remaining(@, batch),
                                !.firing = FALSE]
    /\ UNCHANGED <<plan, producer, mail, day, stops>>
AlarmExpires ==
    /\ Free /\ scope.firing
    /\ \E batch \in Batches(scope.rows) :
         scope' = [scope EXCEPT !.rows = Deleted(@, batch), !.count = Remaining(@, batch),
                                !.firing = FALSE, !.tail = [Idle EXCEPT !.kind = "alarm"]]
    /\ UNCHANGED <<plan, producer, mail, day, stops>>

(* The owner stops: what committed stays, an answer that was not sent is   *)
(* lost and so is the alarm that was not yet set.  An alarm whose handler  *)
(* had not finished is started again by the runtime.                       *)
OwnerStops ==
    /\ stops < MaxStops
    /\ LET again == scope.firing \/ scope.tail.kind = "alarm" IN
       scope' = [scope EXCEPT !.tail = Idle, !.firing = FALSE,
                              !.alarm = IF again THEN day ELSE @,
                              !.gap = @ \/ scope.tail.kind = "call"]
    /\ stops' = stops + 1
    /\ UNCHANGED <<plan, producer, mail, day>>

Tomorrow ==
    /\ day < MaxDays
    /\ day' = day + 1
    /\ UNCHANGED <<scope, plan, producer, mail, stops>>

-----------------------------------------------------------------------------
(* The producers.                                                          *)

(* The client has been shown the identity, whose row has not expired.      *)
Shown(p) == producer[p].claim # Unset /\ producer[p].expires > day

(* resolve and bind: identities that are all bound to one route pin the    *)
(* request to it; any other answer asks the client to restart.             *)
Resolve(p) ==
    /\ producer[p].pc = "new" /\ plan.request[p] # Unset
    /\ LET rows == scope.rows
           ks == plan.request[p].continues
           bound == ks \subseteq Seen(rows) /\ \A k \in ks : rows[k].owner = plan.request[p].owner
           parent == ks \cap Responses
           final == {rows[k].proof : k \in parent \cap Seen(rows)} \cap ToolKnowledge
       IN producer' = [producer EXCEPT ![p] =
            [@ EXCEPT !.pc = IF bound THEN "bound" ELSE "failed",
                      !.parent = IF parent = {} THEN "token_only"
                                 ELSE IF final = {} THEN "unknown" ELSE CHOOSE x \in final : TRUE,
                      !.parents = {q \in Producers : Shown(q) /\ plan.request[q].id \in parent}]]
    /\ UNCHANGED <<scope, plan, mail, day, stops>>

Flush(p, ks, claim) ==
    mail' = mail \cup {[by |-> p, action |-> "register", keys |-> ks, claim |-> claim]}

(* headers: a turn identity is registered before the headers are shown.    *)
Headers(p) ==
    /\ producer[p].pc = "bound"
    /\ LET turn == plan.request[p].turn IN
       /\ producer' = [producer EXCEPT ![p].pc = IF turn = {} THEN "streaming" ELSE "headers"]
       /\ IF turn = {} THEN UNCHANGED mail ELSE Flush(p, turn, Unset)
    /\ UNCHANGED <<scope, plan, day, stops>>

(* push and publish: the response identity is registered, with the turn    *)
(* and as this producer's claim, before the bytes that hold it are shown.  *)
Identify(p) ==
    /\ producer[p].pc = "streaming" /\ plan.request[p].id # Unset
    /\ producer' = [producer EXCEPT ![p].pc = "body"]
    /\ Flush(p, plan.request[p].turn \cup {plan.request[p].id}, plan.request[p].id)
    /\ UNCHANGED <<scope, plan, day, stops>>

(* The answer to a flush: anything but a stored binding fails the request. *)
FlushAnswered(p) ==
    /\ producer[p].pc \in {"headers", "body"} /\ producer[p].reply # Unset
    /\ LET reply == producer[p].reply
           owned == reply \in {"owned", "legacy_unknown"}
           next == IF producer[p].pc = "headers" THEN "streaming" ELSE "shown"
       IN producer' = [producer EXCEPT ![p] =
            [@ EXCEPT !.reply = Unset, !.pc = IF reply = "stored" \/ owned THEN next ELSE "failed",
                      !.claim = IF owned THEN reply ELSE producer[p].claim]]
    /\ UNCHANGED <<scope, plan, mail, day, stops>>

(* qualify, at the terminal frame, once, and only a claim that is owned.   *)
Qualify(p) ==
    /\ producer[p].pc = "shown"
    /\ IF producer[p].claim = "owned"
       THEN /\ producer' = [producer EXCEPT ![p].pc = "proving"]
            /\ mail' = mail \cup {[by |-> p, action |-> "qualify", keys |-> {plan.request[p].id},
                                   claim |-> plan.request[p].id]}
       ELSE /\ producer' = [producer EXCEPT ![p].pc = "done"]
            /\ UNCHANGED mail
    /\ UNCHANGED <<scope, plan, day, stops>>

QualifyAnswered(p) ==
    /\ producer[p].pc = "proving" /\ producer[p].reply # Unset
    /\ producer' = [producer EXCEPT ![p] =
         [@ EXCEPT !.reply = Unset,
                   !.pc = IF producer[p].reply \in {"qualified", "unavailable"} THEN "done" ELSE "failed"]]
    /\ UNCHANGED <<scope, plan, mail, day, stops>>

(* The five seconds of a call are over, or the client is gone or upstream  *)
(* changed its identity.  A flush that is given up fails the request; a    *)
(* lost proof does not.  The call itself may still arrive.                 *)
GiveUp(p) ==
    /\ producer[p].pc \in {"headers", "body", "shown", "proving"}
    /\ producer' = [producer EXCEPT ![p].pc =
                       IF @ \in {"headers", "body"} THEN "failed" ELSE "done"]
    /\ UNCHANGED <<scope, plan, mail, day, stops>>

CallLost(m) ==
    /\ m \in mail
    /\ mail' = mail \ {m}
    /\ UNCHANGED <<scope, plan, producer, day, stops>>

ContinuationNext ==
    \/ \E p \in Producers :
        \/ Resolve(p) \/ Headers(p) \/ Identify(p)
        \/ FlushAnswered(p) \/ Qualify(p) \/ QualifyAnswered(p) \/ GiveUp(p)
    \/ \E m \in mail : HandleRegister(m) \/ HandleQualify(m) \/ CallLost(m)
    \/ \E old \in plan.old : LegacyRegister(old[1], old[2])
    \/ Arm \/ AlarmStarts \/ AlarmExpires \/ OwnerStops \/ Tomorrow

ContinuationSpec == ContinuationInit /\ [][ContinuationNext]_continuationVars

-----------------------------------------------------------------------------

ContinuationTypeOK ==
    /\ scope.rows \in [Identities -> Binding \cup {Unset}]
    /\ scope.count \in 0..Room /\ scope.alarm \in Nat \cup {Unset}
    /\ mail \subseteq Call

(* An identity that the client was shown can be continued until it         *)
(* expires: it is bound to the route that produced it, and its evidence is *)
(* none (a row of an older release), or this producer's own and, once      *)
(* final, exactly what it proved ("never another producer's proof").       *)
ShownIsOwned ==
    \A p \in Producers : Shown(p) =>
        LET r == scope.rows[plan.request[p].id] IN
        /\ r # Unset /\ r.owner = plan.request[p].owner
        /\ r.by = Nobody \/ (r.by = p /\ r.proof \in {"pending", Proof(p)})

(* A request is admitted as token-only after a response only when that     *)
(* response proved it of itself and of all it continued.                   *)
InheritedIsProven ==
    \A p \in Producers : producer[p].pc # "new" /\ producer[p].parent # "unknown" =>
        \A q \in producer[p].parents : Proof(q) = producer[p].parent

(* The count that enforces the capacity is the number of rows, however     *)
(* registrations, expired keys, batches and refusals mix.                  *)
CountExact == scope.count = Cardinality(Bound(scope.rows))

(* The object's alarm is set for the earliest row, except from a stop      *)
(* between a commit and its alarm until the next operation.                *)
AlarmArmed ==
    Free /\ ~scope.firing /\ ~scope.gap /\ Bound(scope.rows) # {} =>
        scope.alarm # Unset /\ scope.alarm <= Max({day, NextDeadline})

(* The identities of a scope, whichever calls, proofs, expiries and stops  *)
(* of its owner interleave.                                                *)
ContinuationsHold ==
    /\ ContinuationTypeOK
    /\ ShownIsOwned /\ InheritedIsProven
    /\ CountExact /\ AlarmArmed
=============================================================================
