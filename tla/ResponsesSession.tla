-------------------------- MODULE ResponsesSession --------------------------
(***************************************************************************)
(* One client WebSocket of the Responses API                               *)
(* (worker/responses-websocket-session.ts, responses-websocket.ts).        *)
(*                                                                         *)
(* Creates queue on lanes (stream_id).  A lane runs one create at a time;  *)
(* admissions of all lanes are chained, and all share one upstream socket, *)
(* opened by the first.  A create that ended settles its accounting while  *)
(* the next one of its lane is already being admitted.  The session object *)
(* is one record; an action is what runs between two awaits.  Admission,   *)
(* accounting, the continuation store and the upstream are external.       *)
(***************************************************************************)
EXTENDS Integers, Sequences, FiniteSets, SequencesExt

CONSTANTS
    Creates,        \* the response.create events the client may send
    Lanes, Unnamed, \* stream ids, and the lane of events without one
    NoCreate, NoLane,
    ActiveLimit,    \* limits.active
    BufferLimit,    \* limits.buffered, of requests and of output frames
    LaneLimit,      \* limits.lanes, of named lanes
    InterruptLimit, \* limits.interrupts
    MaxLate,        \* bound: frames upstream sends of a finished response
    Scripts         \* bound: the lanes of the creates a client sends (NoLane:
                    \* not sent), and whether it interrupts none of them and
                    \* upstream sends only their first and last frame (calm)

ASSUME SessionAssumption ==
    /\ Unnamed \in Lanes /\ NoLane \notin Lanes
    /\ NoCreate \notin Creates /\ IsFiniteSet(Creates)
    /\ Scripts \subseteq [lane : [Creates -> Lanes \cup {NoLane}], calm : BOOLEAN]
    /\ {ActiveLimit, BufferLimit, LaneLimit, InterruptLimit, MaxLate} \subseteq Nat

VARIABLES
    script,   \* what this client does
    s,        \* the session object
    op,       \* its Operation of each create
    up,       \* external: how far upstream is with each create
    executed, \* external: the creates upstream has worked on
    late,     \* how many late frames there were
    bill,     \* external: what accounting was told of each create, in order
    stored,   \* external: the responses whose continuation is recorded
    told      \* the responses whose terminal frame reached the client

sessionVars == <<script, s, op, up, executed, late, bill, stored, told>>

Ops == [at : {"new", "queued", "waiting", "admitting", "connecting", "sending", "await", "left"},
        admitted : BOOLEAN, sent : BOOLEAN, started : BOOLEAN,
        response : Creates \cup {NoCreate},
        ending : {"none", "terminal", "error", "timeout", "closed"},
        settle : {"none", "publishing", "writing", "done"},
        prev : Creates \cup {NoCreate}, frame : BOOLEAN, lease : BOOLEAN]
NewOp == [at |-> "new", admitted |-> FALSE, sent |-> FALSE, started |-> FALSE,
          response |-> NoCreate, ending |-> "none", settle |-> "none",
          prev |-> NoCreate, frame |-> FALSE, lease |-> FALSE]

Kinds == {"created", "metadata", "delta", "terminal", "error", "ack"}
Frames == [op : Creates \cup {NoCreate}, kind : Kinds, bound : BOOLEAN, out : BOOLEAN]

(* The types of the session's fields.                                      *)
SessionTypeOK ==
    /\ script \in Scripts
    /\ op \in [Creates -> Ops]
    /\ s.lanes \in [Lanes -> Seq(Creates)] /\ s.order \in Seq(Lanes)
    /\ s.active \in [Lanes -> Creates \cup {NoCreate}]
    /\ s.dispatched \in [Lanes -> Creates \cup {NoCreate}]
    /\ s.terminals \in [Lanes -> Creates \cup {NoCreate}]
    /\ s.settling \in Seq(Creates) /\ s.chain \in Seq(Creates)
    /\ s.upstream \in {"none", "connecting", "open", "failed"} /\ s.ended \in BOOLEAN
    /\ s.wire \in Seq(Frames) /\ s.buffered \in Nat
    /\ s.interrupts \subseteq Creates /\ s.interruptCount \in 0..InterruptLimit
    /\ up \in [Creates -> {"idle", "asked", "running", "finished"}]
    /\ executed \cup stored \cup told \subseteq Creates /\ late \in 0..MaxLate
    /\ bill \in [Creates -> Seq({"free", "billed"})]

SessionInit ==
    /\ script \in Scripts
    /\ s = [lanes |-> [l \in Lanes |-> <<>>], order |-> <<>>,
            active |-> [l \in Lanes |-> NoCreate], settling |-> <<>>,
            dispatched |-> [l \in Lanes |-> NoCreate],
            terminals |-> [l \in Lanes |-> NoCreate],
            chain |-> <<>>, upstream |-> "none", ended |-> FALSE,
            wire |-> <<>>, buffered |-> 0, interrupts |-> {}, interruptCount |-> 0]
    /\ op = [c \in Creates |-> NewOp]
    /\ up = [c \in Creates |-> "idle"]
    /\ executed = {} /\ late = 0 /\ stored = {} /\ told = {}
    /\ bill = [c \in Creates |-> <<>>]

-----------------------------------------------------------------------------
(* The methods that others call: functions from the session and its        *)
(* operations, a pair x = [s, op], to what they leave behind.              *)
Now == [s |-> s, op |-> op]
Becomes(x) == s' = x.s /\ op' = x.op /\ UNCHANGED script
LaneOf(c) == script.lane[c]

Actives(x) == {x.s.active[l] : l \in Lanes} \ {NoCreate}
Busy(x) == Cardinality(Actives(x)) + Len(x.s.settling)

(* claim, and the synchronous part of finish                               *)
FinishOp(o, outcome) ==
    IF o.settle # "none" THEN o
    ELSE [o EXCEPT !.ending = IF @ = "none" THEN outcome ELSE @,
                   !.settle = IF o.admitted THEN "publishing" ELSE "none"]
Finish(x, c, outcome) == [x EXCEPT !.op[c] = FinishOp(@, outcome)]

(* releaseFrame, retire                                                    *)
MutReleaseFrame(x, c) == [x EXCEPT !.op[c].frame = FALSE, !.s.buffered = @ - 1]
ReleaseFrame(x, c) ==
    IF x.op[c].frame THEN [x EXCEPT !.op[c].frame = FALSE, !.s.buffered = @ - 1] ELSE x
MutRetire(x, c) == ReleaseFrame(x, c)
Retire(x, c) == [ReleaseFrame(x, c) EXCEPT !.op[c].lease = FALSE]

(* close: the queues are dropped, what runs or settles is finished.        *)
Close(x) ==
    LET queued == UNION {Range(x.s.lanes[l]) : l \in Lanes}
        doomed == Actives(x) \cup Range(x.s.settling)
    IN  IF x.s.ended THEN x
        ELSE [s |-> [x.s EXCEPT !.ended = TRUE, !.lanes = [l \in Lanes |-> <<>>],
                                !.buffered = @ - Cardinality(queued)],
              op |-> [c \in Creates |->
                        IF c \in queued
                        THEN [x.op[c] EXCEPT !.at = "left", !.frame = FALSE, !.lease = FALSE]
                        ELSE IF c \in doomed THEN FinishOp(x.op[c], "closed") ELSE x.op[c]]]

(* error: a notice to the client, whose socket may turn out closed.        *)
Notice(x) == {x, Close(x)}

(* schedule: one lane, then all in the order they were first used.         *)
MutPrevious(x, l) == NoCreate
Previous(x, l) ==
    LET i == SelectLastInSeq(x.s.settling, LAMBDA c : LaneOf(c) = l)
    IN  IF i = 0 THEN NoCreate ELSE x.s.settling[i]

ScheduleLane(x, l) ==
    IF Busy(x) >= ActiveLimit \/ x.s.active[l] # NoCreate \/ x.s.lanes[l] = <<>> THEN x
    ELSE LET c == Head(x.s.lanes[l])
         IN  [s |-> [x.s EXCEPT !.lanes[l] = Tail(@), !.active[l] = c, !.chain = Append(@, c)],
              op |-> [x.op EXCEPT ![c].at = "waiting", ![c].prev = Previous(x, l)]]
Schedule(x) ==
    LET after[n \in 0..Len(x.s.order)] ==
            IF n = 0 THEN x ELSE ScheduleLane(after[n - 1], x.s.order[n])
    IN  IF x.s.ended THEN x ELSE after[Len(x.s.order)]

(* active.delete, only while the lane still is this operation's.           *)
Vacate(x, c) ==
    [x EXCEPT !.s.active[LaneOf(c)] = IF @ = c THEN NoCreate ELSE @]
Unchain(x, c) == [x EXCEPT !.s.chain = IF @ # <<>> /\ Head(@) = c THEN Tail(@) ELSE @]
Leave(x, c) == [Unchain(x, c) EXCEPT !.op[c].at = "left"]

(* The end of a dispatch whose operation was never admitted.               *)
Discard(x, c) == Schedule(Vacate(Leave(Retire(x, c), c), c))

-----------------------------------------------------------------------------
(* Client events.                                                          *)

(* receive, accept: refused (malformed, too large, over the body budget or *)
(* a limit) or queued.                                                     *)
Enqueued(c) ==
    LET l == LaneOf(c)
        x == Now
        known == l \in Range(x.s.order)
        y == [s |-> [x.s EXCEPT !.lanes[l] = Append(@, c), !.buffered = @ + 1,
                                !.order = IF known THEN @ ELSE Append(@, l)],
              op |-> [x.op EXCEPT ![c].at = "queued", ![c].frame = TRUE, ![c].lease = TRUE]]
    IN  Schedule(y)
Fits(c) ==
    /\ LaneOf(c) \in Range(s.order) \cup {Unnamed}
          \/ Cardinality(Range(s.order) \ {Unnamed}) < LaneLimit
    /\ s.buffered < BufferLimit
Receive(c) ==
    /\ ~s.ended /\ op[c].at = "new" /\ LaneOf(c) # NoLane
    /\ \/ Fits(c) /\ Becomes(Enqueued(c))
       \/ \E x \in Notice(Now) : Becomes([x EXCEPT !.op[c].at = "left"])
    /\ UNCHANGED <<up, executed, late, bill, stored, told>>

(* interrupt: only for a response of this connection and lane.             *)
Interruptible(c) ==
    LET d == s.dispatched[LaneOf(c)]
    IN  \/ (IF d = NoCreate THEN FALSE ELSE op[d].response = c)
        \/ s.terminals[LaneOf(c)] = c \/ c \in s.interrupts
Interrupt(c) ==
    /\ ~s.ended /\ ~script.calm /\ LaneOf(c) # NoLane /\ Interruptible(c)
    /\ \/ s.interruptCount >= InterruptLimit /\ Becomes(Close(Now))
       \/ /\ s.interruptCount < InterruptLimit
          /\ LET x == [Now EXCEPT !.s.interrupts = @ \cup {c}, !.s.interruptCount = @ + 1]
             IN  \E y \in Notice(x) : Becomes(y)
    /\ UNCHANGED <<up, executed, late, bill, stored, told>>

(* A disconnect of either side, a protocol error, a limit of output or of  *)
(* the connection's time.                                                  *)
Disconnect ==
    /\ ~s.ended
    /\ Becomes(Close(Now))
    /\ UNCHANGED <<up, executed, late, bill, stored, told>>

-----------------------------------------------------------------------------
(* dispatch, one create at a time.                                         *)
Dispatch(c) ==
    /\ op[c].at = "waiting" /\ Head(s.chain) = c
    /\ Becomes(IF s.ended \/ op[c].ending # "none"
               THEN Vacate(Leave(Retire(Now, c), c), c)
               ELSE [Now EXCEPT !.op[c].at = "admitting"])
    /\ UNCHANGED <<up, executed, late, bill, stored, told>>

(* admit returned: the session may have ended meanwhile, the pin may       *)
(* differ, the time may be over; otherwise the upstream socket is opened.  *)
Admitted(c) ==
    LET x == [Now EXCEPT !.op[c].admitted = TRUE]
        await == [x EXCEPT !.op[c].at = "await"]
    IN  /\ op[c].at = "admitting"
        /\ \/ (s.ended \/ op[c].ending # "none") /\ Becomes(Finish(await, c, "closed"))
           \/ /\ ~s.ended /\ op[c].ending = "none"
              /\ \/ s.upstream # "none" /\ Becomes(Close(Leave(x, c)))
                 \/ Becomes(Close(Finish(Leave(x, c), c, "timeout")))
                 \/ Becomes([x EXCEPT !.op[c].at = "connecting",
                                      !.s.upstream = IF @ = "none" THEN "connecting" ELSE @])
        /\ UNCHANGED <<up, executed, late, bill, stored, told>>

(* admit threw: after the credential check it has settled the create       *)
(* itself.  A coded failure is reported, others and a failure of           *)
(* accounting close the session.                                           *)
AdmitFails(c) ==
    /\ op[c].at = "admitting"
    /\ \E accounted \in BOOLEAN :
         bill' = [bill EXCEPT ![c] = IF accounted THEN Append(@, "free") ELSE @]
    /\ \E y \in Notice(Finish(Now, c, "error")) : Becomes(Discard(y, c))
    /\ UNCHANGED <<up, executed, late, stored, told>>

(* The promise that opens the upstream socket.                             *)
Connected ==
    /\ s.upstream = "connecting"
    /\ Becomes([Now EXCEPT !.s.upstream = "open"])
    /\ UNCHANGED <<up, executed, late, bill, stored, told>>
ConnectFails(c) ==
    /\ op[c].at = "connecting" /\ s.upstream = "connecting"
    /\ Becomes(Close(Finish([Now EXCEPT !.op[c].at = "await", !.s.upstream = "failed"],
                            c, "error")))
    /\ UNCHANGED <<up, executed, late, bill, stored, told>>
ConnectReturns(c) ==
    /\ op[c].at = "connecting" /\ s.upstream = "open"
    /\ Becomes([Unchain(Now, c) EXCEPT !.op[c].at = "sending"])
    /\ UNCHANGED <<up, executed, late, bill, stored, told>>

(* sendOperation, after the settlement of the lane's previous turn.  The   *)
(* soft budget may deny it at the last moment; send may throw.             *)
PreviousSettled(c) == op[c].prev # NoCreate => op[op[c].prev].settle = "done"
MutSendable(c) == TRUE
Sendable(c) == ~s.ended /\ op[c].ending = "none"
SendOperation(c) ==
    /\ op[c].at = "sending" /\ PreviousSettled(c)
    /\ LET await == [Now EXCEPT !.op[c].at = "await"]
       IN  \/ /\ ~Sendable(c)
              /\ Becomes(Finish(await, c, "closed"))
              /\ UNCHANGED up
           \/ /\ Sendable(c)
              /\ \/ /\ Becomes([ReleaseFrame(Leave(Now, c), c) EXCEPT
                                  !.op[c].sent = TRUE, !.s.dispatched[LaneOf(c)] = c])
                    /\ up' = [up EXCEPT ![c] = "asked"]
                 \/ /\ \E x \in Notice(Finish(await, c, "error")) : Becomes(x)
                    /\ UNCHANGED up
    /\ UNCHANGED <<executed, late, bill, stored, told>>

(* timeout: the timer runs from schedule until the operation is claimed.   *)
Timeout(c) ==
    /\ c \in Actives(Now) /\ op[c].ending = "none"
    /\ Becomes(Close(Finish(Now, c, "timeout")))
    /\ UNCHANGED <<up, executed, late, bill, stored, told>>

-----------------------------------------------------------------------------
(* Upstream events.                                                        *)

(* publish: the output queue is bounded.                                   *)
Publish(x, c, kind) ==
    IF Len(x.s.wire) >= BufferLimit THEN Close(x)
    ELSE [x EXCEPT !.s.wire = Append(@, [op |-> c, kind |-> kind,
                                         bound |-> c = NoCreate, out |-> FALSE])]

(* upstreamMessage for a frame of response r (NoCreate: it names none) on  *)
(* lane l: which operation it belongs to, and what it may not be.          *)
MutForeign(l, kind, r) == s.dispatched[l] = NoCreate /\ (r # NoCreate \/ l = Unnamed)
Foreign(l, kind, r) ==
    LET c == s.dispatched[l]
    IN  \/ c = NoCreate /\ (r # NoCreate \/ l = Unnamed)
        \/ /\ c # NoCreate /\ r # NoCreate
           /\ \/ op[c].response = NoCreate /\ kind \notin {"created", "metadata"}
              \/ op[c].response # NoCreate /\ op[c].response # r
Ignored(l, kind, r) ==
    \/ kind = "terminal" /\ s.terminals[l] = r
    \/ s.dispatched[l] # NoCreate /\ op[s.dispatched[l]].ending # "none"

Attributed(x, l, kind, r) ==
    LET c == x.s.dispatched[l]
        y == IF r = NoCreate THEN x
             ELSE [x EXCEPT !.op[c].response = r, !.op[c].started = @ \/ kind = "created"]
        z == IF kind = "terminal" THEN [y EXCEPT !.s.terminals[l] = r] ELSE y
    IN  IF c = NoCreate THEN Publish(x, NoCreate, kind)
        ELSE IF kind \in {"terminal", "error"}
        THEN LET claimed == [z EXCEPT !.op[c].ending = kind]
             IN  Finish(Publish(claimed, c, kind), c, kind)
        ELSE Publish(z, c, kind)

UpstreamMessage(l, kind, r) ==
    \/ s.ended /\ UNCHANGED <<script, s, op>>
    \/ ~s.ended /\ Ignored(l, kind, r) /\ ~(kind = "error" /\ s.interruptCount > 0)
         /\ UNCHANGED <<script, s, op>>
    \/ ~s.ended /\ kind = "error" /\ s.interruptCount > 0 /\ Becomes(Close(Now))
    \/ ~s.ended /\ ~Ignored(l, kind, r)
         /\ Becomes(IF Foreign(l, kind, r) THEN Close(Now) ELSE Attributed(Now, l, kind, r))

(* What upstream sends of a create: it starts, goes on, ends once, and may *)
(* reject it; a frame of a finished response may be repeated.              *)
Upstream(c) ==
    /\ up[c] # "idle"
    /\ \E kind \in {"created", "metadata", "delta", "terminal", "error"} :
         /\ UpstreamMessage(LaneOf(c), kind, IF kind = "error" THEN NoCreate ELSE c)
         /\ script.calm => kind \notin {"metadata", "delta"}
         /\ CASE up[c] = "asked" -> kind \in {"created", "metadata", "error"}
              [] up[c] = "running" -> kind \in {"delta", "terminal", "error"}
              [] up[c] = "finished" -> kind \in {"delta", "terminal"} /\ late < MaxLate /\ ~script.calm
         /\ up' = [up EXCEPT ![c] = CASE kind = "created" -> "running"
                                      [] kind \in {"terminal", "error"} -> "finished"
                                      [] OTHER -> @]
         /\ executed' = IF kind = "created" THEN executed \cup {c} ELSE executed
         /\ late' = IF up[c] = "finished" THEN late + 1 ELSE late
    /\ UNCHANGED <<bill, stored, told>>

(* response.interrupt.accepted or failed                                   *)
InterruptAck(c) ==
    /\ ~s.ended /\ c \in s.interrupts
    /\ late < MaxLate /\ late' = late + 1
    /\ Becomes(Publish(Now, NoCreate, "ack"))
    /\ UNCHANGED <<up, executed, bill, stored, told>>

-----------------------------------------------------------------------------
(* The two chains of publish: bindings per operation, delivery per socket. *)
(* A frame that both are done with is no longer counted.                   *)
Settled(i, f) == IF f.bound /\ f.out THEN RemoveAt(s.wire, i) ELSE [s.wire EXCEPT ![i] = f]

Bind(i) ==
    LET f == s.wire[i]
    IN  /\ ~f.bound /\ \A j \in 1..(i - 1) : s.wire[j].op = f.op => s.wire[j].bound
        /\ \/ /\ Becomes([Now EXCEPT !.s.wire = Settled(i, [f EXCEPT !.bound = TRUE])])
              /\ stored' = IF s.ended \/ f.kind # "terminal" THEN stored ELSE stored \cup {f.op}
           \/ /\ ~s.ended
              /\ Becomes(Close([Now EXCEPT !.s.wire = Settled(i, [f EXCEPT !.bound = TRUE])]))
              /\ UNCHANGED stored
        /\ UNCHANGED <<up, executed, late, bill, told>>

MutDeliverReady(f) == TRUE
DeliverReady(f) == f.kind \in {"terminal", "error"} => f.bound
Deliver(i) ==
    LET f == s.wire[i]
        x == [Now EXCEPT !.s.wire = Settled(i, [f EXCEPT !.out = TRUE])]
    IN  /\ ~f.out /\ \A j \in 1..(i - 1) : s.wire[j].out
        /\ DeliverReady(f)
        /\ \/ /\ Becomes(x)
              /\ told' = IF s.ended \/ f.kind # "terminal" THEN told ELSE told \cup {f.op}
           \/ ~s.ended /\ Becomes(Close(x)) /\ UNCHANGED told
        /\ UNCHANGED <<up, executed, late, bill, stored>>

(* finish, once the last frame of the operation is published: the lane is  *)
(* free for its next create while this one settles.                        *)
Billable(o) == o.sent /\ (o.ending # "error" \/ o.started)
SettleStarts(c) ==
    /\ op[c].settle = "publishing" /\ \A i \in DOMAIN s.wire : s.wire[i].op # c
    /\ bill' = [bill EXCEPT ![c] = Append(@, IF Billable(op[c]) THEN "billed" ELSE "free")]
    /\ Becomes(Schedule(Vacate([Now EXCEPT !.s.settling = Append(@, c),
                                           !.op[c].settle = "writing"], c)))
    /\ UNCHANGED <<up, executed, late, stored, told>>

SettleEnds(c) ==
    /\ op[c].settle = "writing"
    /\ \E x \in Notice(Now) :   \* accounting could not finish: close
         LET y == [Retire(x, c) EXCEPT
                     !.op[c].settle = "done", !.s.settling = RemoveFirst(@, c),
                     !.s.dispatched[LaneOf(c)] = IF @ = c THEN NoCreate ELSE @]
         IN  Becomes(Schedule(Vacate(y, c)))
    /\ UNCHANGED <<up, executed, late, bill, stored, told>>

(* dispatch or sendOperation goes on after awaiting the settlement.        *)
AwaitReturns(c) ==
    /\ op[c].at = "await" /\ op[c].settle = "done"
    /\ Becomes(Leave(Now, c))
    /\ UNCHANGED <<up, executed, late, bill, stored, told>>

-----------------------------------------------------------------------------
SessionStep(c) ==
    \/ Dispatch(c) \/ Admitted(c) \/ AdmitFails(c)
    \/ ConnectFails(c) \/ ConnectReturns(c) \/ SendOperation(c)
    \/ SettleStarts(c) \/ SettleEnds(c) \/ AwaitReturns(c)
Wire == \E i \in DOMAIN s.wire : Bind(i) \/ Deliver(i)

SessionNext ==
    \/ Disconnect \/ Connected \/ Wire
    \/ \E c \in Creates :
         \/ Receive(c) \/ Interrupt(c) \/ Upstream(c) \/ InterruptAck(c)
         \/ SessionStep(c) \/ Timeout(c)

SessionSpec == SessionInit /\ [][SessionNext]_sessionVars

(* The runtime runs every callback that is due and fires every timer.      *)
SessionFairness ==
    /\ \A c \in Creates : WF_sessionVars(SessionStep(c)) /\ WF_sessionVars(Timeout(c))
    /\ WF_sessionVars(Connected \/ \E c \in Creates : ConnectFails(c))
    /\ WF_sessionVars(Wire)

-----------------------------------------------------------------------------
(* A create is settled at most once, by admit or by finish, and never sent *)
(* after accounting was told that it cost nothing.                         *)
SettledOnce ==
    \A c \in Creates : /\ Len(bill[c]) <= 1
                       /\ bill[c] = <<"free">> => c \notin executed

(* Two turns of one lane never overlap upstream: while one that was sent   *)
(* is not settled, no other of its lane has been sent after it.            *)
NoOverlap ==
    \A c, d \in Creates :
        /\ c # d /\ LaneOf(c) = LaneOf(d)
        /\ op[c].sent /\ op[d].sent
        => op[c].settle = "done" \/ op[d].settle = "done"

(* Frames bind their own operation: a late frame of the previous turn      *)
(* never names or ends the next one.                                       *)
OwnFrames ==
    \A c \in Creates : /\ op[c].response \in {NoCreate, c}
                       /\ op[c].ending = "terminal" => up[c] = "finished"

(* The client has seen a response end only when its continuation is        *)
(* recorded, so a previous_response_id it sends next can be resolved.      *)
ToldIsStored == told \subseteq stored

(* The counters of buffered requests, and the body leases, are held by     *)
(* operations that have not left; work in progress keeps to its limit.     *)
BuffersExact ==
    /\ s.buffered = Cardinality({c \in Creates : op[c].frame})
    /\ \A c \in Creates : op[c].frame => op[c].lease
    /\ Busy(Now) <= ActiveLimit

(* After the session has ended everything it holds is given back and every *)
(* admitted create is settled.                                             *)
Drained ==
    /\ s.wire = <<>> /\ s.settling = <<>> /\ s.buffered = 0
    /\ \A c \in Creates : ~op[c].lease /\ (op[c].admitted => Len(bill[c]) = 1)
EndedDrains == s.ended ~> Drained

(* Creates are accounted for: each is settled once, truthfully, and the    *)
(* bytes and slots it held are given back once.                            *)
CreatesSettle == SessionTypeOK /\ SettledOnce /\ BuffersExact

(* A lane is a conversation: one turn at a time, every frame to its own    *)
(* turn, and an end shown only when the client can continue from it.       *)
LaneKept == NoOverlap /\ OwnFrames /\ ToldIsStored
=============================================================================
