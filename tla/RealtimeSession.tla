-------------------------- MODULE RealtimeSession --------------------------
(***************************************************************************)
(* A Realtime audio socket (worker/realtime-session.ts), its guards        *)
(* (realtime-websocket.ts) and the units of accounting it holds            *)
(* (realtime-accounting.ts).                                               *)
(*                                                                         *)
(* Events of both sides run one after the other on one tail; a handler may *)
(* await a guard, a funding or a settlement, and only close runs meanwhile.*)
(* An event that fails a check closes the socket (Shut).  Every response,  *)
(* and every stretch of transcribed input, is funded by a unit before its  *)
(* first byte leaves, and each unit is settled by whoever owns it last.    *)
(* Audio is counted in chunks.                                             *)
(***************************************************************************)
EXTENDS Naturals, Sequences, FiniteSets

CONSTANTS
    Units,      \* bound: the units a session can fund, a set of numbers
    NoUnit,
    MaxBuffer,  \* audio_buffer_limit, in chunks
    MaxAuto     \* bound: automatic responses waiting (REALTIME.turns)

ASSUME RealtimeAssumption ==
    Units \subseteq Nat /\ NoUnit \notin Units /\ {MaxBuffer, MaxAuto} \subseteq Nat

VARIABLES
    rt,     \* the session object
    run,    \* where the handler at the head of the tail waits
    unit,   \* the receipts: none, funded or settled
    ledger, \* external: what accounting was told of each unit, in order
    egress  \* external: the units under which upstream got work it did not reject

realtimeVars == <<rt, run, unit, ledger, egress>>

Owners == Units \cup {NoUnit}
Policies == [vad : BOOLEAN, asr : BOOLEAN, auto : BOOLEAN]
NoPolicy == [vad |-> FALSE, asr |-> FALSE, auto |-> FALSE]

(* The types of the session's fields.                                      *)
RealtimeTypeOK ==
    /\ rt \in [closed : BOOLEAN, cleaned : BOOLEAN, ready : BOOLEAN, pending : BOOLEAN,
               policy : Policies, active : Owners, funded : BOOLEAN, sent : BOOLEAN,
               response : BOOLEAN, settled : BOOLEAN,
               inputBuffer : Owners, inputSent : BOOLEAN, inputUnits : SUBSET Units,
               buffer : 0..MaxBuffer, end : 0..MaxBuffer,
               speech : BOOLEAN, commitPending : BOOLEAN, commitReady : BOOLEAN,
               clearPending : BOOLEAN, autoPending : 0..MaxAuto]
    /\ run.at \in {"idle", "update", "toggle", "append", "fundInput", "appendGuard",
                   "fund", "createGuard", "abandon", "done", "cleared", "transcribed"}
    /\ run.unit \in Owners
    /\ unit \in [Units -> {"none", "funded", "settled"}]
    /\ ledger \in [Units -> Seq({"free", "billed"})]
    /\ egress \subseteq Units

Idle == [at |-> "idle", unit |-> NoUnit]
Await(at, u) == [at |-> at, unit |-> u]

RealtimeInit ==
    /\ rt = [closed |-> FALSE, cleaned |-> FALSE, ready |-> FALSE, pending |-> FALSE,
             policy |-> NoPolicy, active |-> NoUnit, funded |-> FALSE, sent |-> FALSE,
             response |-> FALSE, settled |-> FALSE,
             inputBuffer |-> NoUnit, inputSent |-> FALSE, inputUnits |-> {},
             buffer |-> 0, end |-> 0,
             speech |-> FALSE, commitPending |-> FALSE, commitReady |-> FALSE,
             clearPending |-> FALSE, autoPending |-> 0]
    /\ run = Idle
    /\ unit = [u \in Units |-> "none"]
    /\ ledger = [u \in Units |-> <<>>]
    /\ egress = {}

-----------------------------------------------------------------------------
Open == ~rt.closed /\ run = Idle
Ready == Open /\ rt.ready /\ ~rt.pending

(* The unit that session x funds next: the first one never used.           *)
Unused(x) == {u \in Units \ {x.active, x.inputBuffer} : unit[u] = "none"}
Fresh(x, u) == u \in Unused(x) /\ \A v \in Unused(x) : u <= v

(* settle of a unit: once, whoever asks (fundRealtimeUnit, owned).         *)
MutSettle(S, billed) ==
    /\ unit' = [u \in Units |-> IF u \in S THEN "settled" ELSE unit[u]]
    /\ ledger' = [u \in Units |->
                    IF u \in S THEN Append(ledger[u], IF u \in billed THEN "billed" ELSE "free")
                    ELSE ledger[u]]
Settle(S, billed) ==
    LET due == {u \in S : unit[u] = "funded"}
    IN  /\ unit' = [u \in Units |-> IF u \in due THEN "settled" ELSE unit[u]]
        /\ ledger' = [u \in Units |->
                        IF u \in due
                        THEN Append(ledger[u], IF u \in billed THEN "billed" ELSE "free")
                        ELSE ledger[u]]

(* close is synchronous; what is owned is settled later, on the tail.      *)
Shut(x) == [x EXCEPT !.closed = TRUE]
CloseRealtime ==
    /\ ~rt.closed
    /\ rt' = Shut(rt)
    /\ UNCHANGED <<run, unit, ledger, egress>>
MutCleanup ==
    /\ rt.closed /\ ~rt.cleaned /\ run = Idle
    /\ rt' = [rt EXCEPT !.cleaned = TRUE]
    /\ LET turn == IF rt.active # NoUnit /\ rt.funded /\ ~rt.settled THEN {rt.active} ELSE {}
       IN  Settle(rt.inputUnits \cup turn,
                  rt.inputUnits \cup (IF rt.sent THEN turn ELSE {}))
    /\ UNCHANGED <<run, egress>>
Cleanup ==
    /\ rt.closed /\ ~rt.cleaned /\ run = Idle
    /\ rt' = [rt EXCEPT !.cleaned = TRUE]
    /\ LET turn == IF rt.active # NoUnit /\ rt.funded /\ ~rt.settled THEN {rt.active} ELSE {}
           input == {rt.inputBuffer} \ {NoUnit}
       IN  Settle(rt.inputUnits \cup input \cup turn,
                  rt.inputUnits \cup (IF rt.inputSent THEN input ELSE {}) \cup (IF rt.sent THEN turn ELSE {}))
    /\ UNCHANGED <<run, egress>>

(* A guard that is refused or times out closes the session.                *)
GuardFails ==
    /\ run.at \in {"update", "toggle", "append", "appendGuard", "createGuard"}
    /\ rt' = Shut(rt) /\ run' = Idle
    /\ UNCHANGED <<unit, ledger, egress>>

-----------------------------------------------------------------------------
(* session.update: the whole policy through upstream, or only the local    *)
(* flag of automatic responses.                                            *)
Update ==
    /\ Open /\ ~rt.pending /\ rt.active = NoUnit /\ rt.buffer = 0 /\ ~rt.commitPending
    /\ ~rt.commitReady /\ ~rt.clearPending /\ rt.inputUnits = {}
    /\ run' = Await("update", NoUnit)
    /\ UNCHANGED <<rt, unit, ledger, egress>>
UpdateGuarded ==
    /\ run.at = "update" /\ run' = Idle
    /\ IF rt.closed THEN UNCHANGED rt
       ELSE \E p \in Policies : /\ rt.ready => p = rt.policy
                                /\ p.auto => p.vad
                                /\ rt' = [rt EXCEPT !.pending = TRUE, !.policy = p]
    /\ UNCHANGED <<unit, ledger, egress>>
Updated ==
    /\ Open /\ rt.pending
    /\ rt' = [rt EXCEPT !.pending = FALSE, !.ready = TRUE]
    /\ UNCHANGED <<run, unit, ledger, egress>>
Toggle ==
    /\ Ready /\ rt.policy.vad
    /\ run' = Await("toggle", NoUnit)
    /\ UNCHANGED <<rt, unit, ledger, egress>>
ToggleGuarded ==
    /\ run.at = "toggle" /\ run' = Idle
    /\ rt' = IF rt.closed THEN rt ELSE [rt EXCEPT !.policy.auto = ~@]
    /\ UNCHANGED <<unit, ledger, egress>>

(* input_audio_buffer.append: guarded; transcribed input is funded before  *)
(* its first byte, and the authority is checked again after the funding.   *)
AppendAudio ==
    /\ Ready /\ ~rt.commitPending /\ ~rt.clearPending
    /\ ~rt.policy.vad => rt.active = NoUnit /\ ~rt.commitReady
    /\ run' = Await("append", NoUnit)
    /\ UNCHANGED <<rt, unit, ledger, egress>>
MutForward ==
    /\ run' = Idle
    /\ IF rt.closed THEN UNCHANGED <<rt, egress>>
       ELSE /\ rt' = [rt EXCEPT !.buffer = @ + 1, !.inputSent = rt.inputBuffer # NoUnit]
            /\ egress' = egress \cup ({rt.inputBuffer} \ {NoUnit})
Forward ==
    /\ run' = Idle
    /\ IF rt.closed THEN UNCHANGED <<rt, egress>>
       ELSE IF rt.buffer >= MaxBuffer THEN rt' = Shut(rt) /\ UNCHANGED egress
       ELSE /\ rt' = [rt EXCEPT !.buffer = @ + 1, !.inputSent = rt.inputBuffer # NoUnit]
            /\ egress' = egress \cup ({rt.inputBuffer} \ {NoUnit})
MutUnfunded == rt.policy.asr /\ rt.inputBuffer = NoUnit /\ rt.inputUnits = {}
Unfunded == rt.policy.asr /\ rt.inputBuffer = NoUnit
AppendGuarded ==
    /\ run.at = "append"
    /\ IF ~rt.closed /\ Unfunded
       THEN \E u \in Units : Fresh(rt, u) /\ run' = Await("fundInput", u) /\ UNCHANGED <<rt, egress>>
       ELSE Forward
    /\ UNCHANGED <<unit, ledger>>
FundInput ==
    /\ run.at = "fundInput"
    /\ unit' = [unit EXCEPT ![run.unit] = "funded"]
    /\ rt' = [rt EXCEPT !.inputBuffer = run.unit, !.inputSent = FALSE]
    /\ run' = IF rt.closed THEN Idle ELSE Await("appendGuard", NoUnit)
    /\ UNCHANGED <<ledger, egress>>
AppendFundedGuarded == run.at = "appendGuard" /\ Forward /\ UNCHANGED <<unit, ledger>>

(* The check before funding failed, or fundRealtimeUnit threw: then it has *)
(* settled the unit it could not return.                                   *)
FundFails ==
    /\ run.at \in {"fundInput", "fund"}
    /\ \/ UNCHANGED <<unit, ledger>>
       \/ /\ unit' = [unit EXCEPT ![run.unit] = "settled"]
          /\ ledger' = [ledger EXCEPT ![run.unit] = Append(@, "free")]
    /\ rt' = Shut(rt) /\ run' = Idle
    /\ UNCHANGED egress

CommitAudio ==
    /\ Ready /\ rt.active = NoUnit /\ ~rt.commitPending /\ ~rt.commitReady
    /\ ~rt.clearPending /\ rt.buffer > 0
    /\ rt' = [rt EXCEPT !.commitPending = TRUE]
    /\ UNCHANGED <<run, unit, ledger, egress>>
ClearAudio ==
    /\ Ready /\ ~rt.commitPending /\ ~rt.commitReady /\ ~rt.clearPending
    /\ rt' = [rt EXCEPT !.clearPending = TRUE]
    /\ UNCHANGED <<run, unit, ledger, egress>>

-----------------------------------------------------------------------------
(* createResponse up to its first await, and automaticResponse.            *)
Creating(x, u) == [x EXCEPT !.active = u, !.funded = FALSE, !.sent = FALSE,
                            !.response = FALSE, !.settled = FALSE]
MutAutomatic(x) == rt' = x /\ run' = Idle
Automatic(x) ==
    IF x.closed \/ x.active # NoUnit \/ x.autoPending = 0
    THEN rt' = x /\ run' = Idle
    ELSE \E u \in Units : /\ Fresh(x, u)
                          /\ rt' = Creating([x EXCEPT !.autoPending = @ - 1], u)
                          /\ run' = Await("fund", u)

(* response.create                                                         *)
CreateResponse ==
    /\ Ready /\ rt.active = NoUnit /\ rt.autoPending = 0 /\ ~rt.commitPending
    /\ ~rt.clearPending /\ (rt.policy.vad \/ rt.buffer = 0)
    /\ \E u \in Units : Fresh(rt, u) /\ rt' = Creating(rt, u) /\ run' = Await("fund", u)
    /\ UNCHANGED <<unit, ledger, egress>>
Funded ==
    /\ run.at = "fund"
    /\ unit' = [unit EXCEPT ![run.unit] = "funded"]
    /\ rt' = [rt EXCEPT !.funded = TRUE]
    /\ run' = Await(IF rt.closed THEN "abandon" ELSE "createGuard", NoUnit)
    /\ UNCHANGED <<ledger, egress>>
Abandon ==
    /\ run.at = "abandon"
    /\ rt' = [rt EXCEPT !.settled = TRUE] /\ run' = Idle
    /\ Settle({rt.active}, {})
    /\ UNCHANGED egress
CreateGuarded ==
    /\ run.at = "createGuard" /\ run' = Idle
    /\ IF rt.closed THEN UNCHANGED <<rt, egress>>
       ELSE /\ rt' = [rt EXCEPT !.sent = TRUE, !.commitReady = FALSE]
            /\ egress' = egress \cup {rt.active}
    /\ UNCHANGED <<unit, ledger>>

-----------------------------------------------------------------------------
(* Events of upstream.  Voice detection marks an utterance and how much of *)
(* the buffer it takes.                                                    *)
SpeechStarted ==
    /\ Open /\ rt.ready /\ rt.policy.vad /\ rt.buffer > 0 /\ ~rt.speech
    /\ rt' = [rt EXCEPT !.speech = TRUE, !.end = 0]
    /\ UNCHANGED <<run, unit, ledger, egress>>
SpeechStopped ==
    /\ Open /\ rt.ready /\ rt.policy.vad /\ rt.speech /\ rt.end = 0
    /\ \E k \in 1..rt.buffer : rt' = [rt EXCEPT !.end = k]
    /\ UNCHANGED <<run, unit, ledger, egress>>

(* input_audio_buffer.committed: the buffer's unit belongs to the new item *)
(* and a child of it (fork) to the media that was sent after its end.      *)
Committed ==
    LET explicit == rt.commitPending
        automatic == ~explicit /\ rt.policy.auto
        rest == IF explicit THEN 0 ELSE rt.buffer - rt.end
        owned == {rt.inputBuffer} \ {NoUnit}
        after(child) ==
            [rt EXCEPT !.buffer = rest, !.inputUnits = @ \cup owned, !.inputBuffer = child,
                       !.inputSent = child # NoUnit,
                       !.speech = FALSE, !.end = 0, !.commitPending = FALSE, !.commitReady = TRUE,
                       !.autoPending = IF automatic THEN @ + 1 ELSE @]
        goOn(x) == IF automatic THEN Automatic(x) ELSE rt' = x /\ run' = Idle
    IN  /\ Open /\ rt.ready /\ (explicit \/ (rt.policy.vad /\ rt.speech /\ rt.end > 0))
        /\ automatic => rt.autoPending < MaxAuto
        /\ IF owned # {} /\ rest > 0
           THEN \E u \in Units :   \* a child receipt of media already admitted
                  /\ Fresh(rt, u)
                  /\ unit' = [unit EXCEPT ![u] = "funded"]
                  /\ egress' = egress \cup {u}
                  /\ goOn(after(u))
           ELSE UNCHANGED <<unit, egress>> /\ goOn(after(NoUnit))
        /\ UNCHANGED ledger

(* A settlement that fails closes the session; the unit stays settled.     *)
SettleReturns(x) ==
    \/ Automatic(x)
    \/ rt' = Shut(rt) /\ run' = Idle

(* input_audio_transcription.completed or failed                           *)
Transcribed ==
    /\ Open
    /\ \E u \in rt.inputUnits : Settle({u}, {u}) /\ run' = Await("transcribed", u)
    /\ UNCHANGED <<rt, egress>>
TranscribedReturns ==
    /\ run.at = "transcribed" /\ run' = Idle
    /\ \/ rt' = [rt EXCEPT !.inputUnits = @ \ {run.unit}]
       \/ rt' = Shut(rt)
    /\ UNCHANGED <<unit, ledger, egress>>

(* input_audio_buffer.cleared                                              *)
Cleared ==
    /\ Open /\ rt.clearPending
    /\ rt' = [rt EXCEPT !.clearPending = FALSE, !.buffer = 0]
    /\ Settle({rt.inputBuffer} \ {NoUnit}, IF rt.inputSent THEN {rt.inputBuffer} ELSE {})
    /\ run' = Await("cleared", NoUnit)
    /\ UNCHANGED egress
ClearedReturns ==
    /\ run.at = "cleared" /\ run' = Idle
    /\ \/ rt' = [rt EXCEPT !.inputBuffer = NoUnit, !.speech = FALSE, !.end = 0]
       \/ rt' = Shut(rt)
    /\ UNCHANGED <<unit, ledger, egress>>

ResponseCreated ==
    /\ Open /\ rt.sent /\ ~rt.response
    /\ rt' = [rt EXCEPT !.response = TRUE]
    /\ UNCHANGED <<run, unit, ledger, egress>>

(* response.done, and the error that rejects a create before it started.   *)
ResponseEnds ==
    /\ Open /\ rt.sent /\ rt.active # NoUnit
    /\ rt' = [rt EXCEPT !.settled = TRUE]
    /\ \/ rt.response /\ Settle({rt.active}, {rt.active}) /\ UNCHANGED egress
       \/ ~rt.response /\ Settle({rt.active}, {}) /\ egress' = egress \ {rt.active}
    /\ run' = Await("done", NoUnit)
EndReturns ==
    /\ run.at = "done"
    /\ SettleReturns([rt EXCEPT !.active = NoUnit, !.funded = FALSE, !.sent = FALSE,
                                !.response = FALSE, !.settled = FALSE])
    /\ UNCHANGED <<unit, ledger, egress>>

-----------------------------------------------------------------------------
RealtimeStep ==
    \/ UpdateGuarded \/ ToggleGuarded \/ AppendGuarded \/ FundInput \/ AppendFundedGuarded
    \/ GuardFails \/ FundFails \/ Funded \/ Abandon \/ CreateGuarded
    \/ TranscribedReturns \/ ClearedReturns \/ EndReturns \/ Cleanup

RealtimeNext ==
    \/ RealtimeStep \/ CloseRealtime
    \/ Update \/ Updated \/ Toggle \/ AppendAudio \/ CommitAudio \/ ClearAudio
    \/ CreateResponse \/ SpeechStarted \/ SpeechStopped \/ Committed
    \/ Transcribed \/ Cleared \/ ResponseCreated \/ ResponseEnds

RealtimeSpec == RealtimeInit /\ [][RealtimeNext]_realtimeVars

(* Guards and fundings have deadlines, settlements answer or fail.         *)
RealtimeFairness == WF_realtimeVars(RealtimeStep)

-----------------------------------------------------------------------------
(* Whatever closes the session and whenever, a unit is settled at most     *)
(* once, and as free only when nothing was sent under it.                  *)
UnitsSettledOnce ==
    \A u \in Units : Len(ledger[u]) <= 1 /\ (ledger[u] = <<"free">> => u \notin egress)

(* Media that is transcribed is in upstream's buffer only under a receipt  *)
(* that is still open, distinct from those of the committed items.         *)
MediaIsFunded ==
    rt.policy.asr /\ rt.buffer > 0 /\ ~rt.closed =>
        /\ rt.inputBuffer # NoUnit /\ unit[rt.inputBuffer] = "funded"
        /\ rt.inputBuffer \notin rt.inputUnits

(* An automatic response that had to wait for the running one is not       *)
(* forgotten when that one ends.                                           *)
NoLostAutomatic == Open /\ rt.autoPending > 0 => rt.active # NoUnit

(* A session that closed gives back every receipt it held.                 *)
ClosedSettles == rt.closed ~> \A u \in Units : unit[u] # "funded"

(* What the provider is paid for in a realtime session is funded: media by *)
(* an open receipt, an automatic response by a unit of its own, each unit  *)
(* settled once (realtime-session.ts).                                     *)
UnitsFunded == RealtimeTypeOK /\ UnitsSettledOnce /\ MediaIsFunded /\ NoLostAutomatic
=============================================================================
