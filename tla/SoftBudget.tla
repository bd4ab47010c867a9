----------------------------- MODULE SoftBudget -----------------------------
(***************************************************************************)
(* Soft budget admission (worker/soft-budget.ts) and the dispatcher around *)
(* it (worker/proxy.ts; worker/responses-websocket.ts for shared lanes).   *)
(*                                                                         *)
(* The ledger's status is read while the provider works.  A turn is        *)
(* refused before dispatch only by a zero limit or by an exhaustion this   *)
(* isolate observed a moment ago; a late status stops a turn that has not  *)
(* begun delivery, and otherwise only informs the next ones.  The window   *)
(* of a leg is one period.  What the ledger answers may fall within it:    *)
(* it counts the holds of requests that reserve on the same leg, and an    *)
(* answer may take any time, so a refusal can be out of date; the question *)
(* is by how much.                                                         *)
(***************************************************************************)
EXTENDS Integers

CONSTANTS SoftTurns,     \* requests of one isolate
          SharedLane,    \* the ones on a WebSocket lane: no abort
          SoftLegs,      \* budget legs of the plan
          SoftLimits,    \* limits an administrator configures
          FreshFor,      \* config.freshMs, in ticks
          MaxSoftTime,   \* bound: the clock
          MaxSoftSpent,  \* bound: what a leg's ledger counts
          Nobody         \* the cause of a refusal that had none

ASSUME SoftBudgetType ==
  /\ "none" \notin SoftLegs /\ SoftLimits \subseteq Nat /\ FreshFor \in Nat
  /\ Nobody \notin SoftTurns

VARIABLES softNow,     \* hotCacheNow
          softLimit,   \* the configured limit of each leg
          softCharged, \* final receipts in the window of each leg
          softHeld,    \* reservations in it that are not settled
          mark,        \* exhausted: expiry by leg id, 0 for no entry
          turn,        \* the requests
          lastHeard,   \* history: whose status last said something of a leg id
          softFull     \* history: the legs that were full while a turn asked

softLedger  == <<softCharged, softHeld, softFull>>
softVars == <<softNow, softLimit, softLedger, mark, turn, lastHeard>>

(* The id of a leg names its limit: an entry observed under one limit says *)
(* nothing about another.                                                  *)
MutLegId(l, limit) == <<l, 0>>
LegId(l, limit) == <<l, limit>>
Marks == SoftLegs \X (SoftLimits \cup {0})
MutStillFresh(l, limit) == mark[LegId(l, limit)] # 0
StillFresh(l, limit) == mark[LegId(l, limit)] > softNow

IdleTurn == [pc |-> "idle", limit |-> [l \in SoftLegs |-> 0],
             read |-> [l \in SoftLegs |-> "none"],
             seen |-> [l \in SoftLegs |-> 0],
             denial |-> "none", delivered |-> FALSE,
             \* History: when it heard of a leg, whose observation refused
             \* it and when.
             heard |-> [l \in SoftLegs |-> 0],
             cause |-> Nobody, refused |-> 0]

(* effectiveSpent: unsettled reservations count like final charges.        *)
EffectiveSpent(l) == softCharged[l] + softHeld[l]

(* The turns, of those that ask, whose limit the totals of the legs reach. *)
FullFor(turns, total) ==
  {f \in SoftTurns \X SoftLegs : /\ turns[f[1]].read[f[2]] = "sent"
                                /\ turns[f[1]].limit[f[2]] <= total[f[2]]}

SoftInit ==
  /\ softNow = 1
  /\ softLimit \in [SoftLegs -> SoftLimits]
  /\ softCharged = [l \in SoftLegs |-> 0] /\ softHeld = [l \in SoftLegs |-> 0]
  /\ mark = [m \in Marks |-> 0]
  /\ turn = [t \in SoftTurns |-> IdleTurn]
  /\ lastHeard = [m \in Marks |-> Nobody]
  /\ softFull = {}

(***************************************************************************)
(* softBudgetPreflight: nothing is sent for a leg that has a zero limit or *)
(* is known to be exhausted.                                               *)
(***************************************************************************)
Preflight(t) ==
  /\ turn[t].pc = "idle"
  /\ LET bad == {l \in SoftLegs : softLimit[l] = 0 \/ StillFresh(l, softLimit[l])}
     IN IF bad # {}
        THEN \E l \in bad :
               turn' = [turn EXCEPT ![t].pc = "refused", ![t].limit = softLimit,
                          ![t].denial = l, ![t].refused = softNow,
                          ![t].cause = lastHeard[LegId(l, softLimit[l])]]
        ELSE turn' = [turn EXCEPT ![t].pc = "cleared", ![t].limit = softLimit]
  /\ UNCHANGED <<softNow, softLimit, softLedger, mark, lastHeard>>

(* The fetch, and beside it the status reads of all legs.                  *)
SendTurn(t) ==
  /\ turn[t].pc = "cleared"
  /\ turn' = [turn EXCEPT ![t].pc = "upstream", ![t].read = [l \in SoftLegs |-> "sent"]]
  /\ softFull' = softFull \cup FullFor(turn', [l \in SoftLegs |-> EffectiveSpent(l)])
  /\ UNCHANGED <<softNow, softLimit, softCharged, softHeld, mark, lastHeard>>

(* The ledger answers /status: what it counts at that moment.              *)
LedgerStatus(t, l) ==
  /\ turn[t].read[l] = "sent"
  /\ turn' = [turn EXCEPT ![t].read[l] = "answered", ![t].seen[l] = EffectiveSpent(l)]
  /\ UNCHANGED <<softNow, softLimit, softLedger, mark, lastHeard>>

(* A denial stops the turn: the abort ends the fetch, and a turn that has  *)
(* its headers is refused when beforeDelivery returns.                     *)
MutAbortable(t) == t \notin SharedLane /\ turn[t].denial = "none"
Abortable(t) ==
  t \notin SharedLane /\ ~turn[t].delivered /\ turn[t].denial = "none"

(***************************************************************************)
(* The rest of check for one leg: an error fails open and leaves the       *)
(* entry; a refused reply or spending below the limit removes it;          *)
(* exhaustion is remembered and stops a turn that can still be stopped.    *)
(***************************************************************************)
Heard(t, l, expiry) ==
  /\ mark' = [mark EXCEPT ![LegId(l, turn[t].limit[l])] = expiry]
  /\ lastHeard' = [lastHeard EXCEPT ![LegId(l, turn[t].limit[l])] = t]
Informed(t, l) ==
  [turn[t] EXCEPT !.read[l] = "done", !.seen[l] = 0, !.heard[l] = softNow]
Unread(t, l) == turn' = [turn EXCEPT ![t] = Informed(t, l)]

BelowLimit(t, l) == Unread(t, l) /\ Heard(t, l, 0)
Exhausted(t, l) ==
  /\ Heard(t, l, softNow + FreshFor)
  /\ IF Abortable(t)
     THEN turn' = [turn EXCEPT ![t] =
            [Informed(t, l) EXCEPT !.denial = l, !.cause = t, !.refused = softNow,
                                   !.pc = IF @ = "upstream" THEN "refused" ELSE @]]
     ELSE Unread(t, l)
ObserveStatus(t, l) ==
  /\ turn[t].read[l] = "answered"
  /\ IF turn[t].seen[l] < turn[t].limit[l] THEN BelowLimit(t, l) ELSE Exhausted(t, l)
  /\ UNCHANGED <<softNow, softLimit, softLedger>>

StatusFails(t, l) ==
  /\ turn[t].read[l] = "sent"
  /\ \/ Unread(t, l) /\ Heard(t, l, 0)                    \* an error status
     \/ Unread(t, l) /\ UNCHANGED <<mark, lastHeard>>     \* threw
  /\ UNCHANGED <<softNow, softLimit, softLedger>>

(* The provider's headers: beforeDelivery returns at once when the check   *)
(* is complete, otherwise it waits for it or for the grace period.         *)
Checked(t) == \A l \in SoftLegs : turn[t].read[l] = "done"
Headers(t) ==
  /\ turn[t].pc = "upstream"
  /\ turn' = [turn EXCEPT ![t].pc = IF Checked(t) \/ t \in SharedLane
                                    THEN "delivering" ELSE "grace",
                          ![t].delivered = Checked(t) \/ t \in SharedLane]
  /\ UNCHANGED <<softNow, softLimit, softLedger, mark, lastHeard>>

(* The wait ends: delivery is recorded first, then the dispatcher throws   *)
(* the denial if there is one.                                             *)
GraceEnds(t) ==
  /\ turn[t].pc = "grace"
  /\ turn' = [turn EXCEPT ![t].delivered = TRUE,
                ![t].pc = IF turn[t].denial = "none" THEN "delivering" ELSE "refused"]
  /\ UNCHANGED <<softNow, softLimit, softLedger, mark, lastHeard>>

(* A failed fetch is cleaned up first; a status that comes meanwhile still *)
(* denies the turn.  Then the observation is closed, and the turn fails or *)
(* is refused.                                                             *)
UpstreamFails(t) ==
  /\ turn[t].pc = "upstream"
  /\ turn' = [turn EXCEPT ![t].pc = "failing"]
  /\ UNCHANGED <<softNow, softLimit, softLedger, mark, lastHeard>>
CloseFailed(t) ==
  /\ turn[t].pc = "failing"
  /\ turn' = [turn EXCEPT ![t].delivered = TRUE,
                ![t].pc = IF turn[t].denial = "none" THEN "failed" ELSE "refused"]
  /\ UNCHANGED <<softNow, softLimit, softLedger, mark, lastHeard>>

(***************************************************************************)
(* The ledger of a leg, in units of money: a charge of any soft request of *)
(* any isolate, after its delivery; a reservation of a request that shares *)
(* the leg and reserves (a reserve policy on the provider leg, background  *)
(* and Fusion requests), which fits under a limit that some plan has; and  *)
(* its end, by a settlement at the actual cost, a release or an expiry.    *)
(***************************************************************************)
LedgerMoves(l, charged, held) ==
  /\ charged + held <= MaxSoftSpent
  /\ softCharged' = [softCharged EXCEPT ![l] = charged]
  /\ softHeld' = [softHeld EXCEPT ![l] = held]
  /\ softFull' = softFull \cup
       FullFor(turn, [k \in SoftLegs |-> softCharged'[k] + softHeld'[k]])
  /\ UNCHANGED <<softNow, softLimit, mark, turn, lastHeard>>
SoftCharge(l) == LedgerMoves(l, softCharged[l] + 1, softHeld[l])
HoldPlaced(l) ==
  /\ \E limit \in SoftLimits : EffectiveSpent(l) + 1 <= limit
  /\ LedgerMoves(l, softCharged[l], softHeld[l] + 1)
HoldEnds(l) ==
  /\ softHeld[l] > 0
  /\ \E cost \in 0..MaxSoftSpent : LedgerMoves(l, softCharged[l] + cost, softHeld[l] - 1)

ChangeLimit(l, limit) ==
  /\ limit # softLimit[l]
  /\ softLimit' = [softLimit EXCEPT ![l] = limit]
  /\ UNCHANGED <<softNow, softLedger, mark, turn, lastHeard>>

SoftTick ==
  /\ softNow < MaxSoftTime
  /\ softNow' = softNow + 1
  /\ UNCHANGED <<softLimit, softLedger, mark, turn, lastHeard>>

SoftNext ==
  \/ \E t \in SoftTurns :
       \/ Preflight(t)
       \/ SendTurn(t)
       \/ Headers(t)
       \/ GraceEnds(t)
       \/ UpstreamFails(t)
       \/ CloseFailed(t)
       \/ \E l \in SoftLegs : LedgerStatus(t, l) \/ ObserveStatus(t, l) \/ StatusFails(t, l)
  \/ \E l \in SoftLegs : SoftCharge(l) \/ HoldPlaced(l) \/ HoldEnds(l)
  \/ \E l \in SoftLegs, limit \in SoftLimits : ChangeLimit(l, limit)
  \/ SoftTick

SoftSpec == SoftInit /\ [][SoftNext]_softVars

-----------------------------------------------------------------------------

(* A 402 may be out of date, as the ledger counts holds that end, but it   *)
(* is never groundless: a turn that was sent is refused only by its own    *)
(* status, and the ledger reached its limit since it was sent; a turn is   *)
(* refused before dispatch only by the last thing that was heard of the    *)
(* leg under the turn's own limit, less than the fresh time ago, when the  *)
(* ledger had reached the limit since that was asked.  So neither a failed *)
(* read, a lowered or raised limit nor an exhaustion that a later answer   *)
(* contradicted denies (softBudgetPreflight, softBudget).                  *)
DenialIsGrounded ==
  \A t \in SoftTurns : LET l == turn[t].denial
                           u == turn[t].cause
                       IN
     l # "none" /\ turn[t].limit[l] # 0 =>
        /\ u \in SoftTurns /\ turn[u].limit[l] = turn[t].limit[l] /\ <<u, l>> \in softFull
        /\ IF turn[t].read[l] # "none" THEN u = t
           ELSE /\ turn[u].heard[l] <= turn[t].refused
                /\ turn[t].refused < turn[u].heard[l] + FreshFor

(* A request is either refused or delivered: no status, however late,      *)
(* stops a response whose delivery began, and none that was stopped in the *)
(* grace period is delivered.                                              *)
NeverBoth ==
  \A t \in SoftTurns : turn[t].pc = "delivering" => turn[t].denial = "none"

(* The verdict of the soft check: a refusal rests on a recent exhaustion   *)
(* of the ledger and excludes delivery (soft-budget.ts).                   *)
SoftVerdict == DenialIsGrounded /\ NeverBoth
=============================================================================
