---------------------------- MODULE DeviceFlow ----------------------------
(***************************************************************************)
(* Device authorization on one credential owner: the MiniMax and GitHub    *)
(* Copilot device flows (worker/minimax-device-flow.ts,                    *)
(* worker/copilot-device-flow.ts), the Copilot account qualification that  *)
(* follows (worker/copilot-account-flow.ts), and what /put and /revoke of  *)
(* the owner do to them (worker/grant-credentials.ts).                     *)
(*                                                                         *)
(* Sections run under the owner's ordering tail (order) are single         *)
(* actions; the exchange with the provider runs outside it.  Before every  *)
(* exchange the attempt is saved in an "unknown" phase, so that a crash, a *)
(* timeout or a lost answer leaves a fence and never a retry.  A check of  *)
(* the caller's administrator role may fail wherever the code repeats it.  *)
(* Lineages are numbered by the generation that issued them.               *)
(***************************************************************************)
EXTENDS Integers, FiniteSets

CONSTANTS Calls,          \* POST handlers that may start an exchange
          MaxAttempts,    \* bound: device attempts begun
          MaxGeneration,  \* bound: generation of the owner's row
          MaxCrashes      \* bound: restarts of the object

ASSUME DeviceType == MaxAttempts \in Nat /\ MaxGeneration \in Nat /\ "none" \notin Calls

VARIABLES flow,     \* "minimax" or "copilot"
          row,      \* the durable record
          flight,   \* inFlight of the device flow: a call, or NoCall
          aflight,  \* inFlight of the account flow
          call,     \* the handlers
          crashes, withdrawn, sent, pendings   \* history for the properties

deviceVars == <<flow, row, flight, aflight, call, crashes, withdrawn, sent, pendings>>
deviceHistory == <<crashes, withdrawn, sent, pendings>>

NoCall == "none"
DevicePhases == {"none", "begin_unknown", "poll_unknown", "pending", "committed",
           "cancelled", "expired", "denied", "unknown"}
Unsettled(phase) == phase \in {"begin_unknown", "poll_unknown"}
DeviceAttempts == 0..MaxAttempts
NoAttempt == [id |-> 0, phase |-> "none", gen |-> 0, line |-> 0,
              expired |-> FALSE, early |-> FALSE]
NoAccount == [phase |-> "none", id |-> 0, gen |-> 0, bound |-> FALSE]

DeviceInit ==
  /\ flow \in {"minimax", "copilot"}
  /\ row = [gen |-> 0, line |-> 0, live |-> FALSE, attempt |-> NoAttempt,
            token |-> 0, account |-> NoAccount]
  /\ flight = NoCall /\ aflight = NoCall
  /\ call = [c \in Calls |-> [pc |-> "idle", op |-> "none", id |-> 0, gen |-> 0,
                              phase |-> "none", stopped |-> FALSE, result |-> "none"]]
  /\ crashes = 0 /\ withdrawn = {}
  /\ sent = [a \in DeviceAttempts |-> 0] /\ pendings = [a \in DeviceAttempts |-> 0]

Exchanging(c) == call[c].pc \in {"sent", "answered"}
InPhase(attempt, phase) == [attempt EXCEPT !.phase = phase]

(***************************************************************************)
(* assertOwner: the attempt belongs to the row's generation and lineage.   *)
(***************************************************************************)
OwnedAttempt(attempt) == row.live /\ row.gen = attempt.gen /\ row.line = attempt.line

(***************************************************************************)
(* operation.stop("caller") on whatever is in flight.                      *)
(***************************************************************************)
StopFlights(fs) == [c \in Calls |->
  IF c \in fs /\ Exchanging(c) THEN [call[c] EXCEPT !.stopped = TRUE] ELSE call[c]]

(***************************************************************************)
(* start: the exchange goes out, unless the caller is no longer an admin,  *)
(* went away or the code expired after the fence was saved.                *)
(***************************************************************************)
DeviceStart(c, op, attempt) ==
  \/ /\ flight' = c
     /\ call' = [call EXCEPT ![c] = [@ EXCEPT !.pc = "sent", !.op = op,
                   !.id = attempt.id, !.gen = attempt.gen, !.phase = attempt.phase]]
     /\ sent' = IF op = "poll" THEN [sent EXCEPT ![attempt.id] = @ + 1] ELSE sent
  \/ /\ call' = [call EXCEPT ![c].pc = "done"]
     /\ UNCHANGED <<flight, sent>>

(***************************************************************************)
(* begin with a new intent.  A present attempt must be named and over; one *)
(* of unknown outcome blocks its own generation.  owner.begin writes a new *)
(* row: the Copilot one first drops the account, and every row starts      *)
(* without credential.                                                     *)
(***************************************************************************)
Replaceable(attempt) ==
  /\ attempt.phase \notin {"pending", "begin_unknown", "poll_unknown"}
  /\ ~(attempt.phase = "unknown" /\ row.gen = attempt.gen)
BegunRow(gen, attempt) ==
  [gen |-> gen, line |-> gen, live |-> TRUE, attempt |-> attempt, token |-> 0,
   account |-> NoAccount]
DeviceBegin(c) ==
  LET gen == row.gen + 1
      attempt == [id |-> row.attempt.id + 1, phase |-> "begin_unknown", gen |-> gen,
                  line |-> gen, expired |-> FALSE, early |-> FALSE]
  IN  /\ call[c].pc = "idle" /\ Replaceable(row.attempt)
      /\ row.attempt.id < MaxAttempts /\ gen <= MaxGeneration
      /\ row' = BegunRow(gen, attempt)
      /\ DeviceStart(c, "begin", attempt)
      /\ UNCHANGED <<flow, aflight, crashes, withdrawn, pendings>>

(***************************************************************************)
(* poll of a pending, unexpired attempt whose interval has elapsed.        *)
(***************************************************************************)
MutPollable(attempt) ==
  attempt.phase \in {"pending", "poll_unknown"} /\ ~attempt.expired /\ ~attempt.early
Pollable(attempt) == attempt.phase = "pending" /\ ~attempt.expired /\ ~attempt.early
DevicePoll(c) ==
  LET attempt == InPhase(row.attempt, "poll_unknown") IN
  /\ call[c].pc = "idle" /\ OwnedAttempt(row.attempt) /\ Pollable(row.attempt)
  /\ row' = [row EXCEPT !.attempt = attempt]
  /\ DeviceStart(c, "poll", attempt)
  /\ UNCHANGED <<flow, aflight, crashes, withdrawn, pendings>>

(***************************************************************************)
(* cancel: what is in flight is stopped, the attempt closed; a committed   *)
(* one stays.                                                              *)
(***************************************************************************)
MutCancellable(phase) == TRUE
Cancellable(phase) == phase # "committed"
DeviceCancel ==
  /\ row.attempt.id > 0 /\ OwnedAttempt(row.attempt) /\ Cancellable(row.attempt.phase)
  /\ call' = StopFlights({flight})
  /\ row' = [row EXCEPT !.attempt = InPhase(@, "cancelled")]
  /\ withdrawn' = withdrawn \cup {row.attempt.id}
  /\ UNCHANGED <<flow, flight, aflight, crashes, sent, pendings>>

(***************************************************************************)
(* recover, on status, a repeated begin, or a poll that is not due: an     *)
(* exchange that nobody is running any more becomes "unknown", a pending   *)
(* code past its time "expired".                                           *)
(***************************************************************************)
MutAbandoned(attempt) == Unsettled(attempt.phase)
Abandoned(attempt) ==
  /\ Unsettled(attempt.phase)
  /\ flight # NoCall => call[flight].id # attempt.id \/ call[flight].stopped
DeviceStatus ==
  /\ row.attempt.id > 0 /\ OwnedAttempt(row.attempt)
  /\ \/ /\ Abandoned(row.attempt)
        /\ row' = [row EXCEPT !.attempt = InPhase(@, "unknown")]
     \/ /\ row.attempt.phase = "pending" /\ row.attempt.expired
        /\ row' = [row EXCEPT !.attempt = InPhase(@, "expired")]
  /\ UNCHANGED <<flow, flight, aflight, call, deviceHistory>>

(***************************************************************************)
(* The provider answers, or the exchange fails on the way.                 *)
(***************************************************************************)
DeviceResults(op) == CASE op = "begin" -> {"code"}
                 [] op = "poll" -> {"pending", "authorized", "refused"}
                 [] OTHER -> {"identity"}
DeviceRespond(c) ==
  /\ call[c].pc = "sent"
  /\ \/ \E r \in DeviceResults(call[c].op) :
          call' = [call EXCEPT ![c] = [@ EXCEPT !.pc = "answered", !.result = r]]
     \/ call' = [call EXCEPT ![c].pc = "failed"]
  /\ UNCHANGED <<flow, row, flight, aflight, deviceHistory>>

(***************************************************************************)
(* The caller goes away or the deadline of HttpOperation fires; a stopped  *)
(* operation rejects the wait, whatever arrives later.                     *)
(***************************************************************************)
DeviceDeadline(c) ==
  /\ Exchanging(c) /\ ~call[c].stopped
  /\ call' = [call EXCEPT ![c].stopped = TRUE]
  /\ UNCHANGED <<flow, row, flight, aflight, deviceHistory>>
DeviceRejected(c) ==
  /\ Exchanging(c) /\ call[c].stopped
  /\ call' = [call EXCEPT ![c].pc = "failed"]
  /\ UNCHANGED <<flow, row, flight, aflight, deviceHistory>>

(***************************************************************************)
(* Settlement, again under the tail: only the attempt, phase, generation   *)
(* and lineage that were sent may be settled.                              *)
(***************************************************************************)
Settleable(c) ==
  /\ row.attempt.id = call[c].id /\ row.attempt.phase = call[c].phase
  /\ OwnedAttempt(row.attempt)
MutDeviceOver(c, fl) == call' = [call EXCEPT ![c].pc = "done"] /\ flight' = fl
DeviceOver(c, fl) == /\ call' = [call EXCEPT ![c].pc = "done"]
                     /\ flight' = IF fl = c THEN NoCall ELSE fl

(***************************************************************************)
(* owner.install: the credential and the committed attempt in one write.   *)
(* MiniMax issues a new lineage, Copilot keeps it.  Copilot's terminal     *)
(* refusals (denied, expired, failed) are one phase.                       *)
(***************************************************************************)
DeviceInstalled ==
  LET gen == row.gen + 1
      line == IF flow = "minimax" THEN gen ELSE row.line
  IN  [row EXCEPT !.gen = gen, !.line = line, !.token = row.attempt.id,
        !.attempt = [@ EXCEPT !.phase = "committed", !.gen = gen, !.line = line]]

DeviceSettle(c) ==
  /\ call[c].pc = "answered" /\ call[c].op \in {"begin", "poll"}
  /\ ~call[c].stopped /\ Settleable(c)
  /\ \/ /\ row.attempt.expired
        /\ row' = [row EXCEPT !.attempt = InPhase(@, "expired")]
        /\ UNCHANGED pendings
     \/ /\ ~row.attempt.expired /\ call[c].result \in {"code", "pending"}
        /\ row' = [row EXCEPT !.attempt = [@ EXCEPT !.phase = "pending", !.early = TRUE]]
        /\ pendings' = IF call[c].op = "poll" THEN [pendings EXCEPT ![call[c].id] = @ + 1]
                       ELSE pendings
     \/ /\ ~row.attempt.expired /\ call[c].result = "authorized"
        /\ row.gen < MaxGeneration
        /\ row' = DeviceInstalled /\ UNCHANGED pendings
     \/ /\ ~row.attempt.expired /\ call[c].result = "refused"
        /\ row' = [row EXCEPT !.attempt =
                     InPhase(@, IF flow = "minimax" THEN "unknown" ELSE "denied")]
        /\ UNCHANGED pendings
  /\ \/ DeviceOver(c, flight)
     \/ call' = [call EXCEPT ![c].pc = "failed"] /\ UNCHANGED flight   \* lost ACK
  /\ UNCHANGED <<flow, aflight, crashes, withdrawn, sent>>

(***************************************************************************)
(* The settlement throws before its write: the role was lost, the attempt  *)
(* or its owner changed, or the installation failed.                       *)
(***************************************************************************)
SettleFails(c) ==
  /\ call[c].pc = "answered" /\ ~call[c].stopped
  /\ call' = [call EXCEPT ![c].pc = "failed"]
  /\ UNCHANGED <<flow, row, flight, aflight, deviceHistory>>

(***************************************************************************)
(* The catch, under the tail: an attempt still in its unknown phase is     *)
(* closed as "unknown"; Copilot also demands the owner unchanged.          *)
(***************************************************************************)
MutUncertain(attempt) == "pending"
Uncertain(attempt) == IF Unsettled(attempt.phase) THEN "unknown" ELSE attempt.phase
DeviceFails(c) ==
  /\ call[c].pc = "failed" /\ call[c].op \in {"begin", "poll"}
  /\ row' = IF row.attempt.id = call[c].id /\ (flow = "copilot" => OwnedAttempt(row.attempt))
            THEN [row EXCEPT !.attempt = InPhase(@, Uncertain(@))] ELSE row
  /\ DeviceOver(c, flight)
  /\ UNCHANGED <<flow, aflight, deviceHistory>>

-----------------------------------------------------------------------------
(***************************************************************************)
(* Account qualification: the scope is a committed Copilot attempt of the  *)
(* row's own generation, with its credential.                              *)
(***************************************************************************)
AccountScope ==
  /\ flow = "copilot" /\ OwnedAttempt(row.attempt)
  /\ row.attempt.phase = "committed" /\ row.token = row.attempt.id
AccountQualify(c) ==
  /\ AccountScope /\ call[c].pc = "idle" /\ row.account.phase = "none"
  /\ row' = [row EXCEPT !.account = [phase |-> "dispatch_unknown", id |-> row.attempt.id,
                                     gen |-> row.gen, bound |-> FALSE]]
  /\ \/ /\ aflight' = c
        /\ call' = [call EXCEPT ![c] = [@ EXCEPT !.pc = "sent", !.op = "qualify",
                      !.id = row.attempt.id, !.gen = row.gen]]
     \/ call' = [call EXCEPT ![c].pc = "done"] /\ UNCHANGED aflight
  /\ UNCHANGED <<flow, flight, deviceHistory>>

AccountCurrent(c) ==
  AccountScope /\ row.account.id = call[c].id /\ row.gen = call[c].gen
MutUnbound(account, phase) == [account EXCEPT !.phase = phase]
Unbound(account, phase) == [account EXCEPT !.phase = phase, !.bound = FALSE]
AccountOver(c) == /\ call' = [call EXCEPT ![c].pc = "done"]
                  /\ aflight' = IF aflight = c THEN NoCall ELSE aflight

(***************************************************************************)
(* The identity is bound and the attempt qualified in one write.           *)
(***************************************************************************)
Bindable(c) == AccountCurrent(c) /\ row.account.phase = "dispatch_unknown"
AccountSettle(c) ==
  /\ call[c].pc = "answered" /\ call[c].op = "qualify" /\ ~call[c].stopped
  /\ Bindable(c)
  /\ row' = [row EXCEPT !.account = [@ EXCEPT !.phase = "qualified", !.bound = TRUE]]
  /\ \/ AccountOver(c)
     \/ call' = [call EXCEPT ![c].pc = "failed"] /\ UNCHANGED aflight   \* lost ACK
  /\ UNCHANGED <<flow, flight, deviceHistory>>
AccountFails(c) ==
  /\ call[c].pc = "failed" /\ call[c].op = "qualify"
  /\ \/ AccountCurrent(c) /\ row.account.phase = "dispatch_unknown"
          /\ row' = [row EXCEPT !.account = Unbound(@, "unknown")]
     \/ UNCHANGED row   \* nothing to close, or the role was lost
  /\ AccountOver(c)
  /\ UNCHANGED <<flow, flight, deviceHistory>>

AccountCancel ==
  /\ AccountScope /\ row.account.phase \notin {"none", "cancelled"}
  /\ call' = StopFlights({aflight})
  /\ row' = [row EXCEPT !.account = Unbound(@, "cancelled")]
  /\ UNCHANGED <<flow, flight, aflight, deviceHistory>>
AccountStatus ==
  /\ AccountScope /\ row.account.phase = "dispatch_unknown"
  /\ aflight # NoCall => call[aflight].id # row.account.id
  /\ row' = [row EXCEPT !.account.phase = "unknown"]
  /\ UNCHANGED <<flow, flight, aflight, call, deviceHistory>>

-----------------------------------------------------------------------------
(***************************************************************************)
(* /put and /revoke first invalidate both flows: what is in flight stops,  *)
(* an unfinished attempt is cancelled, the account loses its binding.  The *)
(* mutation may then be refused, or a new row is written: a put that keeps *)
(* the secrets keeps MiniMax's attempt and credential and the lineage.     *)
(***************************************************************************)
MutInvalidatedRow ==
  [row EXCEPT !.account = [@ EXCEPT !.bound = FALSE]]
InvalidatedRow ==
  [row EXCEPT
     !.attempt = IF @.phase \in {"pending", "begin_unknown", "poll_unknown", "unknown"}
                 THEN InPhase(@, "cancelled") ELSE @,
     !.account = IF @.phase = "none" THEN @
                 ELSE Unbound(@, "cancelled")]
OwnerMutation ==
  LET gen == row.gen + 1
      kept == [InvalidatedRow EXCEPT !.gen = gen]
      fresh == [gen |-> gen, line |-> gen, live |-> TRUE, attempt |-> NoAttempt,
                token |-> 0, account |-> NoAccount]
  IN  /\ row.gen > 0
      /\ call' = StopFlights({flight, aflight})
      /\ withdrawn' = IF row.attempt.phase = "committed" THEN withdrawn
                      ELSE withdrawn \cup {row.attempt.id}
      /\ \/ row' = InvalidatedRow
         \/ /\ gen <= MaxGeneration
            /\ row' \in {[fresh EXCEPT !.attempt.id = row.attempt.id],
                         [fresh EXCEPT !.attempt.id = row.attempt.id, !.live = FALSE]}
                        \cup (IF flow = "minimax" /\ row.live THEN {kept} ELSE {})
      /\ UNCHANGED <<flow, flight, aflight, crashes, sent, pendings>>

(***************************************************************************)
(* The object restarts: the row stays, handlers and flights are gone.      *)
(***************************************************************************)
DeviceCrash ==
  /\ crashes < MaxCrashes /\ crashes' = crashes + 1
  /\ flight' = NoCall /\ aflight' = NoCall
  /\ call' = [c \in Calls |->
                IF call[c].pc = "idle" THEN call[c] ELSE [call[c] EXCEPT !.pc = "done"]]
  /\ UNCHANGED <<flow, row, withdrawn, sent, pendings>>

(***************************************************************************)
(* Time: the poll interval elapses; the code's life ends.                  *)
(***************************************************************************)
DeviceTime ==
  /\ row.attempt.id > 0
  /\ \/ row.attempt.early /\ row' = [row EXCEPT !.attempt.early = FALSE]
     \/ ~row.attempt.expired /\ row' = [row EXCEPT !.attempt.expired = TRUE]
  /\ UNCHANGED <<flow, flight, aflight, call, deviceHistory>>

DeviceNext ==
  \/ \E c \in Calls :
       \/ DeviceBegin(c) \/ DevicePoll(c)
       \/ DeviceRespond(c) \/ DeviceDeadline(c) \/ DeviceRejected(c)
       \/ DeviceSettle(c) \/ SettleFails(c) \/ DeviceFails(c)
       \/ AccountQualify(c) \/ AccountSettle(c) \/ AccountFails(c)
  \/ DeviceCancel \/ DeviceStatus \/ AccountCancel \/ AccountStatus
  \/ OwnerMutation \/ DeviceCrash \/ DeviceTime

DeviceSpec == DeviceInit /\ [][DeviceNext]_deviceVars
-----------------------------------------------------------------------------
(***************************************************************************)
(* Types of the row, the flights and the handlers.                         *)
(***************************************************************************)
DeviceTypeOK ==
  /\ row.gen \in 0..MaxGeneration /\ row.line \in 0..row.gen
  /\ row.attempt.id \in DeviceAttempts /\ row.attempt.phase \in DevicePhases
  /\ row.attempt.gen <= row.gen /\ row.token \in 0..row.attempt.id
  /\ flight \in Calls \cup {NoCall} /\ aflight \in Calls \cup {NoCall}
  /\ flight # NoCall => call[flight].pc \in {"sent", "answered", "failed"}
  /\ aflight # NoCall => call[aflight].op = "qualify"

(***************************************************************************)
(* A device code is polled again only after the provider said, and the     *)
(* owner stored, that authorization is pending: an exchange whose answer   *)
(* was lost, refused, stopped or cut off by a restart is never repeated    *)
(* (the provider may have spent the code on it).                           *)
(***************************************************************************)
CodeNeverReplayed == \A id \in DeviceAttempts : sent[id] <= pendings[id] + 1

(***************************************************************************)
(* An attempt that an administrator cancelled, or that /put or /revoke     *)
(* withdrew before it committed, never installs its credential, however    *)
(* late the provider's answer arrives.                                     *)
(***************************************************************************)
WithdrawnNotInstalled == row.token > 0 => row.token \notin withdrawn

(***************************************************************************)
(* While an exchange may still settle the stored attempt, no other one     *)
(* can: a recovery, a cancel or a new begin never leaves two answers that  *)
(* would both be accepted.                                                 *)
(***************************************************************************)
OneExchangeSettles ==
  \A c, d \in Calls :
    (/\ {call[c].op, call[d].op} \subseteq {"begin", "poll"}
     /\ Exchanging(c) /\ Exchanging(d) /\ Settleable(c) /\ Settleable(d)
     /\ ~call[c].stopped /\ ~call[d].stopped) => c = d

(***************************************************************************)
(* Nobody gives up on an exchange that is still running unstopped: its     *)
(* answer would be thrown away and the code lost.  The one exception is    *)
(* the catch of an earlier exchange of the same attempt, whose settlement  *)
(* was saved but not acknowledged: it closes whatever phase it finds.      *)
(***************************************************************************)
RunningIsNotAbandoned ==
  \A c \in Calls :
    (/\ call[c].op \in {"begin", "poll"} /\ call[c].pc = "sent" /\ ~call[c].stopped
     /\ Settleable(c)
     /\ row'.attempt.phase = "unknown" /\ row'.attempt.id = call[c].id)
    => \E d \in Calls \ {c} : call[d].pc = "failed" /\ call[d].id = call[c].id

(***************************************************************************)
(* An account is bound only to the credential it was qualified with: the   *)
(* row is live and of the generation that was sent, and the device         *)
(* attempt is its committed one.                                           *)
(***************************************************************************)
BindingIsCurrent ==
  row.account.bound =>
    /\ row.live /\ row.account.phase = "qualified"
    /\ row.attempt.phase = "committed" /\ row.token = row.account.id
    /\ row.account.gen = row.gen

(***************************************************************************)
(* A committed attempt stays committed for as long as the row names it.    *)
(***************************************************************************)
CommitStays ==
  (/\ row.attempt.phase = "committed" /\ row'.attempt.id = row.attempt.id
   /\ row'.attempt.phase # "none")
  => row'.attempt.phase = "committed"

(* One exchange at a time owns a device code, and a code in doubt is not   *)
(* polled again (copilot-device-flow.ts, minimax-device-flow.ts); what is  *)
(* installed is what the administrator left in place: no withdrawn attempt *)
(* and no account of another credential.                                   *)
DeviceSafe ==
  /\ DeviceTypeOK /\ CodeNeverReplayed /\ OneExchangeSettles
  /\ WithdrawnNotInstalled /\ BindingIsCurrent

(* No step takes back a commit or gives up on a running exchange.          *)
AttemptsStand == [][CommitStays /\ RunningIsNotAbandoned]_deviceVars
============================================================================
