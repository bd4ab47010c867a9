----------------------------- MODULE BudgetCaps -----------------------------
(***************************************************************************)
(* Member budget overrides on the authority object                         *)
(* (worker/authority-budgets.ts) with the other writers of the same user   *)
(* record: profile saves, user grants and assignment reconciliation        *)
(* (worker/authority.ts, worker/authority-users.ts, worker/admin.ts).      *)
(*                                                                         *)
(* Every handler reads and writes the record in one step of the object;    *)
(* what its caller looked at is older.  One user and one policy; an        *)
(* override is its limits and its updatedAt, which doubles as the entity   *)
(* tag of the next save.                                                   *)
(***************************************************************************)
EXTENDS Integers, FiniteSetsExt

CONSTANTS Admins,      \* callers of the admin API
          Caps,        \* override values
          MaxStamp     \* bound: values of Date.now() and of updatedAt

ASSUME BudgetCapsType == MaxStamp \in Nat

NoCap == [limits |-> "absent", at |-> 0]

VARIABLES member,   \* the stored user: override and groups
          admin     \* the callers, with what each last read

capsVars == <<member, admin>>

CapsInit ==
  /\ member = [cap |-> NoCap, groups |-> 0]
  /\ admin = [a \in Admins |-> [pc |-> "idle", view |-> member, blind |-> FALSE]]

(* A caller loads the user list, and may save without naming a revision.   *)
CapsView(a) ==
  /\ admin[a].pc = "idle"
  /\ \E blind \in BOOLEAN :
       admin' = [admin EXCEPT ![a] = [pc |-> "viewed", view |-> member, blind |-> blind]]
  /\ UNCHANGED member

(***************************************************************************)
(* mutateBudgetCaps, /users/budget-override: 409 unless the expected       *)
(* updatedAt is the stored one.  The new one is the clock, raised past the *)
(* old, so that two saves of one millisecond, or a clock that went back,   *)
(* do not give two overrides one tag.                                      *)
(***************************************************************************)
MutStamp(clock) == IF clock = 0 THEN member.cap.at + 1 ELSE clock
Stamp(clock) == Max({clock, member.cap.at + 1})
CapsSave(a, limits, clock) ==
  /\ admin[a].pc = "viewed"
  /\ \/ /\ admin[a].blind \/ admin[a].view.cap.at = member.cap.at
        /\ Stamp(clock) <= MaxStamp
        /\ member' = [member EXCEPT !.cap = [limits |-> limits, at |-> Stamp(clock)]]
        /\ admin' = [admin EXCEPT ![a].pc = "saved"]
     \/ /\ ~admin[a].blind /\ admin[a].view.cap.at # member.cap.at
        /\ admin' = [admin EXCEPT ![a].pc = "conflict"]
        /\ UNCHANGED member

(***************************************************************************)
(* updateUserProfile (also the first half of putUserBindings): the profile *)
(* is the caller's, built from what it read; the overrides are taken from  *)
(* the stored record, as is the role, which no writer of a stored record   *)
(* changes.                                                                *)
(***************************************************************************)
MutProfileUpdate(view, groups) == [view EXCEPT !.groups = groups]
ProfileUpdate(view, groups) ==
  [view EXCEPT !.groups = groups, !.cap = member.cap]
ProfileSave(a, groups) ==
  /\ admin[a].pc = "viewed"
  /\ member' = ProfileUpdate(admin[a].view, groups)
  /\ admin' = [admin EXCEPT ![a].pc = "profiled"]

(* reconcileUserAssignments: after its turn in the tail the stored user is *)
(* read again and only groups and assignment state are replaced.           *)
Reconcile ==
  /\ member' = [member EXCEPT !.groups = 1 - @]
  /\ UNCHANGED admin

CapsAgain(a) ==
  /\ admin[a].pc \in {"saved", "conflict", "profiled"}
  /\ admin' = [admin EXCEPT ![a].pc = "idle", ![a].blind = FALSE]
  /\ UNCHANGED member

CapsNext ==
  \/ \E a \in Admins :
       \/ CapsView(a)
       \/ \E limits \in Caps, clock \in 0..MaxStamp : CapsSave(a, limits, clock)
       \/ \E groups \in 0..1 : ProfileSave(a, groups)
       \/ CapsAgain(a)
  \/ Reconcile

CapsSpec == CapsInit /\ [][CapsNext]_capsVars

-----------------------------------------------------------------------------

(* No override is lost: a save that names the revision it was made from    *)
(* replaces exactly the limits its author was looking at, however the      *)
(* clock moved and whatever other administrators saved in between.         *)
CapsNotLost ==
  \A a \in Admins :
    admin[a].pc = "viewed" /\ admin'[a].pc = "saved" /\ ~admin[a].blind
      => member.cap = admin[a].view.cap

(* Only a save of caps changes caps: neither a profile saved from an old   *)
(* page nor a reconciliation restores older ones.                          *)
StaleProfileHarmless ==
  member'.cap # member.cap =>
    \E a \in Admins : admin[a].pc = "viewed" /\ admin'[a].pc = "saved"

(* An administrator's page, however old, undoes nobody else's save         *)
(* (authority-budgets.ts).                                                 *)
OverridesStand == [][CapsNotLost /\ StaleProfileHarmless]_capsVars
=============================================================================
