----------------------------- MODULE GrantIndex -----------------------------
(***************************************************************************)
(* The attachment index of the authority (worker/authority.ts): which      *)
(* grants belong to the pool of a provider, with the generation of the     *)
(* credential owner each entry was published from and a revision that      *)
(* fences every change.                                                    *)
(*                                                                         *)
(* An entry is the row of upstream_grant_pool_versions of a key, its       *)
(* upstream_grant_pool_members by provider and the status its routing      *)
(* projection shows.  Each transaction is an operator from entry to entry  *)
(* with the condition under which the authority commits it.                *)
(***************************************************************************)
EXTENDS Integers, FiniteSets

CONSTANTS
    GrantKeys,       \* grant keys of one scope
    Providers,
    Capacity    \* active or pending members of a pool (32)

ASSUME IndexType == IsFiniteSet(GrantKeys) /\ Providers # {} /\ Capacity \in Nat

(* attachmentStatus; a revoked owner is published with status null.        *)
OwnerStatuses == {"active", "paused", "reauth_required", "revoked"}
RowStatuses == {"legacy", "active", "paused", "reauth_required", "pending", "pending_inactive"}
Proposals == {"pending", "pending_inactive"}

Members == [status : RowStatuses, previous : RowStatuses \cup {"none"}]
NoMember == [status |-> "none", previous |-> "none"]

Entries == [generation : Nat, revision : Nat,
            member : [Providers -> Members \cup {NoMember}],
            shown : OwnerStatuses \cup {"none"}]

-----------------------------------------------------------------------------
(* grantAttachment                                                         *)
Pending(e) == \E p \in Providers : e.member[p].status \in Proposals
Attached(e) == \E p \in Providers : e.member[p].status \notin Proposals \cup {"none"}

(* poolTokenRefs: the members requests are routed to.                      *)
Selectable(e, p) == e.member[p].status \in {"legacy", "active"}

(* attachmentMutation                                                      *)
MutCurrentAnyRevision(e, q) == q.generation >= e.generation
CurrentFor(e, q) == q.revision = e.revision /\ q.generation >= e.generation

(* restorePendingAttachment                                                *)
MutRestoredDropped(e) ==
    [e EXCEPT !.member = [p \in Providers |->
        IF @[p].status \in Proposals THEN NoMember ELSE @[p]]]
Restored(e) ==
    [e EXCEPT !.member = [p \in Providers |->
        IF @[p].status \notin Proposals THEN @[p]
        ELSE IF @[p].previous = "none" THEN NoMember
        ELSE [status |-> @[p].previous, previous |-> "none"]]]

-----------------------------------------------------------------------------
(* admitGrantAttachment                                                    *)
NeedsRow(e, q) ==
    /\ q.status # "revoked"
    /\ \/ e.member[q.provider] = NoMember
       \/ q.status = "active" /\ e.member[q.provider].status \notin {"active", "legacy", "pending"}

Seats(index, p) ==
    {k \in GrantKeys : index[k].member[p].status \in {"legacy", "active", "pending"}}

MutSeatFreeActiveOnly(index, p) ==
    Cardinality({k \in GrantKeys : index[k].member[p].status \in {"legacy", "active"}}) < Capacity
SeatFree(index, p) == Cardinality(Seats(index, p)) < Capacity

AdmitAccepted(index, k, q) ==
    /\ CurrentFor(index[k], q)
    /\ q.generation = index[k].generation
    /\ NeedsRow(index[k], q) /\ q.status = "active" => SeatFree(index, q.provider)

Admitted(e, q) ==
    LET m == e.member[q.provider]
        row == [status |-> IF q.status = "active" THEN "pending" ELSE "pending_inactive",
                previous |-> IF m.status \in Proposals \cup {"none"} THEN m.previous ELSE m.status]
    IN  [e EXCEPT !.member[q.provider] = IF NeedsRow(e, q) THEN row ELSE @,
                  !.revision = @ + 1]

-----------------------------------------------------------------------------
(* publishGrantAttachment: a proposal is acknowledged only by the commit   *)
(* that carries its admission revision, and is put back otherwise.         *)
Returned(e, q) ==
    Pending(e) /\ (q.receipt # e.revision \/ q.generation = e.generation)
Prepared(e, q) == IF Returned(e, q) THEN Restored(e) ELSE e

Replay(e, q) == q.generation = e.generation /\ ~Pending(Prepared(e, q))

ReplayAgrees(e, q) ==
    LET f == Prepared(e, q) m == f.member[q.provider] IN
    IF q.status = "revoked" THEN ~Attached(f)
    ELSE \/ m = NoMember
         \/ m.status = q.status /\ \A p \in Providers \ {q.provider} : f.member[p] = NoMember

PublishAccepted(e, q) ==
    /\ CurrentFor(e, q)
    /\ IF Replay(e, q) THEN ReplayAgrees(e, q)
       ELSE LET m == Prepared(e, q).member[q.provider] IN
            q.status = "active" /\ m # NoMember => m.status \in {"active", "legacy", "pending"}

Published(e, q) ==
    LET f == Prepared(e, q)
        rows == [p \in Providers |->
            IF q.status = "revoked" THEN NoMember
            ELSE IF f.member[q.provider] # NoMember
            THEN IF p = q.provider THEN [status |-> q.status, previous |-> "none"] ELSE NoMember
            ELSE IF f.member[p].status \in Proposals THEN NoMember ELSE f.member[p]]
    IN  IF Replay(e, q)
        THEN [f EXCEPT !.revision = @ + (IF Returned(e, q) THEN 1 ELSE 0), !.shown = q.status]
        ELSE [generation |-> q.generation, revision |-> e.revision + 1,
              member |-> rows, shown |-> q.status]

-----------------------------------------------------------------------------
(* cancelPendingAttachment: only a first admission that was never          *)
(* committed has generation zero.                                          *)
CancelAccepted(e, q) == q.revision = e.revision
Cancelled(e) ==
    IF e.generation = 0 /\ Pending(e)
    THEN [Restored(e) EXCEPT !.revision = @ + 1] ELSE e
=============================================================================
