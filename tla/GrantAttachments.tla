-------------------------- MODULE GrantAttachments --------------------------
(***************************************************************************)
(* The credential owners of grants (worker/grant-credentials.ts) and their *)
(* publication to the attachment index and to the policy KV.               *)
(*                                                                         *)
(* The object of a key runs its handlers one at a time (its tail).  A      *)
(* handler makes remote calls and durable writes one after the other and   *)
(* may fail at each of them; a call it gave up on may still arrive.  The   *)
(* owner keeps a dirty flag (poolSyncPending) until both indexes have      *)
(* acknowledged its generation, and the revision of the admission it       *)
(* committed as a receipt (poolAdmissionRevision).                         *)
(***************************************************************************)
EXTENDS GrantIndex

CONSTANTS
    Legacy,         \* keys that start as KV records without an owner
    Probed,         \* keys with an access token only, polled for quota
    MaxGrantGen,  \* bound: generations of an owner
    MaxMishaps       \* bound: failed handlers in a run

ASSUME AttachmentsType ==
    /\ Legacy \subseteq GrantKeys /\ Probed \subseteq GrantKeys
    /\ MaxGrantGen \in Nat /\ MaxMishaps \in Nat

VARIABLES
    owner,   \* the credential record of each key
    index,   \* the entry of each key at the authority
    kv,      \* the record of each key in POLICY_KV
    work,    \* the handler at the head of the tail of each key
    late,    \* calls their handler gave up on
    mishaps

attachVars == <<owner, index, kv, work, late, mishaps>>

Owners == [generation : 1..MaxGrantGen, provider : Providers, enabled : BOOLEAN,
           reauth : BOOLEAN, revoked : BOOLEAN, dirty : BOOLEAN, receipt : Nat]
NoOwner == [generation |-> 0]

(* attachmentStatus                                                        *)
StatusOf(o) == IF o.revoked THEN "revoked"
               ELSE IF ~o.enabled THEN "paused"
               ELSE IF o.reauth THEN "reauth_required" ELSE "active"

Shown == [generation : Nat, status : OwnerStatuses \cup {"none", "legacy"}]

Snapshot(e) == [generation |-> e.generation, revision |-> e.revision,
                pending |-> Pending(e), attached |-> Attached(e)]
Snapshots == [generation : Nat, revision : Nat, pending : BOOLEAN, attached : BOOLEAN]

Drafts == [provider : Providers, enabled : BOOLEAN, reauth : BOOLEAN]
NoDraft == [provider |-> "none"]

Blank == [generation |-> 0, revision |-> 0,
          member |-> [p \in Providers |-> NoMember], shown |-> "none"]

Work(at, goal, seen, draft) == [at |-> at, goal |-> goal, seen |-> seen, draft |-> draft]
NoWork == Work("idle", "none", Snapshot(Blank), NoDraft)
Works == [at : {"idle", "read", "call", "admit", "commit", "use", "kv", "clean"},
          goal : {"none", "put", "replace", "install", "use", "reconcile", "sync"},
          seen : Snapshots, draft : Drafts \cup {NoDraft}]

AttachTypeOK == /\ owner \in [GrantKeys -> Owners \cup {NoOwner}]
                /\ index \in [GrantKeys -> Entries]
                /\ kv \in [GrantKeys -> Shown]
                /\ work \in [GrantKeys -> Works]
                /\ \A m \in late : m.key \in GrantKeys /\ m.kind \in {"publish", "cancel", "admit"}
                /\ mishaps \in 0..MaxMishaps

(* A legacy record may or may not have a row in its pool.                  *)
LegacyRow == [status |-> "legacy", previous |-> "none"]

AttachInit == /\ owner = [k \in GrantKeys |-> NoOwner]
              /\ \E home \in [Legacy -> Providers], pooled \in SUBSET Legacy :
                   /\ index = [k \in GrantKeys |-> IF k \in pooled
                                              THEN [Blank EXCEPT !.member[home[k]] = LegacyRow]
                                              ELSE Blank]
                   /\ \A p \in Providers : Cardinality(Seats(index, p)) <= Capacity
              /\ kv = [k \in GrantKeys |-> [generation |-> 0,
                                       status |-> IF k \in Legacy THEN "legacy" ELSE "none"]]
              /\ work = [k \in GrantKeys |-> NoWork]
              /\ late = {}
              /\ mishaps = 0

-----------------------------------------------------------------------------
HasOwner(k) == owner[k] # NoOwner
LegacyMetadata(k) == ~HasOwner(k) /\ kv[k].status = "legacy"

WorkGoes(k, at) == work' = [work EXCEPT ![k].at = at]
WorkEnds(k) == work' = [work EXCEPT ![k] = NoWork]

(* publishProjection begins with reconcileAttachment when the owner is     *)
(* dirty, and with the KV write otherwise.                                 *)
PublishProjection(k, dirty) ==
    work' = [work EXCEPT ![k] = Work(IF dirty THEN "read" ELSE "kv", "sync", @.seen, NoDraft)]

-----------------------------------------------------------------------------
(* /put with its two intents; a device flow begins with a put of a grant   *)
(* that still has to be authorized (beginMiniMaxDevice and                 *)
(* beginCopilotDevice) and installs over it (installMiniMaxDevice).        *)
PutGrant(k) ==
    /\ work[k] = NoWork
    /\ owner[k].generation < MaxGrantGen
    /\ \E draft \in Drafts, goal \in {"put", "replace"} :
         /\ draft.reauth => \/ draft.enabled /\ ~LegacyMetadata(k)
                            \/ HasOwner(k) /\ owner[k].reauth
         /\ goal = "replace" => ~HasOwner(k) /\ ~draft.reauth
         /\ work' = [work EXCEPT ![k] = Work("read", goal, NoWork.seen, draft)]
    /\ UNCHANGED <<owner, index, kv, late, mishaps>>

Install(k) ==
    /\ work[k] = NoWork
    /\ HasOwner(k) /\ StatusOf(owner[k]) = "reauth_required"
    /\ owner[k].generation < MaxGrantGen
    /\ work' = [work EXCEPT ![k] = Work("read", "install", NoWork.seen,
            [provider |-> owner[k].provider, enabled |-> TRUE, reauth |-> FALSE])]
    /\ UNCHANGED <<owner, index, kv, late, mishaps>>

(* /materialize and the alarm: a dirty owner is repaired first             *)
(* (loadRecord).  /quota-refresh reconciles a clean one too.               *)
Use(k) ==
    /\ work[k] = NoWork
    /\ HasOwner(k)
    /\ \E at \in {"read", "use"} :
         /\ owner[k].dirty => at = "read"
         /\ work' = [work EXCEPT ![k] = Work(at, "use", NoWork.seen, NoDraft)]
    /\ UNCHANGED <<owner, index, kv, late, mishaps>>

(* /inspect republishes a dirty owner.                                     *)
Inspect(k) ==
    /\ work[k] = NoWork
    /\ HasOwner(k) /\ owner[k].dirty
    /\ PublishProjection(k, TRUE)
    /\ UNCHANGED <<owner, index, kv, late, mishaps>>

(* /materialize of a legacy record, which may have been revoked in KV:     *)
(* the owner is committed before it is published.                          *)
ImportGrant(k) ==
    /\ work[k] = NoWork
    /\ LegacyMetadata(k) /\ MaxGrantGen > 0
    /\ \E p \in Providers, gone \in BOOLEAN :
         /\ \A q \in Providers \ {p} : index[k].member[q].status # "legacy"
         /\ owner' = [owner EXCEPT ![k] =
                [generation |-> 1, provider |-> p, enabled |-> ~gone, reauth |-> FALSE,
                 revoked |-> gone, dirty |-> TRUE, receipt |-> 0]]
    /\ work' = [work EXCEPT ![k] = Work("read", "use", NoWork.seen, NoDraft)]
    /\ UNCHANGED <<index, kv, late, mishaps>>

(* /reconcile, also from scheduleProjectionRepair and the pending list     *)
(* (pendingGrantAttachments).                                              *)
Reconcile(k) ==
    /\ work[k] = NoWork
    /\ work' = [work EXCEPT ![k] = Work("read", "reconcile", NoWork.seen, NoDraft)]
    /\ UNCHANGED <<owner, index, kv, late, mishaps>>

(* /revoke: the tombstone is stored before anything is published.          *)
Tombstone(k) ==
    IF HasOwner(k)
    THEN [owner[k] EXCEPT !.revoked = TRUE, !.enabled = FALSE, !.reauth = FALSE, !.dirty = TRUE,
                          !.generation = @ + (IF owner[k].revoked THEN 0 ELSE 1),
                          !.receipt = IF owner[k].revoked THEN @ ELSE 0]
    ELSE [generation |-> index[k].generation + 1, provider |-> CHOOSE p \in Providers : TRUE,
          enabled |-> FALSE, reauth |-> FALSE, revoked |-> TRUE, dirty |-> TRUE, receipt |-> 0]
MutRevokeDetachesFirst(k) ==
    /\ work[k] = NoWork
    /\ HasOwner(k)
    /\ Tombstone(k).generation <= MaxGrantGen
    /\ index' = [index EXCEPT ![k] = [Blank EXCEPT !.generation = Tombstone(k).generation,
                                                   !.revision = index[k].revision + 1]]
    /\ PublishProjection(k, TRUE)
    /\ UNCHANGED <<owner, kv, late, mishaps>>
RevokeGrant(k) ==
    /\ work[k] = NoWork
    /\ HasOwner(k) \/ LegacyMetadata(k)
    /\ Tombstone(k).generation <= MaxGrantGen
    /\ owner' = [owner EXCEPT ![k] = Tombstone(k)]
    /\ PublishProjection(k, TRUE)
    /\ UNCHANGED <<index, kv, late, mishaps>>

-----------------------------------------------------------------------------
(* A key without owner and without metadata is admitted only where the     *)
(* index holds nothing of it.                                              *)
FirstAdmission(k, s) ==
    LegacyMetadata(k) \/ (s.generation = 0 /\ ~s.attached /\ ~s.pending)

(* /grant-pools/attachment: the read every mutation is fenced by.          *)
ReadIndex(k) ==
    LET s == Snapshot(index[k]) goal == work[k].goal IN
    /\ work[k].at = "read"
    /\ work' = [work EXCEPT ![k] =
         CASE goal = "install" -> [@ EXCEPT !.at = "admit", !.seen = s]
           [] goal = "replace" /\ FirstAdmission(k, s) -> [@ EXCEPT !.at = "admit", !.seen = s]
           [] goal = "replace" /\ s.generation = 0 /\ s.pending -> [@ EXCEPT !.goal = "put"]
           [] goal = "replace" -> NoWork
           [] OTHER -> [@ EXCEPT !.at = "call", !.seen = s]]
    /\ UNCHANGED <<owner, index, kv, late, mishaps>>

(* The calls a handler makes to the authority, fenced by what it has seen. *)
PublishCall(k) ==
    IF HasOwner(k)
    THEN [key |-> k, kind |-> "publish", revision |-> work[k].seen.revision,
          generation |-> owner[k].generation, provider |-> owner[k].provider,
          status |-> StatusOf(owner[k]), receipt |-> owner[k].receipt]
    ELSE [key |-> k, kind |-> "cancel", revision |-> work[k].seen.revision]

AdmitCall(k) ==
    LET d == work[k].draft IN
    [key |-> k, kind |-> "admit", revision |-> work[k].seen.revision,
     generation |-> IF work[k].goal = "replace" THEN work[k].seen.generation
                    ELSE owner[k].generation,
     provider |-> d.provider,
     status |-> StatusOf([enabled |-> d.enabled, reauth |-> d.reauth, revoked |-> FALSE])]

Accepted(m) == CASE m.kind = "publish" -> PublishAccepted(index[m.key], m)
                 [] m.kind = "cancel" -> CancelAccepted(index[m.key], m)
                 [] m.kind = "admit" -> AdmitAccepted(index, m.key, m)
Applied(m) == CASE m.kind = "publish" -> Published(index[m.key], m)
                [] m.kind = "cancel" -> Cancelled(index[m.key])
                [] m.kind = "admit" -> Admitted(index[m.key], m)

Refused(k) == WorkEnds(k) /\ UNCHANGED <<owner, index, kv, late, mishaps>>

(* reconcileAttachment and what its caller does next.                      *)
CallIndex(k) ==
    LET m == PublishCall(k) e == Applied(m) goal == work[k].goal IN
    /\ work[k].at = "call"
    /\ IF ~Accepted(m) THEN Refused(k)
       ELSE /\ index' = [index EXCEPT ![k] = e]
            /\ CASE goal = "put" ->
                      IF HasOwner(k) \/ FirstAdmission(k, Snapshot(e))
                      THEN work' = [work EXCEPT ![k].at = "admit", ![k].seen = Snapshot(e)]
                      ELSE WorkEnds(k)
                 [] goal = "use" -> WorkGoes(k, "use")
                 [] goal = "reconcile" -> IF HasOwner(k) THEN PublishProjection(k, owner[k].dirty)
                                          ELSE WorkEnds(k)
                 [] goal = "sync" -> WorkGoes(k, "kv")
            /\ UNCHANGED <<owner, kv, late, mishaps>>

Admit(k) ==
    LET m == AdmitCall(k) IN
    /\ work[k].at = "admit"
    /\ IF ~Accepted(m) THEN Refused(k)
       ELSE /\ index' = [index EXCEPT ![k] = Applied(m)]
            /\ work' = [work EXCEPT ![k].at = "commit", ![k].seen.revision = Applied(m).revision]
            /\ UNCHANGED <<owner, kv, late, mishaps>>

(* storage.put of the new generation with its receipt.                     *)
CommitGrant(k) ==
    LET d == work[k].draft IN
    /\ work[k].at = "commit"
    /\ owner' = [owner EXCEPT ![k] =
           [generation |-> 1 + (IF work[k].goal = "replace" THEN work[k].seen.generation
                                ELSE owner[k].generation),
            provider |-> d.provider, enabled |-> d.enabled, reauth |-> d.reauth,
            revoked |-> FALSE, dirty |-> TRUE, receipt |-> work[k].seen.revision]]
    /\ PublishProjection(k, TRUE)
    /\ UNCHANGED <<index, kv, late, mishaps>>

-----------------------------------------------------------------------------
(* refresh: a rotation and a permanent rejection are new generations, any  *)
(* other failure keeps the generation; each is stored dirty.               *)
MutRotatedTwice(o) == [o EXCEPT !.generation = @ + 2, !.dirty = TRUE]
Rotated(o) == [o EXCEPT !.generation = @ + 1, !.dirty = TRUE]
MutRejectedClean(o) == [o EXCEPT !.reauth = TRUE]
Rejected(o) == [o EXCEPT !.generation = @ + 1, !.reauth = TRUE, !.dirty = TRUE]
Deferred(o) == [o EXCEPT !.dirty = TRUE]

RefreshGrant(k) ==
    /\ work[k].at = "use" /\ k \notin Probed
    /\ StatusOf(owner[k]) = "active"
    /\ owner' \in {[owner EXCEPT ![k] = o] :
                     o \in {Deferred(owner[k])} \cup
                           (IF owner[k].generation < MaxGrantGen
                            THEN {Rotated(owner[k]), Rejected(owner[k])} ELSE {})}
    /\ PublishProjection(k, owner'[k].dirty)
    /\ UNCHANGED <<index, kv, late, mishaps>>

(* probeQuota: a 401 for a grant that cannot be refreshed.                 *)
Probe401(k) ==
    /\ work[k].at = "use"
    /\ StatusOf(owner[k]) = "active"
    /\ owner' = [owner EXCEPT ![k].reauth = TRUE]
    /\ PublishProjection(k, owner[k].dirty)
    /\ UNCHANGED <<index, kv, late, mishaps>>

(* Nothing is refreshed: the credential is handed out, or denied; a caller *)
(* with a stale KV record has it written again.                            *)
Served(k) ==
    /\ work[k].at = "use"
    /\ PublishProjection(k, owner[k].dirty) \/ (~owner[k].dirty /\ WorkEnds(k))
    /\ UNCHANGED <<owner, index, kv, late, mishaps>>

-----------------------------------------------------------------------------
(* publishProjection: the KV record, then the flag.                        *)
PublishKv(k) ==
    /\ work[k].at = "kv"
    /\ kv' = [kv EXCEPT ![k] = [generation |-> owner[k].generation, status |-> StatusOf(owner[k])]]
    /\ WorkGoes(k, "clean")
    /\ UNCHANGED <<owner, index, late, mishaps>>

Clean(k) ==
    /\ work[k].at = "clean"
    /\ owner' = [owner EXCEPT ![k].dirty = FALSE]
    /\ WorkEnds(k)
    /\ UNCHANGED <<index, kv, late, mishaps>>

-----------------------------------------------------------------------------
(* A remote call, a write or the object fails.  A call given up on may     *)
(* still reach the authority.                                              *)
CallFails(k) ==
    /\ mishaps < MaxMishaps
    /\ mishaps' = mishaps + 1
    /\ work[k] # NoWork
    /\ WorkEnds(k)
    /\ \/ late' = late
       \/ work[k].at = "call" /\ late' = late \cup {PublishCall(k)}
       \/ work[k].at = "admit" /\ late' = late \cup {AdmitCall(k)}
    /\ UNCHANGED <<owner, index, kv>>

Deliver(m) ==
    /\ late' = late \ {m}
    /\ index' = IF Accepted(m) THEN [index EXCEPT ![m.key] = Applied(m)] ELSE index
    /\ UNCHANGED <<owner, kv, work, mishaps>>

Step(k) == \/ ReadIndex(k) \/ CallIndex(k) \/ Admit(k) \/ CommitGrant(k)
           \/ Served(k) \/ PublishKv(k) \/ Clean(k)

AttachNext ==
    \/ \E k \in GrantKeys :
         \/ PutGrant(k) \/ Install(k) \/ Use(k) \/ Inspect(k)
         \/ ImportGrant(k) \/ Reconcile(k) \/ RevokeGrant(k)
         \/ Step(k) \/ RefreshGrant(k) \/ CallFails(k)
    \/ \E k \in Probed : Probe401(k)
    \/ \E m \in late : Deliver(m)

AttachSpec == AttachInit /\ [][AttachNext]_attachVars

(* Requests keep reaching the owners the index selects, and the tail of a  *)
(* key is first in, first out, so none of them is overtaken forever; a     *)
(* handler that does not fail goes on.                                     *)
UseSelected(k) == (\E p \in Providers : Selectable(index[k], p)) /\ Use(k)

AttachFairness ==
    \A k \in GrantKeys : WF_attachVars(Step(k)) /\ SF_attachVars(UseSelected(k))

-----------------------------------------------------------------------------
(* admitGrantAttachment: the active members and active proposals of a pool *)
(* never exceed its capacity, whatever proposals fail, are put back, are   *)
(* acknowledged late or arrive late.                                       *)
CapacityKept == \A p \in Providers : Cardinality(Seats(index, p)) <= Capacity

(* attachmentMutation and the order commit-then-publish: the index never   *)
(* holds a generation its owner has not stored ("attachment is newer than  *)
(* the credential owner; operator recovery is required").                  *)
IndexNeverAhead == \A k \in GrantKeys : index[k].generation <= owner[k].generation

(* reconcileAttachment: whatever handlers failed and whatever calls are    *)
(* still on their way, publishing the stored owner after a fresh read of   *)
(* the index is accepted.                                                  *)
NeverWedged ==
    \A k \in GrantKeys \ Probed : HasOwner(k) =>
        PublishAccepted(index[k], [revision |-> index[k].revision,
            generation |-> owner[k].generation, provider |-> owner[k].provider,
            status |-> StatusOf(owner[k]), receipt |-> owner[k].receipt])

(* publishProjection: an owner that is not dirty is what both indexes      *)
(* show: its generation, its status and, but for proposals, exactly its    *)
(* own row.  Only a legacy import may be without a row.                    *)
CleanIsPublished ==
    \A k \in GrantKeys \ Probed : HasOwner(k) /\ ~owner[k].dirty =>
        LET o == owner[k] rows == Restored(index[k]).member IN
        /\ index[k].generation = o.generation /\ index[k].shown = StatusOf(o)
        /\ kv[k] = [generation |-> o.generation, status |-> StatusOf(o)]
        /\ \A p \in Providers :
             \/ rows[p] = NoMember /\ (o.revoked \/ p # o.provider \/ o.receipt = 0)
             \/ ~o.revoked /\ p = o.provider /\ rows[p].status = StatusOf(o)

(* docs/refresh-ownership.md: "A stale projection may reach the owner      *)
(* once, but cannot keep selecting it indefinitely."  A pool that selects  *)
(* a grant its owner denies stops doing so.                                *)
StaleSelection(k) ==
    /\ HasOwner(k) /\ StatusOf(owner[k]) # "active"
    /\ \E p \in Providers : Selectable(index[k], p)
StaleSelectionEnds == \A k \in GrantKeys \ Probed : StaleSelection(k) ~> ~StaleSelection(k)

(* docs/architecture.md: "Paused and reauthorization-required rows retain  *)
(* attachment presence and free an active slot."                           *)
InactiveFreesSlot ==
    \A k \in GrantKeys :
      work[k] = NoWork /\ HasOwner(k) /\ ~owner[k].dirty /\ StatusOf(owner[k]) # "active" =>
        \A p \in Providers : ~Selectable(index[k], p)

(* Owner and index: whichever of admission, commit and publication was     *)
(* lost or came late, the index is never ahead of the owner, a clean owner *)
(* is what the index shows, and a dirty one can still be published.        *)
IndexAgrees == AttachTypeOK /\ IndexNeverAhead /\ NeverWedged /\ CleanIsPublished
=============================================================================
