-------------------------- MODULE RefreshOwnership --------------------------
(***************************************************************************)
(* Refresh tokens of grants: the ownership index (worker/                  *)
(* refresh-ownership.ts) and the fenced exchange of a token by its owner   *)
(* (performRefresh, recordRefreshFailure and /put in worker/               *)
(* grant-credentials.ts).                                                  *)
(*                                                                         *)
(* A provider accepts a rotating token once.  The same token may have been *)
(* copied into several grants, some of them older than the index.  The     *)
(* object of a grant runs one handler at a time; so does the index object, *)
(* but it reads other owners past their tails.                             *)
(***************************************************************************)
EXTENDS Integers, FiniteSets

CONSTANTS
    Keys,        \* grants
    Tokens,      \* refresh tokens
    Old,         \* grants that are older than the index
    NoToken,
    MaxFaults    \* bound: failures, lost replies and transient rejections

ASSUME OwnershipType ==
    IsFiniteSet(Keys) /\ Old \subseteq Keys /\ NoToken \notin Tokens /\ MaxFaults \in Nat

VARIABLES
    rec,       \* the credential record of each grant
    kvToken,   \* the token of a legacy KV record without owner
    registry,  \* the reservation of each token: owner and used
    task,      \* the handler at the head of the tail of each grant
    scan,      \* the claim the index object is working on
    orphans,   \* claims whose grant gave up before the index took them
    valid,     \* tokens the provider accepts
    issued,    \* tokens the provider has ever issued
    spent,     \* tokens the provider has exchanged for a grant
    doubt,     \* tokens sent, the outcome not durably settled
    replayed,  \* tokens sent while in doubt
    sentBy,    \* the grants that sent each token
    faults

world == <<valid, issued, spent, doubt, replayed, sentBy>>
vars == <<rec, kvToken, registry, task, scan, orphans, world, faults>>

Records == [token : Tokens \cup {NoToken}, attempt : BOOLEAN, reauth : BOOLEAN]
NoRecord == [token |-> NoToken]
Reservations == [owner : Keys, used : BOOLEAN]
Free == [used |-> FALSE]

Claims == [key : Keys, token : Tokens, current : BOOLEAN, consume : BOOLEAN]
NoClaim == [consume |-> FALSE]
Scans == [claim : Claims, left : SUBSET Keys, absent : SUBSET Keys, heard : BOOLEAN]
NoScan == [heard |-> FALSE]

(* claim: waiting for the index to take the claim; taken: for its answer.  *)
Places == {"idle", "claim", "taken", "commit", "fence", "send", "settle"}
Tasks == [at : Places, why : {"none", "put", "import", "refresh", "rotate"},
          token : Tokens \cup {NoToken}, fresh : BOOLEAN, claim : Claims \cup {NoClaim}]
Idle == [at |-> "idle", why |-> "none", token |-> NoToken, fresh |-> FALSE, claim |-> NoClaim]

TypeOK == /\ rec \in [Keys -> Records \cup {NoRecord}]
          /\ kvToken \in [Keys -> Tokens \cup {NoToken}]
          /\ registry \in [Tokens -> Reservations \cup {Free}]
          /\ task \in [Keys -> Tasks]
          /\ scan \in Scans \cup {NoScan}
          /\ orphans \subseteq Claims
          /\ valid \subseteq issued /\ spent \subseteq issued /\ issued \subseteq Tokens
          /\ doubt \subseteq issued /\ replayed \subseteq issued
          /\ sentBy \in [Tokens -> SUBSET Keys]
          /\ faults \in 0..MaxFaults

(* An old grant is a KV record or already has an owner; old grants may     *)
(* share a token.                                                          *)
Init == /\ \E old \in [Old -> Tokens], owned \in SUBSET Old :
             /\ rec = [k \in Keys |-> IF k \in owned
                        THEN [token |-> old[k], attempt |-> FALSE, reauth |-> FALSE] ELSE NoRecord]
             /\ kvToken = [k \in Keys |-> IF k \in Old \ owned THEN old[k] ELSE NoToken]
             /\ issued = {old[k] : k \in Old}
        /\ valid = issued
        /\ registry = [t \in Tokens |-> Free]
        /\ task = [k \in Keys |-> Idle]
        /\ scan = NoScan
        /\ orphans = {} /\ spent = {} /\ doubt = {} /\ replayed = {}
        /\ sentBy = [t \in Tokens |-> {}]
        /\ faults = 0

-----------------------------------------------------------------------------
Exists(k) == rec[k] # NoRecord
Fault == faults < MaxFaults /\ faults' = faults + 1
Ends(k) == task' = [task EXCEPT ![k] = Idle]
Goes(k, at) == task' = [task EXCEPT ![k].at = at]

Claiming(k, why, t, fresh, current, consume) ==
    task' = [task EXCEPT ![k] = [at |-> "claim", why |-> why, token |-> t, fresh |-> fresh,
        claim |-> [key |-> k, token |-> t, current |-> current, consume |-> consume]]]

(* Without a token there is nothing to claim.                              *)
Committing(k, fresh) ==
    task' = [task EXCEPT ![k] = [at |-> "commit", why |-> "put", token |-> NoToken,
        fresh |-> fresh, claim |-> NoClaim]]

-----------------------------------------------------------------------------
(* /put: a token is given (pasted again, or from a fresh login), kept or   *)
(* removed; fresh says whether a fresh access credential comes without it. *)
(* The stored token is claimed as current unless it is given again while   *)
(* its exchange is in doubt.                                               *)
CurrentToken(k, t, given) ==
    Exists(k) /\ rec[k].token = t /\ (~rec[k].attempt \/ ~given)

Put(k) ==
    /\ task[k] = Idle
    /\ \E t \in Tokens \cup {NoToken}, given \in BOOLEAN, fresh \in BOOLEAN :
         /\ ~given => Exists(k) /\ t = rec[k].token
         /\ fresh => t = NoToken
         /\ IF t = NoToken
            THEN /\ Committing(k, fresh)
                 /\ UNCHANGED <<valid, issued>>
            ELSE /\ Claiming(k, "put", t, fresh, CurrentToken(k, t, given), FALSE)
                 /\ issued' = issued \cup {t}
                 /\ valid' = IF t \in issued THEN valid ELSE valid \cup {t}
    /\ UNCHANGED <<rec, kvToken, registry, scan, orphans, spent, doubt, replayed, sentBy, faults>>

(* The fence and the rejection stay with the token they are about, and     *)
(* with a failed access credential that was not replaced.                  *)
MutRetainedNever(k) == FALSE
Retained(k) ==
    /\ Exists(k)
    /\ \/ task[k].token # NoToken /\ task[k].token = rec[k].token
       \/ task[k].token = NoToken /\ ~task[k].fresh

Commit(k) ==
    /\ task[k].at = "commit"
    /\ rec' = [rec EXCEPT ![k] =
           [token |-> task[k].token,
            attempt |-> task[k].why = "put" /\ Retained(k) /\ rec[k].attempt,
            reauth |-> task[k].why = "put" /\ Retained(k) /\ rec[k].reauth]]
    /\ doubt' = IF task[k].why = "rotate" THEN doubt \ {rec[k].token} ELSE doubt
    /\ Ends(k)
    /\ UNCHANGED <<kvToken, registry, scan, orphans, valid, issued, spent, replayed, sentBy, faults>>

(* /materialize of a legacy record.                                        *)
Import(k) ==
    /\ task[k] = Idle
    /\ ~Exists(k) /\ kvToken[k] # NoToken
    /\ Claiming(k, "import", kvToken[k], FALSE, FALSE, FALSE)
    /\ UNCHANGED <<rec, kvToken, registry, scan, orphans, world, faults>>

(* /revoke; publishProjection overwrites a legacy record after a commit.   *)
Revoke(k) ==
    /\ task[k] = Idle
    /\ Exists(k) \/ kvToken[k] # NoToken
    /\ rec' = [rec EXCEPT ![k] = [token |-> NoToken, attempt |-> FALSE, reauth |-> FALSE]]
    /\ UNCHANGED <<kvToken, registry, task, scan, orphans, world, faults>>

WriteKv(k) ==
    /\ Exists(k) /\ kvToken[k] # NoToken
    /\ kvToken' = [kvToken EXCEPT ![k] = NoToken]
    /\ UNCHANGED <<rec, registry, task, scan, orphans, world, faults>>

-----------------------------------------------------------------------------
(* reserveRefreshOwnership, one claim at a time: an existing reservation   *)
(* answers at once; otherwise every grant KV lists is read first.  KV      *)
(* lists the old grants, and of the others those it has already seen.      *)
Answer(c, heard, granted) ==
    IF ~heard THEN UNCHANGED task
    ELSE IF ~granted THEN Ends(c.key)
    ELSE Goes(c.key, IF c.consume THEN "fence" ELSE "commit")

MutGrantsAnyKey(c) == registry[c.token].used => c.current
Grants(c) == registry[c.token].owner = c.key /\ (registry[c.token].used => c.current)

Take(c, heard) ==
    /\ scan = NoScan
    /\ IF registry[c.token] # Free
       THEN /\ registry' = IF Grants(c) /\ c.consume
                           THEN [registry EXCEPT ![c.token].used = TRUE] ELSE registry
            /\ Answer(c, heard, Grants(c))
            /\ UNCHANGED scan
       ELSE /\ \E listed \in SUBSET Keys :
                 /\ Old \subseteq listed
                 /\ scan' = [claim |-> c, left |-> listed \ {c.key},
                           absent |-> {}, heard |-> heard]
            /\ IF heard THEN Goes(c.key, "taken") ELSE UNCHANGED task
            /\ UNCHANGED registry

TakeClaim(k) ==
    /\ task[k].at = "claim"
    /\ Take(task[k].claim, TRUE)
    /\ UNCHANGED <<rec, kvToken, orphans, world, faults>>

TakeOrphan(c) ==
    /\ Take(c, FALSE)
    /\ orphans' = orphans \ {c}
    /\ UNCHANGED <<rec, kvToken, world, faults>>

(* OWNERSHIP_CURRENT is read past the tail of the other owner; where there *)
(* is none, its KV record is read after that.                              *)
Compare(j, held, others) ==
    IF held = scan.claim.token
    THEN /\ registry' = [registry EXCEPT ![scan.claim.token] = [owner |-> j, used |-> FALSE]]
         /\ Answer(scan.claim, scan.heard, FALSE)
         /\ scan' = NoScan
    ELSE /\ scan' = others
         /\ UNCHANGED <<registry, task>>

MutOwnersOnly(j) ==
    /\ scan # NoScan /\ j \in scan.left
    /\ Compare(j, rec[j].token, [scan EXCEPT !.left = @ \ {j}])
    /\ UNCHANGED <<rec, kvToken, orphans, world, faults>>
ReadOwner(j) ==
    /\ scan # NoScan /\ j \in scan.left
    /\ Compare(j, rec[j].token, [scan EXCEPT !.left = @ \ {j},
                                            !.absent = IF Exists(j) THEN @ ELSE @ \cup {j}])
    /\ UNCHANGED <<rec, kvToken, orphans, world, faults>>

ReadKv(j) ==
    /\ scan # NoScan /\ j \in scan.absent
    /\ Compare(j, kvToken[j], [scan EXCEPT !.absent = @ \ {j}])
    /\ UNCHANGED <<rec, kvToken, orphans, world, faults>>

MutReserveOwnerless ==
    /\ scan # NoScan /\ scan.left = {} /\ scan.absent = {}
    /\ registry' = [registry EXCEPT ![scan.claim.token].used = scan.claim.consume]
    /\ Answer(scan.claim, scan.heard, TRUE)
    /\ scan' = NoScan
    /\ UNCHANGED <<rec, kvToken, orphans, world, faults>>
Reserve ==
    /\ scan # NoScan /\ scan.left = {} /\ scan.absent = {}
    /\ registry' = [registry EXCEPT ![scan.claim.token] =
                        [owner |-> scan.claim.key, used |-> scan.claim.consume]]
    /\ Answer(scan.claim, scan.heard, TRUE)
    /\ scan' = NoScan
    /\ UNCHANGED <<rec, kvToken, orphans, world, faults>>

-----------------------------------------------------------------------------
(* performRefresh: claim with consume, the durable fence, the exchange,    *)
(* its settlement.                                                         *)
Refresh(k) ==
    /\ task[k] = Idle
    /\ Exists(k) /\ rec[k].token # NoToken /\ ~rec[k].attempt /\ ~rec[k].reauth
    /\ Claiming(k, "refresh", rec[k].token, FALSE, TRUE, TRUE)
    /\ UNCHANGED <<rec, kvToken, registry, scan, orphans, world, faults>>

MutFenceInMemory(k) ==
    /\ task[k].at = "fence"
    /\ Goes(k, "send")
    /\ UNCHANGED <<rec, kvToken, registry, scan, orphans, world, faults>>
Fence(k) ==
    /\ task[k].at = "fence"
    /\ rec' = [rec EXCEPT ![k].attempt = TRUE]
    /\ Goes(k, "send")
    /\ UNCHANGED <<kvToken, registry, scan, orphans, world, faults>>

(* The request leaves: the provider rotates the token, keeps it, or        *)
(* rejects it for good, as it does with one that is not valid.  The answer *)
(* is in task.token: the new token, the old one, or none.                  *)
Leaves(t, k) ==
    /\ sentBy' = [sentBy EXCEPT ![t] = @ \cup {k}]
    /\ doubt' = doubt \cup {t}
    /\ replayed' = IF t \in doubt THEN replayed \cup {t} ELSE replayed

Exchange(k) ==
    LET t == rec[k].token IN
    /\ task[k].at = "send"
    /\ Leaves(t, k)
    /\ \/ \E new \in Tokens \ issued :
            /\ t \in valid
            /\ valid' = (valid \ {t}) \cup {new} /\ issued' = issued \cup {new}
            /\ spent' = spent \cup {t}
            /\ task' = [task EXCEPT ![k].at = "settle", ![k].token = new]
       \/ /\ t \in valid
          /\ task' = [task EXCEPT ![k].at = "settle", ![k].token = t]
          /\ UNCHANGED <<valid, issued, spent>>
       \/ /\ task' = [task EXCEPT ![k].at = "settle", ![k].token = NoToken]
          /\ valid' = valid \ {t}
          /\ UNCHANGED <<issued, spent>>
    /\ UNCHANGED <<rec, kvToken, registry, scan, orphans, faults>>

(* A received rejection that is not permanent, or a redirect: the token    *)
(* was not exchanged and the fence is lifted.                              *)
TransientRejection(k) ==
    LET t == rec[k].token IN
    /\ task[k].at = "send"
    /\ Fault
    /\ sentBy' = [sentBy EXCEPT ![t] = @ \cup {k}]
    /\ replayed' = IF t \in doubt THEN replayed \cup {t} ELSE replayed
    /\ rec' = [rec EXCEPT ![k].attempt = FALSE]
    /\ Ends(k)
    /\ UNCHANGED <<kvToken, registry, scan, orphans, valid, issued, spent, doubt>>

(* A rotated or kept token is claimed before it is stored; a permanent     *)
(* rejection is stored.                                                    *)
Settle(k) ==
    LET t == task[k].token IN
    /\ task[k].at = "settle"
    /\ IF t = NoToken
       THEN /\ rec' = [rec EXCEPT ![k].attempt = FALSE, ![k].reauth = TRUE]
            /\ doubt' = doubt \ {rec[k].token}
            /\ Ends(k)
       ELSE /\ Claiming(k, "rotate", t, FALSE, t = rec[k].token, FALSE)
            /\ UNCHANGED <<rec, doubt>>
    /\ UNCHANGED <<kvToken, registry, scan, orphans, valid, issued, spent, replayed, sentBy, faults>>

-----------------------------------------------------------------------------
(* A call or a write fails, the answer of the provider is lost, or the     *)
(* object restarts: the handler ends where it is.  A claim may still be    *)
(* taken, or go on, unheard.                                               *)
Fail(k) ==
    /\ Fault
    /\ task[k] # Idle
    /\ Ends(k)
    /\ scan' = IF task[k].at = "taken" THEN [scan EXCEPT !.heard = FALSE] ELSE scan
    /\ \/ orphans' = orphans
       \/ task[k].at = "claim" /\ orphans' = orphans \cup {task[k].claim}
    /\ UNCHANGED <<rec, kvToken, registry, world>>

Next ==
    \/ \E k \in Keys :
         \/ Put(k) \/ Commit(k) \/ Import(k) \/ Revoke(k) \/ WriteKv(k)
         \/ TakeClaim(k) \/ ReadOwner(k) \/ ReadKv(k) \/ Refresh(k) \/ Fence(k) \/ Exchange(k)
         \/ TransientRejection(k) \/ Settle(k) \/ Fail(k)
    \/ \E c \in orphans : TakeOrphan(c)
    \/ Reserve

Spec == Init /\ [][Next]_vars

-----------------------------------------------------------------------------
(* reserveRefreshOwnership: however a refresh token was copied between     *)
(* grants, before the index existed or since, at most one grant ever sends *)
(* it to the provider.                                                     *)
OneSender == \A t \in Tokens : Cardinality(sentBy[t]) <= 1

(* reserveRefreshOwnership: "old digests are never transferred to a copy": *)
(* a token is first reserved to the grant that claims it only if no other  *)
(* grant holds it then, whatever is stored, imported, revoked or published *)
(* while the index looks for it.                                           *)
Held(j) == IF Exists(j) THEN rec[j].token ELSE kvToken[j]
CopyNeverRobs ==
    [][\A t \in Tokens :
         /\ registry[t] = Free /\ registry'[t] # Free
         /\ registry'[t].owner = scan.claim.key
         => \A j \in Keys \ {scan.claim.key} : Held(j) # t]_vars

(* performRefresh: "a pending marker after restart is an ambiguous send,   *)
(* never permission to replay the old refresh token": a token whose        *)
(* exchange is in doubt is never sent again, by any path, also not after   *)
(* it was removed, pasted again or its grant revoked.                      *)
NeverReplayed == replayed = {}

(* recordRefreshFailure and /put: a grant at rest that still holds a token *)
(* it has spent is fenced, so that neither its access token nor that       *)
(* refresh token is used as if the rotation had not happened.              *)
SpentIsFenced ==
    \A k \in Keys : task[k] = Idle /\ Exists(k) /\ rec[k].token \in spent =>
        rec[k].attempt \/ rec[k].reauth \/ k \notin sentBy[rec[k].token]
=============================================================================
