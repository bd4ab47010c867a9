--------------------------- MODULE OwnerProofs ----------------------------
(***************************************************************************)
(* Theorems about the handlers of a credential owner, for any number of    *)
(* grants, tokens, callers, edits, failures and restarts: the ownership of *)
(* refresh tokens (RefreshOwnership), the device authorization flows       *)
(* (DeviceFlow) and the refresh of a Vertex service account                *)
(* (VertexRefresh).                                                        *)
(***************************************************************************)
EXTENDS RefreshOwnership, DeviceFlow, VertexRefresh, FiniteSetTheorems, TLAPS

(***************************************************************************)
(* Refresh ownership. One grant sends a refresh token, none is sent again  *)
(* while its exchange is in doubt, a spent one is fenced, and a token is   *)
(* not given to a copy while another grant holds it.                       *)
(*                                                                         *)
(* A reservation that was used is never moved, so the grant it names is    *)
(* the only sender.  A handler keeps its grant's record as long as it      *)
(* runs; what it read there is still true when the index answers.          *)
(***************************************************************************)

(* What the handler at the head of a tail relies on.                       *)
ClaimKept(k) ==
    task[k].at \in {"claim", "taken"} =>
        /\ task[k].claim \in Claims
        /\ task[k].claim.key = k
        /\ task[k].claim.token = task[k].token
        /\ task[k].claim.current => rec[k].token = task[k].token
        /\ task[k].claim.consume <=> task[k].why = "refresh"
        /\ task[k].why # "none"

(* The index works on the claim of the handler that hears its answer.      *)
Heard(k) ==
    task[k].at = "taken" => scan \in Scans /\ scan.heard /\ scan.claim = task[k].claim

Mine(k, t) == registry[t] # Free /\ registry[t].owner = k

ImportKept(k) == task[k].why = "import" => rec[k].token = NoToken

RefreshKept(k) ==
    task[k].why = "refresh" =>
        /\ rec[k].token \in Tokens
        /\ task[k].at \in {"claim", "taken", "fence", "send", "settle"}
        /\ task[k].at \in {"claim", "taken"} => task[k].token = rec[k].token
        /\ task[k].at # "settle" /\ Mine(k, rec[k].token) => rec[k].token \notin doubt

SendKept(k) ==
    task[k].at \in {"fence", "send"} =>
        task[k].why = "refresh" /\ Mine(k, rec[k].token) /\ registry[rec[k].token].used

(* An exchange that left is fenced until it is settled.                    *)
FencedSend(k) ==
    task[k].at \in {"send", "settle"} => rec[k].token \in Tokens /\ rec[k].attempt

CommitStepKept(k) ==
    task[k].at = "commit" =>
        /\ task[k].why \in {"put", "import", "rotate"}
        /\ task[k].token \in doubt /\ Mine(k, task[k].token) => task[k].token = rec[k].token

(* A record at rest that holds a token in doubt is fenced.                 *)
DoubtFenced(k) == rec[k].token \in doubt /\ Mine(k, rec[k].token) => rec[k].attempt

OnlyIssued(k) == {rec[k].token, kvToken[k], task[k].token} \subseteq issued \cup {NoToken}

Kept(k) ==
    /\ ClaimKept(k) /\ Heard(k) /\ ImportKept(k) /\ RefreshKept(k) /\ SendKept(k)
    /\ FencedSend(k) /\ CommitStepKept(k) /\ DoubtFenced(k) /\ OnlyIssued(k)
HandlerInv == \A k \in Keys : Kept(k)

(* A token that is searched for is not reserved, and an answer is heard by *)
(* the handler that made the claim.                                        *)
ScanInv ==
    scan # NoScan =>
        /\ registry[scan.claim.token] = Free
        /\ scan.heard => task[scan.claim.key].at = "taken" /\ task[scan.claim.key].claim = scan.claim

(* A token that was sent, or is in doubt, was used by the grant its        *)
(* reservation names.                                                      *)
SentInv ==
    /\ \A t \in Tokens :
        /\ \A k \in sentBy[t] : Mine(k, t)
        /\ sentBy[t] # {} \/ t \in doubt => registry[t].used
    /\ replayed = {}

Inv == TypeOK /\ HandlerInv /\ ScanInv /\ SentInv

LEMMA InvInit == Init => Inv
<1> SUFFICES ASSUME Init PROVE Inv
  OBVIOUS
<1> USE OwnershipType
<1>1. TypeOK
  BY DEF Init, TypeOK, Records, NoRecord, Reservations, Free, Tasks, Idle, Places, NoScan
<1>2. HandlerInv
  BY <1>1 DEF Init, HandlerInv, Kept, ClaimKept, Heard, ImportKept, RefreshKept, SendKept, FencedSend,
              CommitStepKept, DoubtFenced, OnlyIssued, Idle, NoRecord, TypeOK
<1>3. ScanInv /\ SentInv
  BY DEF Init, ScanInv, SentInv
<1> QED
  BY <1>1, <1>2, <1>3 DEF Inv

(* A step of the object of k touches nothing of the other grants, whose    *)
(* handlers therefore find what they relied on.                            *)
OwnOnly(k) ==
    /\ \A j \in Keys \ {k} : rec'[j] = rec[j] /\ kvToken'[j] = kvToken[j] /\ task'[j] = task[j]
    /\ registry' = registry /\ scan' = scan
    /\ issued \subseteq issued'
    /\ task'[k] = task[k] \/ task[k].at # "taken"

LEMMA OthersKept ==
    ASSUME Inv, NEW k \in Keys, OwnOnly(k), TypeOK', Kept(k)', SentInv',
           \A t \in doubt' : t \in doubt \/ Mine(k, t)
    PROVE  Inv'
<1> USE DEF Inv
<1>1. ASSUME NEW j \in Keys, j # k PROVE Kept(j)'
  <2>1. Kept(j) /\ task'[j] = task[j] /\ rec'[j] = rec[j] /\ kvToken'[j] = kvToken[j]
    BY <1>1 DEF HandlerInv, OwnOnly
  <2>2. \A t : Mine(j, t)' <=> Mine(j, t)
    BY DEF OwnOnly, Mine
  <2>3. \A t : t \in doubt' /\ Mine(j, t) => t \in doubt
    BY <1>1 DEF Mine
  <2>4. (ClaimKept(j) /\ Heard(j) /\ ImportKept(j) /\ FencedSend(j) /\ SendKept(j))'
    BY <2>1, <2>2 DEF Kept, OwnOnly, ClaimKept, Heard, ImportKept, FencedSend, SendKept
  <2>5. (RefreshKept(j) /\ CommitStepKept(j) /\ DoubtFenced(j))'
    BY <2>1, <2>2, <2>3 DEF Kept, RefreshKept, CommitStepKept, DoubtFenced
  <2>6. OnlyIssued(j)'
    BY <2>1 DEF Kept, OwnOnly, OnlyIssued
  <2> QED
    BY <2>4, <2>5, <2>6 DEF Kept
<1>2. HandlerInv'
  BY <1>1 DEF HandlerInv
<1>3. ScanInv'
  BY DEF ScanInv, OwnOnly, TypeOK, Scans, Claims, NoScan
<1> QED
  BY <1>2, <1>3

LEMMA ClaimingTask ==
    ASSUME TypeOK, NEW k \in Keys, NEW t \in Tokens, NEW fresh \in BOOLEAN,
           NEW why \in {"put", "import", "refresh", "rotate"},
           NEW current \in BOOLEAN, NEW consume \in BOOLEAN,
           Claiming(k, why, t, fresh, current, consume)
    PROVE  /\ task' \in [Keys -> Tasks]
           /\ \A j \in Keys \ {k} : task'[j] = task[j]
           /\ task'[k].at = "claim" /\ task'[k].why = why /\ task'[k].token = t
           /\ task'[k].claim \in Claims /\ task'[k].claim.key = k
           /\ task'[k].claim.token = t /\ task'[k].claim.current = current
           /\ task'[k].claim.consume = consume
<1> DEFINE c == [key |-> k, token |-> t, current |-> current, consume |-> consume]
           new == [at |-> "claim", why |-> why, token |-> t, fresh |-> fresh, claim |-> c]
<1>1. c \in Claims /\ c.key = k /\ c.token = t /\ c.current = current /\ c.consume = consume
  BY DEF Claims
<1> HIDE DEF c
<1>2. new \in Tasks /\ new.at = "claim" /\ new.why = why /\ new.token = t /\ new.claim = c
  BY <1>1, OwnershipType DEF Tasks, Places
<1>3. task' = [task EXCEPT ![k] = new]
  BY DEF Claiming, c
<1> HIDE DEF new
<1> QED
  BY <1>1, <1>2, <1>3 DEF TypeOK

(* A new claim relies on what its handler just read.                       *)
LEMMA ClaimKeeps ==
    ASSUME Inv, NEW k \in Keys, NEW t \in Tokens, NEW fresh \in BOOLEAN,
           NEW why \in {"put", "import", "refresh", "rotate"},
           NEW current \in BOOLEAN, NEW consume \in BOOLEAN,
           Claiming(k, why, t, fresh, current, consume),
           UNCHANGED <<rec, kvToken, registry, scan, doubt>>,
           issued \subseteq issued', t \in issued',
           current => rec[k].token = t,
           consume <=> why = "refresh",
           why = "import" => rec[k].token = NoToken,
           why = "refresh" => /\ rec[k].token = t
                              /\ Mine(k, t) => t \notin doubt
    PROVE  Kept(k)'
<1> USE DEF Inv
<1>1. /\ task'[k].at = "claim" /\ task'[k].why = why /\ task'[k].token = t
      /\ task'[k].claim \in Claims /\ task'[k].claim.key = k
      /\ task'[k].claim.token = t /\ task'[k].claim.current = current
      /\ task'[k].claim.consume = consume
  BY ClaimingTask
<1>2. Kept(k)
  BY DEF HandlerInv
<1>3. (ClaimKept(k) /\ Heard(k) /\ ImportKept(k) /\ SendKept(k) /\ FencedSend(k) /\ CommitStepKept(k))'
  BY <1>1 DEF ClaimKept, Heard, ImportKept, SendKept, FencedSend, CommitStepKept
<1>4. (RefreshKept(k) /\ DoubtFenced(k) /\ OnlyIssued(k))'
  BY <1>1, <1>2 DEF Kept, RefreshKept, DoubtFenced, OnlyIssued, Mine
<1> QED
  BY <1>3, <1>4 DEF Kept

LEMMA PutStep ==
    ASSUME Inv, NEW k \in Keys, Put(k)
    PROVE  Inv'
<1> USE DEF Inv
<1>1. PICK t \in Tokens \cup {NoToken}, given \in BOOLEAN, fresh \in BOOLEAN :
        /\ fresh => t = NoToken
        /\ IF t = NoToken
           THEN Committing(k, fresh) /\ UNCHANGED <<valid, issued>>
           ELSE /\ Claiming(k, "put", t, fresh, CurrentToken(k, t, given), FALSE)
                /\ issued' = issued \cup {t}
                /\ valid' = IF t \in issued THEN valid ELSE valid \cup {t}
  BY DEF Put
<1>2. /\ UNCHANGED <<rec, kvToken, registry, scan, orphans, spent, doubt, replayed, sentBy, faults>>
      /\ task[k].at = "idle"
  BY DEF Put, Idle
<1>3. SentInv'
  BY <1>2 DEF SentInv, Mine
<1>4. CASE t = NoToken
  <2>1. /\ task' \in [Keys -> Tasks]
        /\ \A j \in Keys \ {k} : task'[j] = task[j]
        /\ task'[k].at = "commit" /\ task'[k].why = "put" /\ task'[k].token = NoToken
    BY <1>1, <1>4, SMTT(60) DEF Committing, TypeOK, Tasks, Places
  <2>2. TypeOK' /\ OwnOnly(k)
    BY <1>1, <1>2, <1>4, <2>1 DEF TypeOK, OwnOnly
  <2>3. Kept(k)
    BY DEF HandlerInv
  <2>4. Kept(k)'
    BY <1>1, <1>2, <1>4, <2>1, <2>3, OwnershipType
    DEF TypeOK, Kept, ClaimKept, Heard, ImportKept, RefreshKept, SendKept, FencedSend, CommitStepKept,
        DoubtFenced, OnlyIssued, Mine
  <2> QED
    BY <1>2, <1>3, <2>2, <2>4, OthersKept
<1>5. CASE t # NoToken
  <2>1. t \in Tokens /\ fresh = FALSE /\ CurrentToken(k, t, given) \in BOOLEAN
    BY <1>1, <1>5 DEF CurrentToken
  <2>2. /\ task' \in [Keys -> Tasks] /\ \A j \in Keys \ {k} : task'[j] = task[j]
    <3>1. PICK current \in BOOLEAN : Claiming(k, "put", t, FALSE, current, FALSE)
      BY <1>1, <1>5, <2>1
    <3>2. CASE current = TRUE
      BY <2>1, <3>1, <3>2, ClaimingTask
    <3>3. CASE current = FALSE
      BY <2>1, <3>1, <3>3, ClaimingTask
    <3> QED
      BY <3>2, <3>3
  <2>3. TypeOK' /\ OwnOnly(k)
    BY <1>1, <1>2, <1>5, <2>1, <2>2 DEF TypeOK, OwnOnly
  <2>4. Kept(k)'
    BY <1>1, <1>2, <1>5, <2>1, ClaimKeeps DEF CurrentToken
  <2> QED
    BY <1>2, <1>3, <2>3, <2>4, OthersKept
<1> QED
  BY <1>4, <1>5

LEMMA IdleKept ==
    ASSUME NEW k \in Keys, task'[k] = Idle, DoubtFenced(k)', OnlyIssued(k)'
    PROVE  Kept(k)'
BY DEF Idle, Kept, ClaimKept, Heard, ImportKept, RefreshKept, SendKept, FencedSend, CommitStepKept

LEMMA CommitStep ==
    ASSUME Inv, NEW k \in Keys, Commit(k)
    PROVE  Inv'
<1> USE OwnershipType DEF Inv
<1> DEFINE new == [token |-> task[k].token,
                   attempt |-> task[k].why = "put" /\ Retained(k) /\ rec[k].attempt,
                   reauth |-> task[k].why = "put" /\ Retained(k) /\ rec[k].reauth]
<1>1. /\ rec' = [rec EXCEPT ![k] = new] /\ task' = [task EXCEPT ![k] = Idle]
      /\ task[k].at = "commit" /\ task[k] \in Tasks
      /\ UNCHANGED <<kvToken, registry, scan, orphans, valid, issued, spent, replayed, sentBy, faults>>
      /\ doubt' = IF task[k].why = "rotate" THEN doubt \ {rec[k].token} ELSE doubt
  BY DEF Commit, Ends, TypeOK
<1>2. new \in Records /\ new.token = task[k].token
      /\ (new.attempt <=> task[k].why = "put" /\ Retained(k) /\ rec[k].attempt)
  BY <1>1 DEF Records, Tasks
<1> HIDE DEF new
<1>3. Idle \in Tasks /\ Idle.token = NoToken /\ Idle.at = "idle"
  BY DEF Idle, Tasks, Places
<1>4. TypeOK'
  BY <1>1, <1>2, <1>3 DEF TypeOK
<1>5. OwnOnly(k)
  BY <1>1 DEF OwnOnly, TypeOK
<1>6. Kept(k) /\ rec'[k] = new /\ task'[k] = Idle
  BY <1>1 DEF HandlerInv, TypeOK
<1>7. DoubtFenced(k)'
  <2>1. SUFFICES ASSUME new.token \in doubt', Mine(k, new.token) PROVE new.attempt
    BY <1>1, <1>6 DEF DoubtFenced, Mine
  <2>2. task[k].token \in doubt /\ task[k].token \in Tokens /\ task[k].token = rec[k].token
    BY <1>1, <1>2, <1>6, <2>1 DEF Kept, CommitStepKept, TypeOK
  <2>3. task[k].why = "put"
    BY <1>1, <1>2, <1>6, <2>1, <2>2 DEF Kept, CommitStepKept, ImportKept
  <2>4. rec[k].attempt
    BY <1>2, <1>6, <2>1, <2>2 DEF Kept, DoubtFenced
  <2>5. Retained(k)
    BY <2>2 DEF Retained, Exists, NoRecord
  <2> QED
    BY <1>2, <2>3, <2>4, <2>5
<1>8. OnlyIssued(k)'
  BY <1>1, <1>2, <1>3, <1>6 DEF Kept, OnlyIssued
<1>9. Kept(k)' /\ SentInv'
  BY <1>1, <1>6, <1>7, <1>8, IdleKept DEF SentInv, Mine
<1> QED
  BY <1>1, <1>4, <1>5, <1>9, OthersKept

LEMMA ImportStep ==
    ASSUME Inv, NEW k \in Keys, Import(k)
    PROVE  Inv'
<1> USE OwnershipType DEF Inv
<1> DEFINE t == kvToken[k]
<1>1. /\ Claiming(k, "import", t, FALSE, FALSE, FALSE) /\ task[k] = Idle
      /\ rec[k] = NoRecord /\ t # NoToken
      /\ UNCHANGED <<rec, kvToken, registry, scan, orphans, faults>>
      /\ UNCHANGED <<valid, issued, spent, doubt, replayed, sentBy>>
  BY DEF Import, Exists, world
<1>2. task[k].at = "idle" /\ rec[k].token = NoToken /\ t \in Tokens
  BY <1>1 DEF Idle, NoRecord, TypeOK
<1>3. t \in issued
  BY <1>1, <1>2 DEF HandlerInv, Kept, OnlyIssued
<1> HIDE DEF t
<1>4. task' \in [Keys -> Tasks] /\ \A j \in Keys \ {k} : task'[j] = task[j]
  BY <1>1, <1>2, ClaimingTask
<1>5. TypeOK' /\ OwnOnly(k) /\ SentInv'
  BY <1>1, <1>2, <1>4 DEF TypeOK, OwnOnly, SentInv, Mine
<1>6. Kept(k)'
  BY <1>1, <1>2, <1>3, ClaimKeeps
<1> QED
  BY <1>1, <1>5, <1>6, OthersKept

LEMMA RefreshStep ==
    ASSUME Inv, NEW k \in Keys, Refresh(k)
    PROVE  Inv'
<1> USE OwnershipType DEF Inv
<1> DEFINE t == rec[k].token
<1>1. /\ Claiming(k, "refresh", t, FALSE, TRUE, TRUE) /\ task[k] = Idle
      /\ ~rec[k].attempt /\ t # NoToken /\ rec[k] # NoRecord
      /\ UNCHANGED <<rec, kvToken, registry, scan, orphans, faults>>
      /\ UNCHANGED <<valid, issued, spent, doubt, replayed, sentBy>>
  BY DEF Refresh, Exists, world
<1>2. task[k].at = "idle" /\ t \in Tokens
  BY <1>1 DEF Idle, TypeOK, Records
<1>3. t \in issued /\ (Mine(k, t) => t \notin doubt)
  BY <1>1, <1>2 DEF HandlerInv, Kept, OnlyIssued, DoubtFenced
<1>4. task' \in [Keys -> Tasks] /\ \A j \in Keys \ {k} : task'[j] = task[j]
  BY <1>1, <1>2, ClaimingTask
<1>5. TypeOK' /\ OwnOnly(k) /\ SentInv'
  BY <1>1, <1>2, <1>4 DEF TypeOK, OwnOnly, SentInv, Mine
<1>6. Kept(k)'
  BY <1>1, <1>2, <1>3, ClaimKeeps
<1> QED
  BY <1>1, <1>5, <1>6, OthersKept

LEMMA RevokeStep ==
    ASSUME Inv, NEW k \in Keys, Revoke(k)
    PROVE  Inv'
<1> USE OwnershipType DEF Inv
<1> DEFINE new == [token |-> NoToken, attempt |-> FALSE, reauth |-> FALSE]
<1>1. /\ rec' = [rec EXCEPT ![k] = new] /\ task[k] = Idle
      /\ UNCHANGED <<kvToken, registry, task, scan, orphans, world, faults>>
  BY DEF Revoke
<1>2. UNCHANGED <<valid, issued, spent, doubt, replayed, sentBy>>
  BY <1>1 DEF world
<1>3. new \in Records /\ new.token = NoToken
  BY DEF Records
<1> HIDE DEF new
<1>4. TypeOK' /\ OwnOnly(k) /\ SentInv' /\ rec'[k] = new
  BY <1>1, <1>2, <1>3 DEF TypeOK, OwnOnly, SentInv, Mine
<1>5. Kept(k) /\ NoToken \notin doubt
  BY DEF HandlerInv, TypeOK
<1>6. DoubtFenced(k)' /\ OnlyIssued(k)'
  BY <1>1, <1>2, <1>3, <1>4, <1>5 DEF Kept, DoubtFenced, OnlyIssued
<1>7. Kept(k)'
  BY <1>1, <1>6, IdleKept
<1> QED
  BY <1>2, <1>4, <1>7, OthersKept

LEMMA WriteKvStep ==
    ASSUME Inv, NEW k \in Keys, WriteKv(k)
    PROVE  Inv'
<1> USE OwnershipType DEF Inv
<1>1. /\ kvToken' = [kvToken EXCEPT ![k] = NoToken]
      /\ UNCHANGED <<rec, registry, task, scan, orphans, faults>>
      /\ UNCHANGED <<valid, issued, spent, doubt, replayed, sentBy>>
  BY DEF WriteKv, world
<1>2. TypeOK' /\ OwnOnly(k) /\ SentInv'
  BY <1>1 DEF TypeOK, OwnOnly, SentInv, Mine
<1>3. Kept(k) /\ kvToken'[k] = NoToken
  BY <1>1 DEF HandlerInv, TypeOK
<1>4. Kept(k)'
  BY <1>1, <1>3 DEF Kept, ClaimKept, Heard, ImportKept, RefreshKept, SendKept, FencedSend,
                    CommitStepKept, DoubtFenced, OnlyIssued, Mine
<1> QED
  BY <1>1, <1>2, <1>4, OthersKept

LEMMA FenceStep ==
    ASSUME Inv, NEW k \in Keys, Fence(k)
    PROVE  Inv'
<1> USE OwnershipType DEF Inv
<1>1. /\ rec' = [rec EXCEPT ![k].attempt = TRUE] /\ task' = [task EXCEPT ![k].at = "send"]
      /\ task[k].at = "fence"
      /\ UNCHANGED <<kvToken, registry, scan, orphans, faults>>
      /\ UNCHANGED <<valid, issued, spent, doubt, replayed, sentBy>>
  BY DEF Fence, Goes, world
<1>2. Kept(k) /\ rec[k].token \in Tokens /\ task[k].why = "refresh"
  BY <1>1 DEF HandlerInv, Kept, SendKept, RefreshKept
<1>3. rec[k] \in Records
  BY <1>2 DEF TypeOK, NoRecord
<1>4. rec'[k] \in Records /\ rec'[k].token = rec[k].token /\ rec'[k].attempt
      /\ \A j \in Keys \ {k} : rec'[j] = rec[j]
  BY <1>1, <1>3 DEF TypeOK, Records
<1>5. task'[k] \in Tasks /\ task'[k].at = "send" /\ task'[k].why = task[k].why
      /\ task'[k].token = task[k].token
      /\ \A j \in Keys \ {k} : task'[j] = task[j]
  BY <1>1 DEF TypeOK, Tasks, Places
<1>6. TypeOK'
  <2>1. rec' \in [Keys -> Records \cup {NoRecord}]
    BY <1>1, <1>4 DEF TypeOK
  <2>2. task' \in [Keys -> Tasks]
    BY <1>1, <1>5 DEF TypeOK
  <2> QED
    BY <1>1, <2>1, <2>2 DEF TypeOK
<1>7. OwnOnly(k) /\ SentInv'
  BY <1>1, <1>4, <1>5 DEF OwnOnly, SentInv, Mine
<1>8. Kept(k)'
  BY <1>1, <1>2, <1>4, <1>5
  DEF Kept, ClaimKept, Heard, ImportKept, RefreshKept, SendKept, FencedSend, CommitStepKept,
      DoubtFenced, OnlyIssued, Mine
<1> QED
  BY <1>1, <1>6, <1>7, <1>8, OthersKept

LEMMA RefreshSettleStep ==
    ASSUME Inv, NEW k \in Keys, Settle(k)
    PROVE  Inv'
<1> USE OwnershipType DEF Inv
<1>1. /\ task[k].at = "settle"
      /\ UNCHANGED <<kvToken, registry, scan, orphans, valid, issued, spent, replayed, sentBy, faults>>
  BY DEF Settle
<1>2. Kept(k) /\ rec[k].token \in Tokens /\ task[k].token \in Tokens \cup {NoToken}
  BY <1>1 DEF HandlerInv, Kept, FencedSend, TypeOK, Tasks
<1>3. CASE task[k].token = NoToken
  <2>1. /\ rec' = [rec EXCEPT ![k].attempt = FALSE, ![k].reauth = TRUE]
        /\ doubt' = doubt \ {rec[k].token} /\ task' = [task EXCEPT ![k] = Idle]
    BY <1>3 DEF Settle, Ends
  <2>2. rec[k] \in Records
    BY <1>2 DEF TypeOK, NoRecord
  <2>3. rec'[k] \in Records /\ rec'[k].token = rec[k].token
        /\ \A j \in Keys \ {k} : rec'[j] = rec[j]
    BY <2>1, <2>2 DEF TypeOK, Records
  <2>4. Idle \in Tasks /\ Idle.token = NoToken /\ task'[k] = Idle
        /\ \A j \in Keys \ {k} : task'[j] = task[j]
    BY <2>1 DEF Idle, Tasks, Places, TypeOK
  <2>5. rec' \in [Keys -> Records \cup {NoRecord}] /\ task' \in [Keys -> Tasks]
    BY <2>1, <2>3, <2>4 DEF TypeOK
  <2>6. TypeOK' /\ OwnOnly(k) /\ SentInv'
    BY <1>1, <2>1, <2>3, <2>4, <2>5 DEF TypeOK, OwnOnly, SentInv, Mine
  <2>7. DoubtFenced(k)' /\ OnlyIssued(k)'
    BY <1>1, <1>2, <2>1, <2>3, <2>4 DEF Kept, DoubtFenced, OnlyIssued
  <2>8. Kept(k)'
    BY <2>4, <2>7, IdleKept
  <2> QED
    BY <2>1, <2>6, <2>8, OthersKept
<1>4. CASE task[k].token # NoToken
  <2> DEFINE t == task[k].token
  <2>1. /\ Claiming(k, "rotate", t, FALSE, t = rec[k].token, FALSE) /\ UNCHANGED <<rec, doubt>>
        /\ t \in Tokens /\ t \in issued
    BY <1>2, <1>4 DEF Settle, Kept, OnlyIssued
  <2> HIDE DEF t
  <2>2. CASE t = rec[k].token
    <3>1. Claiming(k, "rotate", t, FALSE, TRUE, FALSE)
      BY <2>1, <2>2 DEF Claiming
    <3>2. task' \in [Keys -> Tasks] /\ \A j \in Keys \ {k} : task'[j] = task[j]
      BY <2>1, <3>1, ClaimingTask
    <3>3. TypeOK' /\ OwnOnly(k) /\ SentInv'
      BY <1>1, <2>1, <3>2 DEF TypeOK, OwnOnly, SentInv, Mine
    <3>4. Kept(k)'
      BY <1>1, <2>1, <2>2, <3>1, ClaimKeeps
    <3> QED
      BY <2>1, <3>3, <3>4, OthersKept
  <2>3. CASE t # rec[k].token
    <3>1. Claiming(k, "rotate", t, FALSE, FALSE, FALSE)
      BY <2>1, <2>3 DEF Claiming
    <3>2. task' \in [Keys -> Tasks] /\ \A j \in Keys \ {k} : task'[j] = task[j]
      BY <2>1, <3>1, ClaimingTask
    <3>3. TypeOK' /\ OwnOnly(k) /\ SentInv'
      BY <1>1, <2>1, <3>2 DEF TypeOK, OwnOnly, SentInv, Mine
    <3>4. Kept(k)'
      BY <1>1, <2>1, <3>1, ClaimKeeps
    <3> QED
      BY <2>1, <3>3, <3>4, OthersKept
  <2> QED
    BY <2>2, <2>3
<1> QED
  BY <1>3, <1>4

(* What leaves is a token the sender's used reservation names, and it was  *)
(* not in doubt.                                                           *)
LEMMA SendFacts ==
    ASSUME Inv, NEW k \in Keys, task[k].at = "send"
    PROVE  /\ Kept(k) /\ task[k].why = "refresh"
           /\ rec[k].token \in Tokens /\ rec[k].token \in issued /\ rec[k].token \notin doubt
           /\ Mine(k, rec[k].token) /\ registry[rec[k].token].used
           /\ rec[k] \in Records /\ rec[k].attempt
<1>1. Kept(k)
  BY DEF Inv, HandlerInv
<1>2. task[k].why = "refresh" /\ rec[k].token \in Tokens /\ rec[k].attempt
      /\ Mine(k, rec[k].token) /\ registry[rec[k].token].used
  BY <1>1 DEF Kept, SendKept, RefreshKept, FencedSend
<1>3. rec[k].token \notin doubt /\ rec[k].token \in issued
  BY <1>1, <1>2, OwnershipType DEF Kept, RefreshKept, OnlyIssued
<1>4. rec[k] \in Records
  BY <1>2, OwnershipType DEF Inv, TypeOK, NoRecord
<1> QED
  BY <1>1, <1>2, <1>3, <1>4

LEMMA ExchangeStep ==
    ASSUME Inv, NEW k \in Keys, Exchange(k)
    PROVE  Inv'
<1> USE OwnershipType DEF Inv
<1> DEFINE t == rec[k].token
<1>1. PICK answer \in Tokens \cup {NoToken} :
        /\ task' = [task EXCEPT ![k].at = "settle", ![k].token = answer]
        /\ answer \in issued' \cup {NoToken}
        /\ issued \subseteq issued' /\ issued' \subseteq Tokens
        /\ valid' \subseteq issued' /\ spent' \subseteq issued'
  <2>1. CASE \E new \in Tokens \ issued :
            /\ t \in valid
            /\ valid' = (valid \ {t}) \cup {new} /\ issued' = issued \cup {new}
            /\ spent' = spent \cup {t}
            /\ task' = [task EXCEPT ![k].at = "settle", ![k].token = new]
    BY <2>1, ZenonT(60) DEF TypeOK
  <2>2. CASE /\ t \in valid
             /\ task' = [task EXCEPT ![k].at = "settle", ![k].token = t]
             /\ UNCHANGED <<valid, issued, spent>>
    <3>1. t \in Tokens /\ t \in issued
      BY <2>2 DEF TypeOK
    <3> QED
      BY <2>2, <3>1, ZenonT(60) DEF TypeOK
  <2>3. CASE /\ task' = [task EXCEPT ![k].at = "settle", ![k].token = NoToken]
             /\ valid' = valid \ {t}
             /\ UNCHANGED <<issued, spent>>
    BY <2>3, ZenonT(60) DEF TypeOK
  <2> QED
    BY <2>1, <2>2, <2>3 DEF Exchange
<1>2. /\ sentBy' = [sentBy EXCEPT ![t] = @ \cup {k}] /\ doubt' = doubt \cup {t}
      /\ replayed' = IF t \in doubt THEN replayed \cup {t} ELSE replayed
      /\ UNCHANGED <<rec, kvToken, registry, scan, orphans, faults>>
      /\ task[k].at = "send"
  BY DEF Exchange, Leaves
<1>3. /\ Kept(k) /\ task[k].why = "refresh" /\ t \in Tokens /\ t \in issued /\ t \notin doubt
      /\ Mine(k, t) /\ registry[t].used /\ rec[k].attempt
  BY <1>2, SendFacts
<1>4. task'[k] \in Tasks /\ task'[k].at = "settle" /\ task'[k].why = "refresh"
      /\ task'[k].token = answer /\ \A j \in Keys \ {k} : task'[j] = task[j]
  BY <1>1, <1>3, ZenonT(60) DEF TypeOK, Tasks, Places
<1>5. task' \in [Keys -> Tasks]
  BY <1>1, <1>4 DEF TypeOK
<1> HIDE DEF t
<1>6. sentBy' \in [Tokens -> SUBSET Keys] /\ sentBy'[t] = sentBy[t] \cup {k}
      /\ \A u \in Tokens \ {t} : sentBy'[u] = sentBy[u]
  BY <1>2, <1>3 DEF TypeOK
<1>7. TypeOK'
  BY <1>1, <1>2, <1>3, <1>5, <1>6 DEF TypeOK
<1>8. SentInv'
  <2>1. ASSUME NEW u \in Tokens
        PROVE  /\ \A j \in sentBy'[u] : Mine(j, u)'
               /\ sentBy'[u] # {} \/ u \in doubt' => registry'[u].used
    BY <1>2, <1>3, <1>6 DEF SentInv, Mine
  <2> QED
    BY <1>2, <1>3, <2>1 DEF SentInv
<1>9. OwnOnly(k)
  BY <1>1, <1>2, <1>4 DEF OwnOnly
<1>10. Kept(k)'
  BY <1>1, <1>2, <1>3, <1>4
  DEF t, Kept, ClaimKept, Heard, ImportKept, RefreshKept, SendKept, FencedSend, CommitStepKept,
      DoubtFenced, OnlyIssued, Mine
<1> QED
  BY <1>2, <1>3, <1>7, <1>8, <1>9, <1>10, OthersKept

LEMMA TransientRejectionStep ==
    ASSUME Inv, NEW k \in Keys, TransientRejection(k)
    PROVE  Inv'
<1> USE OwnershipType DEF Inv
<1> DEFINE t == rec[k].token
<1>1. /\ sentBy' = [sentBy EXCEPT ![t] = @ \cup {k}]
      /\ replayed' = IF t \in doubt THEN replayed \cup {t} ELSE replayed
      /\ rec' = [rec EXCEPT ![k].attempt = FALSE] /\ task' = [task EXCEPT ![k] = Idle]
      /\ UNCHANGED <<kvToken, registry, scan, orphans, valid, issued, spent, doubt>>
      /\ task[k].at = "send" /\ faults' \in 0..MaxFaults
  BY DEF TransientRejection, Ends, Fault, TypeOK
<1>2. /\ Kept(k) /\ t \in Tokens /\ t \in issued /\ t \notin doubt
      /\ Mine(k, t) /\ registry[t].used /\ rec[k] \in Records
  BY <1>1, SendFacts
<1>3. rec'[k] \in Records /\ rec'[k].token = t /\ \A j \in Keys \ {k} : rec'[j] = rec[j]
  BY <1>1, <1>2 DEF TypeOK, Records
<1>4. Idle \in Tasks /\ Idle.token = NoToken /\ task'[k] = Idle
      /\ \A j \in Keys \ {k} : task'[j] = task[j]
  BY <1>1 DEF Idle, Tasks, Places, TypeOK
<1>5. rec' \in [Keys -> Records \cup {NoRecord}] /\ task' \in [Keys -> Tasks]
  BY <1>1, <1>3, <1>4 DEF TypeOK
<1> HIDE DEF t
<1>6. sentBy' \in [Tokens -> SUBSET Keys] /\ sentBy'[t] = sentBy[t] \cup {k}
      /\ \A u \in Tokens \ {t} : sentBy'[u] = sentBy[u]
  BY <1>1, <1>2 DEF TypeOK
<1>7. TypeOK' /\ OwnOnly(k)
  BY <1>1, <1>2, <1>3, <1>4, <1>5, <1>6 DEF TypeOK, OwnOnly
<1>8. SentInv'
  <2>1. ASSUME NEW u \in Tokens
        PROVE  /\ \A j \in sentBy'[u] : Mine(j, u)'
               /\ sentBy'[u] # {} \/ u \in doubt' => registry'[u].used
    BY <1>1, <1>2, <1>6 DEF SentInv, Mine
  <2> QED
    BY <1>1, <1>2, <2>1 DEF SentInv
<1>9. DoubtFenced(k)' /\ OnlyIssued(k)'
  BY <1>1, <1>2, <1>3, <1>4 DEF Kept, DoubtFenced, OnlyIssued
<1>10. Kept(k)'
  BY <1>4, <1>9, IdleKept
<1> QED
  BY <1>1, <1>7, <1>8, <1>10, OthersKept

(* A handler that ends leaves its claim to be answered unheard.            *)
LEMMA RefreshFailStep ==
    ASSUME Inv, NEW k \in Keys, Fail(k)
    PROVE  Inv'
<1> USE OwnershipType DEF Inv
<1>1. /\ task' = [task EXCEPT ![k] = Idle] /\ faults' \in 0..MaxFaults
      /\ scan' = IF task[k].at = "taken" THEN [scan EXCEPT !.heard = FALSE] ELSE scan
      /\ orphans' = orphans \/ (task[k].at = "claim" /\ orphans' = orphans \cup {task[k].claim})
      /\ UNCHANGED <<rec, kvToken, registry, valid, issued, spent, doubt, replayed, sentBy>>
  BY DEF Fail, Ends, Fault, TypeOK, world
<1>2. \A j \in Keys : Kept(j)
  BY DEF HandlerInv
<1>3. orphans' \subseteq Claims
  BY <1>1, <1>2 DEF Kept, ClaimKept, TypeOK
<1>4. Idle \in Tasks /\ Idle.token = NoToken /\ Idle.at = "idle" /\ task'[k] = Idle
      /\ \A j \in Keys \ {k} : task'[j] = task[j]
  BY <1>1 DEF Idle, Tasks, Places, TypeOK
<1>5. CASE task[k].at = "taken"
  <2>1. scan \in Scans /\ scan.claim = task[k].claim /\ scan.claim.key = k
    BY <1>2, <1>5 DEF Kept, Heard, ClaimKept
  <2>2. scan' \in Scans /\ scan'.heard = FALSE /\ scan'.claim = scan.claim
    BY <1>1, <1>5, <2>1 DEF Scans
  <2>3. TypeOK'
    BY <1>1, <1>3, <1>4, <2>2 DEF TypeOK
  <2>4. ScanInv' /\ SentInv'
    BY <1>1, <2>1, <2>2 DEF ScanInv, SentInv, Mine, NoScan, Scans
  <2>5. Kept(k)'
    BY <1>1, <1>2, <1>4, IdleKept DEF Kept, DoubtFenced, OnlyIssued, Mine
  <2>6. ASSUME NEW j \in Keys, j # k PROVE Kept(j)'
    <3>1. task[j].at # "taken"
      BY <1>2, <2>1, <2>6 DEF Kept, Heard, ClaimKept
    <3> QED
      BY <1>1, <1>2, <1>4, <2>6, <3>1
      DEF Kept, ClaimKept, Heard, ImportKept, RefreshKept, SendKept, FencedSend, CommitStepKept,
          DoubtFenced, OnlyIssued, Mine
  <2> QED
    BY <2>3, <2>4, <2>5, <2>6 DEF HandlerInv
<1>6. CASE task[k].at # "taken"
  <2>1. TypeOK' /\ OwnOnly(k) /\ SentInv'
    BY <1>1, <1>3, <1>4, <1>6 DEF TypeOK, OwnOnly, SentInv, Mine
  <2>2. Kept(k)'
    BY <1>1, <1>2, <1>4, IdleKept DEF Kept, DoubtFenced, OnlyIssued, Mine
  <2> QED
    BY <1>1, <2>1, <2>2, OthersKept
<1> QED
  BY <1>5, <1>6

-----------------------------------------------------------------------------
(* The index only reserves what is free and marks what is reserved.        *)
RegistryGrows ==
    \A t \in Tokens :
        \/ registry'[t] = registry[t]
        \/ registry[t] = Free
        \/ /\ registry[t] # Free /\ registry'[t] # Free
           /\ registry'[t].owner = registry[t].owner /\ registry'[t].used

(* A token that was sent or is in doubt keeps its owner.                   *)
LEMMA RegistryKeeps ==
    ASSUME Inv, RegistryGrows, UNCHANGED <<doubt, sentBy, replayed>>
    PROVE  /\ \A t \in Tokens : \A j : Mine(j, t) => Mine(j, t)'
           /\ \A t \in Tokens : registry[t].used => registry'[t].used
           /\ \A t \in doubt : \A j : Mine(j, t)' => Mine(j, t)
           /\ SentInv'
<1> USE DEF Inv
<1>1. Free.used = FALSE
  BY DEF Free
<1>2. \A t \in Tokens : \A j : Mine(j, t) => Mine(j, t)'
  BY DEF Mine, RegistryGrows
<1>3. \A t \in Tokens : registry[t].used => registry'[t].used
  BY <1>1 DEF RegistryGrows
<1>4. \A t \in doubt : t \in Tokens /\ registry[t].used
  BY DEF TypeOK, SentInv
<1>5. \A t \in doubt : \A j : Mine(j, t)' => Mine(j, t)
  BY <1>1, <1>4 DEF Mine, RegistryGrows
<1>6. SentInv'
  <2>1. ASSUME NEW t \in Tokens
        PROVE  /\ \A j \in sentBy'[t] : Mine(j, t)'
               /\ sentBy'[t] # {} \/ t \in doubt' => registry'[t].used
    BY <1>2, <1>3 DEF SentInv
  <2> QED
    BY <2>1 DEF SentInv
<1> QED
  BY <1>2, <1>3, <1>5, <1>6

(* A handler that does not hear the index finds what it relied on.         *)
LEMMA UnheardKept ==
    ASSUME Inv, RegistryGrows, UNCHANGED <<rec, kvToken, world>>,
           NEW j \in Keys, task'[j] = task[j], Heard(j)'
    PROVE  Kept(j)'
<1>1. UNCHANGED <<issued, doubt, sentBy, replayed>> /\ UNCHANGED <<rec, kvToken>>
  BY DEF world
<1>2. Kept(j)
  BY DEF Inv, HandlerInv
<1>3. /\ \A t \in Tokens : Mine(j, t) => Mine(j, t)'
      /\ \A t \in Tokens : registry[t].used => registry'[t].used
      /\ \A t \in doubt : Mine(j, t)' => Mine(j, t)
  BY <1>1, RegistryKeeps
<1>4. (ClaimKept(j) /\ ImportKept(j) /\ FencedSend(j) /\ OnlyIssued(j))'
  BY <1>1, <1>2 DEF Kept, ClaimKept, ImportKept, FencedSend, OnlyIssued
<1>5. (RefreshKept(j) /\ CommitStepKept(j) /\ DoubtFenced(j))'
  BY <1>1, <1>2, <1>3 DEF Kept, RefreshKept, CommitStepKept, DoubtFenced
<1>6. SendKept(j)'
  BY <1>1, <1>2, <1>3 DEF Kept, SendKept, RefreshKept
<1> QED
  BY <1>4, <1>5, <1>6 DEF Kept

(* A handler that is refused ends; one that is granted its claim owns the  *)
(* token, and if that is in doubt it is the one its fenced record holds.   *)
LEMMA HeardKept ==
    ASSUME Inv, RegistryGrows, UNCHANGED <<rec, kvToken, world>>,
           NEW c \in Claims, task[c.key].at \in {"claim", "taken"}, task[c.key].claim = c,
           NEW granted \in BOOLEAN, Answer(c, TRUE, granted),
           granted => /\ Mine(c.key, c.token)'
                      /\ c.consume => registry'[c.token].used
                      /\ c.token \in doubt => c.current
    PROVE  /\ Kept(c.key)' /\ task' \in [Keys -> Tasks]
           /\ \A j \in Keys \ {c.key} : task'[j] = task[j]
<1> DEFINE k == c.key
<1> USE OwnershipType
<1>1. UNCHANGED <<issued, doubt, sentBy, replayed>> /\ UNCHANGED <<rec, kvToken>>
  BY DEF world
<1>2. k \in Keys /\ c.token \in Tokens
  BY DEF Claims
<1>3. Kept(k) /\ task[k] \in Tasks
  BY <1>2 DEF Inv, HandlerInv, TypeOK
<1>4. \A t \in doubt : Mine(k, t)' => Mine(k, t)
  BY <1>1, RegistryKeeps
<1>5. c.token = task[k].token /\ (c.current => rec[k].token = task[k].token)
      /\ (c.consume <=> task[k].why = "refresh") /\ task[k].why # "none"
  BY <1>3 DEF Kept, ClaimKept
<1>6. (DoubtFenced(k))'
  BY <1>1, <1>3, <1>4 DEF Kept, DoubtFenced
<1>7. CASE ~granted
  <2>1. task' = [task EXCEPT ![k] = Idle]
    BY <1>7 DEF Answer, Ends
  <2>2. Idle \in Tasks /\ Idle.token = NoToken
    BY DEF Idle, Tasks, Places
  <2>3. task' \in [Keys -> Tasks] /\ task'[k] = Idle /\ \A j \in Keys \ {k} : task'[j] = task[j]
    BY <1>2, <2>1, <2>2 DEF Inv, TypeOK
  <2>4. OnlyIssued(k)'
    BY <1>1, <1>3, <2>2, <2>3 DEF Kept, OnlyIssued
  <2> QED
    BY <1>2, <1>6, <2>3, <2>4, IdleKept
<1>8. CASE granted
  <2> DEFINE place == IF c.consume THEN "fence" ELSE "commit"
  <2>1. task' = [task EXCEPT ![k].at = place]
    BY <1>8 DEF Answer, Goes
  <2>2. place \in Places /\ ((place = "fence" /\ c.consume) \/ (place = "commit" /\ ~c.consume))
    BY DEF Places
  <2> HIDE DEF place
  <2>3. task'[k] \in Tasks /\ task'[k].at = place /\ task'[k].why = task[k].why
        /\ task'[k].token = task[k].token /\ \A j \in Keys \ {k} : task'[j] = task[j]
    BY <1>2, <1>3, <2>1, <2>2 DEF Inv, TypeOK, Tasks
  <2>4. task' \in [Keys -> Tasks]
    BY <1>2, <2>1, <2>3 DEF Inv, TypeOK
  <2>5. CASE place = "fence" /\ c.consume
    BY <1>1, <1>2, <1>3, <1>4, <1>5, <1>6, <1>8, <2>3, <2>4, <2>5
    DEF Kept, ClaimKept, Heard, ImportKept, RefreshKept, SendKept, FencedSend, CommitStepKept, OnlyIssued
  <2>6. CASE place = "commit" /\ ~c.consume
    <3>1. task[k].why \in {"put", "import", "rotate"}
      BY <1>3, <1>5, <2>6 DEF Tasks
    <3> QED
      BY <1>1, <1>2, <1>3, <1>4, <1>5, <1>6, <1>8, <2>3, <2>4, <2>6, <3>1
      DEF Kept, ClaimKept, Heard, ImportKept, RefreshKept, SendKept, FencedSend, CommitStepKept, OnlyIssued
  <2> QED
    BY <2>2, <2>4, <2>3, <2>5, <2>6
<1> QED
  BY <1>7, <1>8

(* The index object answers the claim it works on and is free again.       *)
LEMMA AnswerKept ==
    ASSUME Inv, RegistryGrows, registry' \in [Tokens -> Reservations \cup {Free}],
           UNCHANGED <<rec, kvToken, world, faults>>, orphans' \subseteq Claims, scan' = NoScan,
           NEW c \in Claims, NEW heard \in BOOLEAN, NEW granted \in BOOLEAN,
           heard => task[c.key].at \in {"claim", "taken"} /\ task[c.key].claim = c,
           \A j \in Keys : task[j].at = "taken" => heard /\ j = c.key,
           Answer(c, heard, granted),
           granted => /\ Mine(c.key, c.token)'
                      /\ c.consume => registry'[c.token].used
                      /\ c.token \in doubt => c.current
    PROVE  Inv'
<1>1. UNCHANGED <<valid, issued, spent, doubt, replayed, sentBy>>
      /\ UNCHANGED <<rec, kvToken, faults>>
  BY DEF world
<1>2. SentInv'
  BY <1>1, RegistryKeeps
<1>3. ScanInv'
  BY DEF ScanInv
<1>4. CASE ~heard
  <2>1. task' = task
    BY <1>4 DEF Answer
  <2>2. TypeOK'
    BY <1>1, <2>1 DEF Inv, TypeOK
  <2>3. ASSUME NEW j \in Keys PROVE Kept(j)'
    <3>1. Heard(j)'
      BY <1>4, <2>1 DEF Heard
    <3> QED
      BY <2>1, <3>1, UnheardKept
  <2> QED
    BY <1>2, <1>3, <2>2, <2>3 DEF Inv, HandlerInv
<1>5. CASE heard
  <2>1. Answer(c, TRUE, granted)
    BY <1>5 DEF Answer
  <2>2. /\ Kept(c.key)' /\ task' \in [Keys -> Tasks]
        /\ \A j \in Keys \ {c.key} : task'[j] = task[j]
    BY <1>5, <2>1, HeardKept
  <2>3. TypeOK'
    BY <1>1, <2>2 DEF Inv, TypeOK
  <2>4. ASSUME NEW j \in Keys, j # c.key PROVE Kept(j)'
    <3>1. Heard(j)' /\ task'[j] = task[j]
      BY <2>2, <2>4 DEF Heard
    <3> QED
      BY <3>1, UnheardKept
  <2> QED
    BY <1>2, <1>3, <2>2, <2>3, <2>4 DEF Inv, HandlerInv
<1> QED
  BY <1>4, <1>5

(* An idle index hears no handler.                                         *)
LEMMA NoneTaken ==
    ASSUME Inv, scan = NoScan, NEW j \in Keys
    PROVE  task[j].at # "taken"
BY DEF Inv, HandlerInv, Kept, Heard, NoScan

LEMMA TakeStep ==
    ASSUME Inv, NEW c \in Claims, NEW heard \in BOOLEAN, Take(c, heard),
           heard => task[c.key].at = "claim" /\ task[c.key].claim = c,
           orphans' \subseteq Claims, UNCHANGED <<rec, kvToken, world, faults>>
    PROVE  Inv'
<1> USE OwnershipType
<1>1. UNCHANGED <<valid, issued, spent, doubt, replayed, sentBy>>
      /\ UNCHANGED <<rec, kvToken, faults>> /\ scan = NoScan
  BY DEF world, Take
<1>2. c.key \in Keys /\ c.token \in Tokens
  BY DEF Claims
<1>3. \A j \in Keys : task[j].at # "taken"
  BY <1>1, NoneTaken
<1>4. registry \in [Tokens -> Reservations \cup {Free}]
  BY DEF Inv, TypeOK
<1>5. CASE registry[c.token] # Free
  <2> DEFINE r == registry[c.token]
  <2>1. /\ registry' = IF Grants(c) /\ c.consume
                       THEN [registry EXCEPT ![c.token].used = TRUE] ELSE registry
        /\ Answer(c, heard, Grants(c)) /\ scan' = NoScan
    BY <1>1, <1>5 DEF Take
  <2>2. r \in Reservations
    BY <1>2, <1>4, <1>5
  <2>3. CASE Grants(c) /\ c.consume
    <3>1. /\ registry'[c.token] \in Reservations /\ registry'[c.token].owner = r.owner
          /\ registry'[c.token].used
          /\ \A t \in Tokens \ {c.token} : registry'[t] = registry[t]
      BY <1>2, <1>4, <2>1, <2>2, <2>3 DEF Reservations
    <3>2. registry' \in [Tokens -> Reservations \cup {Free}]
      BY <1>2, <1>4, <2>1, <2>3, <3>1
    <3>3. \A v \in Reservations : v.used => v # Free
      BY DEF Free
    <3>4. RegistryGrows
      BY <1>5, <3>1, <3>3 DEF RegistryGrows
    <3>5. Mine(c.key, c.token)' /\ (c.token \in doubt => c.current)
      BY <1>2, <2>3, <3>1, <3>3 DEF Mine, Grants, Inv, SentInv
    <3>6. Answer(c, heard, TRUE)
      BY <2>1, <2>3
    <3> QED
      BY <1>3, <2>1, <3>1, <3>2, <3>4, <3>5, <3>6, AnswerKept
  <2>4. CASE ~(Grants(c) /\ c.consume)
    <3>1. registry' = registry /\ RegistryGrows
      BY <2>1, <2>4 DEF RegistryGrows
    <3>2. CASE Grants(c)
      <4>1. Mine(c.key, c.token)' /\ (c.token \in doubt => c.current) /\ ~c.consume
        BY <1>2, <1>5, <2>4, <3>1, <3>2 DEF Mine, Grants, Inv, SentInv
      <4>2. Answer(c, heard, TRUE)
        BY <2>1, <3>2
      <4> QED
        BY <1>3, <1>4, <2>1, <3>1, <4>1, <4>2, AnswerKept
    <3>3. CASE ~Grants(c)
      <4>1. Answer(c, heard, FALSE)
        BY <2>1, <3>3 DEF Answer
      <4> QED
        BY <1>3, <1>4, <2>1, <3>1, <4>1, AnswerKept
    <3> QED
      BY <3>2, <3>3
  <2> QED
    BY <2>3, <2>4
<1>6. CASE registry[c.token] = Free
  <2>1. PICK listed \in SUBSET Keys :
          scan' = [claim |-> c, left |-> listed \ {c.key}, absent |-> {}, heard |-> heard]
    BY <1>6 DEF Take
  <2>2. scan' \in Scans /\ scan'.claim = c /\ scan'.heard = heard
    BY <2>1 DEF Scans
  <2>3. UNCHANGED registry /\ RegistryGrows
    BY <1>6 DEF Take, RegistryGrows
  <2>4. SentInv'
    BY <1>1, <2>3, RegistryKeeps
  <2>5. CASE ~heard
    <3>1. task' = task
      BY <1>6, <2>5 DEF Take
    <3>2. TypeOK'
      BY <1>1, <1>4, <2>2, <2>3, <3>1 DEF Inv, TypeOK
    <3>3. ScanInv'
      BY <1>6, <2>2, <2>3, <2>5 DEF ScanInv
    <3>4. ASSUME NEW j \in Keys PROVE Kept(j)'
      <4>1. Heard(j)'
        BY <1>3, <3>1 DEF Heard
      <4> QED
        BY <2>3, <3>1, <4>1, UnheardKept
    <3> QED
      BY <2>4, <3>2, <3>3, <3>4 DEF Inv, HandlerInv
  <2>6. CASE heard
    <3> DEFINE k == c.key
    <3>1. task' = [task EXCEPT ![k].at = "taken"]
      BY <1>6, <2>6 DEF Take, Goes
    <3>2. Kept(k) /\ task[k] \in Tasks
      BY <1>2 DEF Inv, HandlerInv, TypeOK
    <3>3. task'[k] \in Tasks /\ task'[k].at = "taken" /\ task'[k].why = task[k].why
          /\ task'[k].token = task[k].token /\ task'[k].claim = task[k].claim
          /\ \A j \in Keys \ {k} : task'[j] = task[j]
      BY <1>2, <3>1, <3>2 DEF Inv, TypeOK, Tasks, Places
    <3>4. task' \in [Keys -> Tasks]
      BY <1>2, <3>1, <3>3 DEF Inv, TypeOK
    <3>5. TypeOK'
      BY <1>1, <1>4, <2>2, <2>3, <3>4 DEF Inv, TypeOK
    <3>6. ScanInv'
      BY <1>2, <1>6, <2>2, <2>3, <2>6, <3>3 DEF ScanInv
    <3>7. Kept(k)'
      BY <1>1, <1>2, <2>2, <2>3, <2>6, <3>2, <3>3
      DEF Kept, ClaimKept, Heard, ImportKept, RefreshKept, SendKept, FencedSend, CommitStepKept,
          DoubtFenced, OnlyIssued, Mine
    <3>8. ASSUME NEW j \in Keys, j # k PROVE Kept(j)'
      <4>1. Heard(j)' /\ task'[j] = task[j]
        BY <1>3, <3>3, <3>8 DEF Heard
      <4> QED
        BY <2>3, <4>1, UnheardKept
    <3> QED
      BY <2>4, <3>5, <3>6, <3>7, <3>8 DEF Inv, HandlerInv
  <2> QED
    BY <2>5, <2>6
<1> QED
  BY <1>5, <1>6

(* The claim the index works on, and the one handler that hears it.        *)
LEMMA ScanFacts ==
    ASSUME Inv, scan # NoScan
    PROVE  /\ scan \in Scans /\ scan.claim \in Claims /\ scan.heard \in BOOLEAN
           /\ scan.claim.key \in Keys /\ scan.claim.token \in Tokens
           /\ registry[scan.claim.token] = Free /\ scan.claim.token \notin doubt
           /\ scan.heard => /\ task[scan.claim.key].at \in {"claim", "taken"}
                            /\ task[scan.claim.key].claim = scan.claim
           /\ \A j \in Keys : task[j].at = "taken" => scan.heard /\ j = scan.claim.key
<1>1. scan \in Scans /\ scan.claim \in Claims /\ scan.heard \in BOOLEAN
  BY DEF Inv, TypeOK, Scans
<1>2. scan.claim.key \in Keys /\ scan.claim.token \in Tokens
  BY <1>1 DEF Claims
<1>3. registry[scan.claim.token] = Free
      /\ (scan.heard => task[scan.claim.key].at = "taken" /\ task[scan.claim.key].claim = scan.claim)
  BY DEF Inv, ScanInv
<1>4. scan.claim.token \notin doubt
  BY <1>2, <1>3 DEF Inv, SentInv, Free
<1>5. \A j \in Keys : task[j].at = "taken" => scan.heard /\ j = scan.claim.key
  BY DEF Inv, HandlerInv, Kept, Heard, ClaimKept
<1> QED
  BY <1>1, <1>2, <1>3, <1>4, <1>5

(* A grant that holds the token gets it and the claim is refused; one that *)
(* does not is left behind.                                                *)
LEMMA CompareStep ==
    ASSUME Inv, scan # NoScan, NEW j \in Keys, NEW held, NEW others \in Scans,
           others.claim = scan.claim, others.heard = scan.heard,
           Compare(j, held, others), UNCHANGED <<rec, kvToken, orphans, world, faults>>
    PROVE  Inv'
<1> DEFINE c == scan.claim
<1>1. /\ scan \in Scans /\ c \in Claims /\ scan.heard \in BOOLEAN
      /\ c.token \in Tokens /\ registry[c.token] = Free
      /\ scan.heard => task[c.key].at \in {"claim", "taken"} /\ task[c.key].claim = c
      /\ \A i \in Keys : task[i].at = "taken" => scan.heard /\ i = c.key
  BY ScanFacts
<1>2. UNCHANGED <<valid, issued, spent, doubt, replayed, sentBy>>
      /\ UNCHANGED <<rec, kvToken, orphans, faults>> /\ orphans \subseteq Claims
  BY DEF world, Inv, TypeOK
<1>3. CASE held = c.token
  <2> DEFINE new == [owner |-> j, used |-> FALSE]
  <2>1. registry' = [registry EXCEPT ![c.token] = new]
        /\ Answer(c, scan.heard, FALSE) /\ scan' = NoScan
    BY <1>3 DEF Compare
  <2>2. new \in Reservations
    BY DEF Reservations
  <2> HIDE DEF new
  <2>3. registry' \in [Tokens -> Reservations \cup {Free}] /\ RegistryGrows
    BY <1>1, <2>1, <2>2 DEF Inv, TypeOK, RegistryGrows
  <2> QED
    BY <1>1, <1>2, <2>1, <2>3, AnswerKept
<1>4. CASE held # c.token
  <2>1. scan' = others /\ UNCHANGED <<registry, task>>
    BY <1>4 DEF Compare
  <2>2. RegistryGrows
    BY <2>1 DEF RegistryGrows
  <2>3. TypeOK' /\ ScanInv' /\ SentInv'
    BY <1>1, <1>2, <2>1 DEF Inv, TypeOK, ScanInv, SentInv, Mine
  <2>4. ASSUME NEW i \in Keys PROVE Kept(i)'
    <3>1. Kept(i)
      BY DEF Inv, HandlerInv
    <3>2. Heard(i)' /\ task'[i] = task[i]
      BY <2>1, <3>1 DEF Kept, Heard
    <3> QED
      BY <2>2, <3>2, UnheardKept
  <2> QED
    BY <2>3, <2>4 DEF Inv, HandlerInv
<1> QED
  BY <1>3, <1>4

LEMMA ReadOwnerStep ==
    ASSUME Inv, NEW j \in Keys, ReadOwner(j)
    PROVE  Inv'
<1> DEFINE others == [scan EXCEPT !.left = @ \ {j},
                                  !.absent = IF Exists(j) THEN @ ELSE @ \cup {j}]
<1>1. scan # NoScan /\ Compare(j, rec[j].token, others)
      /\ UNCHANGED <<rec, kvToken, orphans, world, faults>>
  BY DEF ReadOwner
<1>2. scan \in Scans
  BY <1>1, ScanFacts
<1>3. others \in Scans /\ others.claim = scan.claim /\ others.heard = scan.heard
  BY <1>2 DEF Scans
<1> HIDE DEF others
<1> QED
  BY <1>1, <1>3, CompareStep

LEMMA ReadKvStep ==
    ASSUME Inv, NEW j \in Keys, ReadKv(j)
    PROVE  Inv'
<1> DEFINE others == [scan EXCEPT !.absent = @ \ {j}]
<1>1. scan # NoScan /\ Compare(j, kvToken[j], others)
      /\ UNCHANGED <<rec, kvToken, orphans, world, faults>>
  BY DEF ReadKv
<1>2. scan \in Scans
  BY <1>1, ScanFacts
<1>3. others \in Scans /\ others.claim = scan.claim /\ others.heard = scan.heard
  BY <1>2 DEF Scans
<1> HIDE DEF others
<1> QED
  BY <1>1, <1>3, CompareStep

LEMMA ReserveStep ==
    ASSUME Inv, Reserve
    PROVE  Inv'
<1>0. PICK c : c = scan.claim
  OBVIOUS
<1> DEFINE new == [owner |-> c.key, used |-> c.consume]
<1>1. scan # NoScan /\ Answer(c, scan.heard, TRUE) /\ scan' = NoScan
      /\ registry' = [registry EXCEPT ![c.token] = new]
      /\ UNCHANGED <<rec, kvToken, orphans, world, faults>>
  BY <1>0 DEF Reserve
<1>2. /\ c \in Claims /\ scan.heard \in BOOLEAN /\ c.key \in Keys
      /\ c.token \in Tokens /\ registry[c.token] = Free /\ c.token \notin doubt
      /\ scan.heard => task[c.key].at \in {"claim", "taken"} /\ task[c.key].claim = c
      /\ \A i \in Keys : task[i].at = "taken" => scan.heard /\ i = c.key
  BY <1>0, <1>1, ScanFacts
<1>3. new \in Reservations /\ new.owner = c.key /\ new.used = c.consume /\ new # Free
  BY <1>2 DEF Reservations, Claims, Free
<1> HIDE DEF new
<1>4. registry' \in [Tokens -> Reservations \cup {Free}] /\ registry'[c.token] = new
      /\ RegistryGrows
  BY <1>1, <1>2, <1>3 DEF Inv, TypeOK, RegistryGrows
<1>5. Mine(c.key, c.token)' /\ (c.consume => registry'[c.token].used) /\ orphans' \subseteq Claims
  BY <1>1, <1>3, <1>4 DEF Mine, Inv, TypeOK
<1> QED
  BY <1>1, <1>2, <1>4, <1>5, AnswerKept

LEMMA InvStep == Inv /\ [Next]_vars => Inv'
<1> SUFFICES ASSUME Inv, [Next]_vars PROVE Inv'
  OBVIOUS
<1>1. ASSUME NEW k \in Keys, TakeClaim(k) PROVE Inv'
  <2> DEFINE c == task[k].claim
  <2>1. /\ task[k].at = "claim" /\ Take(c, TRUE)
        /\ UNCHANGED <<rec, kvToken, orphans, world, faults>> /\ orphans \subseteq Claims
    BY <1>1 DEF TakeClaim, Inv, TypeOK
  <2>2. c \in Claims /\ c.key = k
    BY <2>1 DEF Inv, HandlerInv, Kept, ClaimKept
  <2> HIDE DEF c
  <2>3. task[c.key].at = "claim" /\ task[c.key].claim = c
    BY <2>1, <2>2 DEF c
  <2> QED
    BY <2>1, <2>2, <2>3, TakeStep
<1>2. ASSUME NEW c \in orphans, TakeOrphan(c) PROVE Inv'
  <2>1. c \in Claims /\ orphans' \subseteq Claims /\ Take(c, FALSE)
        /\ UNCHANGED <<rec, kvToken, world, faults>>
    BY <1>2 DEF TakeOrphan, Inv, TypeOK
  <2> QED
    BY <2>1, TakeStep
<1>3. CASE \E k \in Keys :
         \/ Put(k) \/ Commit(k) \/ Import(k) \/ Revoke(k) \/ WriteKv(k)
         \/ TakeClaim(k) \/ ReadOwner(k) \/ ReadKv(k) \/ Refresh(k) \/ Fence(k) \/ Exchange(k)
         \/ TransientRejection(k) \/ Settle(k) \/ Fail(k)
  BY <1>1, <1>3, PutStep, CommitStep, ImportStep, RevokeStep, WriteKvStep, ReadOwnerStep, ReadKvStep,
     RefreshStep, FenceStep, ExchangeStep, TransientRejectionStep, RefreshSettleStep, RefreshFailStep
<1>4. CASE \E c \in orphans : TakeOrphan(c)
  BY <1>2, <1>4
<1>5. CASE Reserve
  BY <1>5, ReserveStep
<1>6. CASE UNCHANGED vars
  <2>1. UNCHANGED <<rec, kvToken, registry, task, scan, orphans, faults>>
        /\ UNCHANGED <<valid, issued, spent, doubt, replayed, sentBy>>
    BY <1>6 DEF vars, world
  <2>2. TypeOK' /\ ScanInv' /\ SentInv'
    BY <2>1 DEF Inv, TypeOK, ScanInv, SentInv, Mine
  <2>3. ASSUME NEW k \in Keys PROVE Kept(k)'
    BY <2>1 DEF Inv, HandlerInv, Kept, ClaimKept, Heard, ImportKept, RefreshKept, SendKept, FencedSend,
                CommitStepKept, DoubtFenced, OnlyIssued, Mine
  <2> QED
    BY <2>2, <2>3 DEF Inv, HandlerInv
<1> QED
  BY <1>3, <1>4, <1>5, <1>6 DEF Next

LEMMA InvAlways == Spec => []Inv
BY InvInit, InvStep, PTL DEF Spec

-----------------------------------------------------------------------------
(* The type invariant of the ownership index and the grants' handlers.     *)
THEOREM OwnershipTypeCorrect == Spec => []TypeOK
<1>1. Inv => TypeOK
  BY DEF Inv
<1> QED
  BY <1>1, InvAlways, PTL

(* reserveRefreshOwnership: whatever grants hold copies of a refresh       *)
(* token, at most one of them ever sends it to the provider.               *)
THEOREM OnlyTheOwnerSends == Spec => []OneSender
<1>1. ASSUME Inv PROVE OneSender
  <2>1. SUFFICES ASSUME NEW t \in Tokens PROVE Cardinality(sentBy[t]) <= 1
    BY DEF OneSender
  <2>2. sentBy[t] \subseteq {registry[t].owner}
    BY <1>1 DEF Inv, SentInv, Mine
  <2>3. IsFiniteSet({registry[t].owner}) /\ Cardinality({registry[t].owner}) = 1
    BY FS_Singleton
  <2>4. Cardinality(sentBy[t]) <= Cardinality({registry[t].owner})
    BY <2>2, <2>3, FS_Subset
  <2> QED
    BY <2>3, <2>4
<1> QED
  BY <1>1, InvAlways, PTL

(* performRefresh and /put: a refresh token whose exchange is in doubt is  *)
(* never sent again, whatever fails, restarts, is pasted again or revoked. *)
THEOREM DoubtIsNeverResent == Spec => []NeverReplayed
<1>1. Inv => NeverReplayed
  BY DEF Inv, SentInv, NeverReplayed
<1> QED
  BY <1>1, InvAlways, PTL

-----------------------------------------------------------------------------
(* What a grant knows of a token that it sent and that was exchanged: its  *)
(* record is fenced or asks for a new login, a refresh under way does not  *)
(* concern it, and no handler is about to store it where it is not stored  *)
(* already.  A grant without a record has sent nothing.                    *)
Burnt(k, t) == t \in spent /\ k \in sentBy[t]

SpentKept(k) ==
    /\ ~Exists(k) => \A t \in Tokens : k \notin sentBy[t]
    /\ task[k].why = "import" => ~Exists(k)
    /\ Burnt(k, rec[k].token) => rec[k].attempt \/ rec[k].reauth
    /\ task[k].why = "refresh" /\ task[k].at # "settle" => ~Burnt(k, rec[k].token)
    /\ task[k].why = "rotate" \/ task[k].at = "settle" => ~Burnt(k, task[k].token)
    /\ task[k].at = "commit" /\ Burnt(k, task[k].token) => task[k].token = rec[k].token

SpentInv ==
    /\ \A k \in Keys : SpentKept(k)
    /\ valid \cap spent = {}
    /\ \A t \in Tokens : /\ t \in spent => sentBy[t] # {}
                         /\ sentBy[t] # {} => t \in issued

LEMMA SpentInit == Init => SpentInv
<1> SUFFICES ASSUME Init PROVE SpentInv
  OBVIOUS
<1> QED
  BY DEF Init, SpentInv, SpentKept, Burnt, Idle

(* Where the provider exchanged nothing and no token left.                 *)
LEMMA SpentSame ==
    ASSUME SpentInv, UNCHANGED <<spent, sentBy>>, issued \subseteq issued',
           valid' \cap spent = {}, \A j \in Keys : SpentKept(j)'
    PROVE  SpentInv'
BY DEF SpentInv

(* A handler that is where it was.                                         *)
LEMMA SpentStays ==
    ASSUME NEW j \in Keys, SpentKept(j), rec'[j] = rec[j], task'[j] = task[j],
           \A t : Burnt(j, t)' <=> Burnt(j, t),
           \A t \in Tokens : j \in sentBy'[t] <=> j \in sentBy[t]
    PROVE  SpentKept(j)'
BY DEF SpentKept, Exists

(* A handler that starts, ends or moves on while its record stays.         *)
LEMMA SpentMoves ==
    ASSUME Inv, SpentInv, NEW k \in Keys, rec' = rec, UNCHANGED <<spent, sentBy>>,
           issued \subseteq issued', valid' \cap spent = {},
           \A j \in Keys \ {k} : task'[j] = task[j],
           task'[k].why = "import" => ~Exists(k),
           task'[k].why = "refresh" /\ task'[k].at # "settle" => ~Burnt(k, rec[k].token),
           task'[k].why = "rotate" \/ task'[k].at = "settle" => ~Burnt(k, task'[k].token),
           task'[k].at = "commit" /\ Burnt(k, task'[k].token) => task'[k].token = rec[k].token
    PROVE  SpentInv'
<1>1. \A j, t : Burnt(j, t)' <=> Burnt(j, t)
  BY DEF Burnt
<1>2. ASSUME NEW j \in Keys, j # k PROVE SpentKept(j)'
  BY <1>1, <1>2, SpentStays DEF SpentInv
<1>3. SpentKept(k)'
  BY <1>1 DEF SpentInv, SpentKept, Exists
<1> QED
  BY <1>2, <1>3, SpentSame

LEMMA PutSpent ==
    ASSUME Inv, SpentInv, NEW k \in Keys, Put(k)
    PROVE  SpentInv'
<1> USE OwnershipType
<1>1. PICK t \in Tokens \cup {NoToken}, given \in BOOLEAN, fresh \in BOOLEAN :
         IF t = NoToken
         THEN Committing(k, fresh) /\ UNCHANGED <<valid, issued>>
         ELSE /\ Claiming(k, "put", t, fresh, CurrentToken(k, t, given), FALSE)
              /\ issued' = issued \cup {t}
              /\ valid' = IF t \in issued THEN valid ELSE valid \cup {t}
  BY DEF Put
<1>2. UNCHANGED <<rec, spent, sentBy>>
  BY DEF Put
<1>3. spent \subseteq issued /\ spent \subseteq Tokens /\ valid \cap spent = {}
  BY DEF Inv, TypeOK, SpentInv
<1>4. CASE t = NoToken
  <2>1. /\ task'[k].why = "put" /\ task'[k].at = "commit" /\ task'[k].token = NoToken
        /\ \A j \in Keys \ {k} : task'[j] = task[j]
    BY <1>1, <1>4 DEF Committing, Inv, TypeOK
  <2>2. ~Burnt(k, NoToken)
    BY <1>3 DEF Burnt
  <2> QED
    BY <1>1, <1>2, <1>3, <1>4, <2>1, <2>2, SpentMoves
<1>5. CASE t # NoToken
  <2>1. /\ task'[k].why = "put" /\ task'[k].at = "claim"
        /\ \A j \in Keys \ {k} : task'[j] = task[j]
    BY <1>1, <1>5 DEF Claiming, Inv, TypeOK
  <2>2. issued \subseteq issued' /\ valid' \cap spent = {}
    BY <1>1, <1>3, <1>5
  <2> QED
    BY <1>2, <2>1, <2>2, SpentMoves
<1> QED
  BY <1>4, <1>5

LEMMA CommitSpent ==
    ASSUME Inv, SpentInv, NEW k \in Keys, Commit(k)
    PROVE  SpentInv'
<1> USE OwnershipType
<1> DEFINE new == [token |-> task[k].token,
                   attempt |-> task[k].why = "put" /\ Retained(k) /\ rec[k].attempt,
                   reauth |-> task[k].why = "put" /\ Retained(k) /\ rec[k].reauth]
<1>1. /\ task[k].at = "commit" /\ rec'[k] = new /\ task'[k] = Idle
      /\ \A j \in Keys \ {k} : rec'[j] = rec[j] /\ task'[j] = task[j]
      /\ UNCHANGED <<spent, sentBy, issued, valid>>
  BY DEF Commit, Ends, Inv, TypeOK
<1>2. SpentKept(k) /\ CommitStepKept(k) /\ \A j, t : Burnt(j, t)' <=> Burnt(j, t)
  BY <1>1 DEF Burnt, SpentInv, Inv, HandlerInv, Kept
<1>3. ASSUME NEW j \in Keys, j # k PROVE SpentKept(j)'
  BY <1>1, <1>2, <1>3, SpentStays DEF SpentInv
<1>4. ASSUME Burnt(k, task[k].token) PROVE new.attempt \/ new.reauth
  <2>1. task[k].token = rec[k].token /\ (rec[k].attempt \/ rec[k].reauth)
    BY <1>1, <1>2, <1>4 DEF SpentKept
  <2>2. task[k].token \in Tokens /\ k \in sentBy[task[k].token]
    BY <1>4 DEF Burnt, Inv, TypeOK
  <2>3. Exists(k) /\ task[k].why = "put"
    BY <1>1, <1>2, <1>4, <2>2 DEF SpentKept, CommitStepKept
  <2> QED
    BY <2>1, <2>2, <2>3 DEF Retained
<1>5. new # NoRecord /\ new.token = task[k].token
  <2>1. DOMAIN new = {"token", "attempt", "reauth"} /\ DOMAIN NoRecord = {"token"}
    BY DEF NoRecord
  <2> QED
    BY <2>1
<1> HIDE DEF new
<1>6. SpentKept(k)'
  BY <1>1, <1>2, <1>4, <1>5 DEF SpentKept, Exists, Idle
<1> QED
  BY <1>1, <1>3, <1>6, SpentSame DEF SpentInv

LEMMA ImportSpent ==
    ASSUME Inv, SpentInv, NEW k \in Keys, Import(k)
    PROVE  SpentInv'
<1>1. /\ ~Exists(k) /\ UNCHANGED <<rec, spent, sentBy, issued, valid>>
      /\ task'[k].why = "import" /\ task'[k].at = "claim"
      /\ \A j \in Keys \ {k} : task'[j] = task[j]
  BY DEF Import, Claiming, world, Inv, TypeOK
<1> QED
  BY <1>1, SpentMoves DEF SpentInv

LEMMA RefreshSpent ==
    ASSUME Inv, SpentInv, NEW k \in Keys, Refresh(k)
    PROVE  SpentInv'
<1>1. /\ ~rec[k].attempt /\ ~rec[k].reauth /\ UNCHANGED <<rec, spent, sentBy, issued, valid>>
      /\ task'[k].why = "refresh" /\ task'[k].at = "claim"
      /\ \A j \in Keys \ {k} : task'[j] = task[j]
  BY DEF Refresh, Claiming, world, Inv, TypeOK
<1>2. ~Burnt(k, rec[k].token)
  BY <1>1 DEF SpentInv, SpentKept
<1> QED
  BY <1>1, <1>2, SpentMoves DEF SpentInv

LEMMA RevokeSpent ==
    ASSUME Inv, SpentInv, NEW k \in Keys, Revoke(k)
    PROVE  SpentInv'
<1> USE OwnershipType
<1> DEFINE new == [token |-> NoToken, attempt |-> FALSE, reauth |-> FALSE]
<1>1. /\ task' = task /\ task[k] = Idle /\ rec'[k] = new
      /\ \A j \in Keys \ {k} : rec'[j] = rec[j]
      /\ UNCHANGED <<spent, sentBy, issued, valid>>
  BY DEF Revoke, world, Inv, TypeOK
<1>2. \A j, t : Burnt(j, t)' <=> Burnt(j, t)
  BY <1>1 DEF Burnt
<1>3. ASSUME NEW j \in Keys, j # k PROVE SpentKept(j)'
  BY <1>1, <1>2, <1>3, SpentStays DEF SpentInv
<1>4. ~Burnt(k, NoToken)
  BY DEF Burnt, Inv, TypeOK
<1>5. new # NoRecord /\ new.token = NoToken
  <2>1. DOMAIN new = {"token", "attempt", "reauth"} /\ DOMAIN NoRecord = {"token"}
    BY DEF NoRecord
  <2> QED
    BY <2>1
<1> HIDE DEF new
<1>6. SpentKept(k)'
  BY <1>1, <1>2, <1>4, <1>5 DEF SpentKept, Exists, Idle
<1> QED
  BY <1>1, <1>3, <1>6, SpentSame DEF SpentInv

LEMMA WriteKvSpent ==
    ASSUME Inv, SpentInv, NEW k \in Keys, WriteKv(k)
    PROVE  SpentInv'
<1>1. UNCHANGED <<rec, task, spent, sentBy, issued, valid>>
  BY DEF WriteKv, world
<1>2. SpentKept(k)
  BY DEF SpentInv
<1> QED
  BY <1>1, <1>2, SpentMoves DEF SpentInv, SpentKept

(* The record of k changes but not its token, and fences what is spent.    *)
LEMMA SpentFences ==
    ASSUME Inv, SpentInv, NEW k \in Keys, rec[k].token \in Tokens, rec[k] \in Records,
           NEW attempt \in BOOLEAN, NEW reauth \in BOOLEAN,
           rec' = [rec EXCEPT ![k].attempt = attempt, ![k].reauth = reauth],
           task' = [task EXCEPT ![k] = Idle] \/ task' = [task EXCEPT ![k].at = "send"],
           UNCHANGED <<issued, valid, spent>>,
           sentBy' \in [Tokens -> SUBSET Keys],
           \A t \in Tokens : \A j \in Keys \ {k} : j \in sentBy'[t] <=> j \in sentBy[t],
           \A t \in Tokens : k \in sentBy[t] => k \in sentBy'[t],
           \A t \in Tokens \ {rec[k].token} : k \in sentBy'[t] => k \in sentBy[t],
           rec[k].token \in issued,
           Burnt(k, rec[k].token)' => (attempt \/ reauth) /\ task'[k] = Idle,
           task'[k] # Idle => task[k].why = "refresh" /\ task[k].at = "fence"
    PROVE  SpentInv'
<1> USE OwnershipType
<1>1. /\ rec'[k].token = rec[k].token /\ rec'[k].attempt = attempt /\ rec'[k].reauth = reauth
      /\ rec'[k] \in Records /\ \A j \in Keys \ {k} : rec'[j] = rec[j]
  BY ZenonT(60) DEF Inv, TypeOK, Records
<1>2. \A j \in Keys \ {k} : task'[j] = task[j]
  BY DEF Inv, TypeOK
<1>3. spent \subseteq Tokens /\ \A j \in Keys \ {k} : \A t : Burnt(j, t)' <=> Burnt(j, t)
  BY DEF Burnt, Inv, TypeOK
<1>4. ASSUME NEW j \in Keys, j # k PROVE SpentKept(j)'
  BY <1>1, <1>2, <1>3, <1>4, SpentStays DEF SpentInv
<1>5. rec'[k] # NoRecord
  <2>1. \A r \in Records : r # NoRecord
    <3>1. \A r \in Records : DOMAIN r = {"token", "attempt", "reauth"}
      BY DEF Records
    <3>2. DOMAIN NoRecord = {"token"}
      BY DEF NoRecord
    <3> QED
      BY <3>1, <3>2
  <2> QED
    BY <1>1, <2>1
<1>6. ASSUME task'[k] = Idle PROVE SpentKept(k)'
  BY <1>1, <1>5, <1>6 DEF SpentKept, Exists, Idle, Burnt
<1>7. ASSUME task'[k] # Idle PROVE SpentKept(k)'
  <2>1. task' = [task EXCEPT ![k].at = "send"]
    BY <1>7 DEF Inv, TypeOK
  <2>2. task'[k].at = "send" /\ task'[k].why = "refresh"
    BY <1>7, <2>1 DEF Inv, TypeOK, Tasks
  <2> QED
    BY <1>1, <1>5, <1>7, <2>2 DEF SpentKept, Exists, Burnt
<1>8. ASSUME NEW t \in Tokens
      PROVE  /\ t \in spent' => sentBy'[t] # {}
             /\ sentBy'[t] # {} => t \in issued'
  <2>1. sentBy[t] \subseteq Keys /\ sentBy'[t] \subseteq Keys
    BY DEF Inv, TypeOK
  <2>2. sentBy[t] \subseteq sentBy'[t]
    BY <2>1
  <2>3. t # rec[k].token => sentBy'[t] \subseteq sentBy[t]
    BY <2>1
  <2> QED
    BY <2>2, <2>3 DEF SpentInv
<1> QED
  BY <1>4, <1>6, <1>7, <1>8 DEF SpentInv

LEMMA FenceSpent ==
    ASSUME Inv, SpentInv, NEW k \in Keys, Fence(k)
    PROVE  SpentInv'
<1> USE OwnershipType
<1>1. /\ task[k].at = "fence" /\ rec' = [rec EXCEPT ![k].attempt = TRUE]
      /\ task' = [task EXCEPT ![k].at = "send"]
      /\ UNCHANGED <<spent, sentBy, issued, valid>>
  BY DEF Fence, Goes, world
<1>2. Kept(k) /\ SpentKept(k)
  BY DEF Inv, HandlerInv, SpentInv
<1>3. task[k].why = "refresh" /\ rec[k].token \in Tokens /\ rec[k].token \in issued
  BY <1>1, <1>2 DEF Kept, SendKept, RefreshKept, OnlyIssued
<1>4. rec[k] \in Records
  BY <1>3 DEF Inv, TypeOK, NoRecord
<1>5. rec' = [rec EXCEPT ![k].attempt = TRUE, ![k].reauth = rec[k].reauth]
      /\ rec[k].reauth \in BOOLEAN
  BY <1>1, <1>4 DEF Inv, TypeOK, Records
<1>6. ~Burnt(k, rec[k].token)'
  <2>1. ~Burnt(k, rec[k].token)
    BY <1>1, <1>2, <1>3 DEF SpentKept
  <2>2. rec'[k].token = rec[k].token
    BY <1>1, <1>4 DEF Inv, TypeOK, Records
  <2> QED
    BY <1>1, <2>1, <2>2 DEF Burnt
<1>7. sentBy \in [Tokens -> SUBSET Keys] /\ task'[k] # Idle
  BY <1>1 DEF Inv, TypeOK, Idle
<1> QED
  BY <1>1, <1>3, <1>4, <1>5, <1>6, <1>7, SpentFences

(* A token that is about to be sent has not been exchanged by anyone: only *)
(* its owner could have.                                                   *)
LEMMA SendClean ==
    ASSUME Inv, SpentInv, NEW k \in Keys, task[k].at = "send"
    PROVE  rec[k].token \notin spent
<1>1. Mine(k, rec[k].token) /\ rec[k].token \in Tokens /\ task[k].why = "refresh"
  BY SendFacts
<1>2. ~Burnt(k, rec[k].token)
  BY <1>1 DEF SpentInv, SpentKept
<1>3. \A j \in sentBy[rec[k].token] : j = k
  BY <1>1 DEF Inv, SentInv, Mine
<1> QED
  BY <1>1, <1>2, <1>3 DEF SpentInv, Burnt

LEMMA TransientRejectionSpent ==
    ASSUME Inv, SpentInv, NEW k \in Keys, TransientRejection(k)
    PROVE  SpentInv'
<1> USE OwnershipType
<1> DEFINE t == rec[k].token
<1>1. /\ sentBy' = [sentBy EXCEPT ![t] = @ \cup {k}] /\ task[k].at = "send"
      /\ rec' = [rec EXCEPT ![k].attempt = FALSE] /\ task' = [task EXCEPT ![k] = Idle]
      /\ UNCHANGED <<valid, issued, spent>>
  BY DEF TransientRejection, Ends
<1>2. t \in Tokens /\ t \in issued /\ rec[k] \in Records /\ t \notin spent
  BY <1>1, SendFacts, SendClean
<1>3. rec' = [rec EXCEPT ![k].attempt = FALSE, ![k].reauth = rec[k].reauth]
      /\ rec[k].reauth \in BOOLEAN /\ rec'[k].token = t /\ task'[k] = Idle
  BY <1>1, <1>2 DEF Inv, TypeOK, Records
<1>4. ~Burnt(k, rec[k].token)'
  BY <1>1, <1>2, <1>3 DEF Burnt
<1> HIDE DEF t
<1>5. /\ sentBy' \in [Tokens -> SUBSET Keys]
      /\ \A u \in Tokens : \A j \in Keys \ {k} : j \in sentBy'[u] <=> j \in sentBy[u]
      /\ \A u \in Tokens : k \in sentBy[u] => k \in sentBy'[u]
      /\ \A u \in Tokens \ {t} : k \in sentBy'[u] => k \in sentBy[u]
  BY <1>1, <1>2 DEF Inv, TypeOK
<1> QED
  BY <1>1, <1>2, <1>3, <1>4, <1>5, SpentFences DEF t

LEMMA SettleSpent ==
    ASSUME Inv, SpentInv, NEW k \in Keys, Settle(k)
    PROVE  SpentInv'
<1> USE OwnershipType
<1>1. task[k].at = "settle" /\ UNCHANGED <<valid, issued, spent, sentBy>>
  BY DEF Settle
<1>2. Kept(k) /\ SpentKept(k) /\ task[k] \in Tasks /\ sentBy \in [Tokens -> SUBSET Keys]
  BY DEF Inv, HandlerInv, SpentInv, TypeOK
<1>3. rec[k].token \in Tokens /\ rec[k].token \in issued /\ rec[k].attempt
  BY <1>1, <1>2 DEF Kept, FencedSend, OnlyIssued
<1>4. rec[k] \in Records
  BY <1>3 DEF Inv, TypeOK, NoRecord
<1>5. CASE task[k].token = NoToken
  <2>1. /\ rec' = [rec EXCEPT ![k].attempt = FALSE, ![k].reauth = TRUE]
        /\ task' = [task EXCEPT ![k] = Idle]
    BY <1>5 DEF Settle, Ends
  <2>2. task'[k] = Idle
    BY <2>1 DEF Inv, TypeOK
  <2> QED
    BY <1>1, <1>2, <1>3, <1>4, <2>1, <2>2, SpentFences
<1>6. CASE task[k].token # NoToken
  <2>1. /\ Claiming(k, "rotate", task[k].token, FALSE, task[k].token = rec[k].token, FALSE)
        /\ rec' = rec
    BY <1>6 DEF Settle
  <2>2. /\ task'[k].why = "rotate" /\ task'[k].at = "claim" /\ task'[k].token = task[k].token
        /\ \A j \in Keys \ {k} : task'[j] = task[j]
    BY <2>1 DEF Claiming, Inv, TypeOK
  <2>3. ~Burnt(k, task[k].token)
    BY <1>1, <1>2 DEF SpentKept
  <2> QED
    BY <1>1, <2>1, <2>2, <2>3, SpentMoves DEF SpentInv
<1> QED
  BY <1>5, <1>6

(* The provider's answer is a token nobody has sent, or the one it kept;   *)
(* the exchanged one is fenced.                                            *)
LEMMA ExchangeSpent ==
    ASSUME Inv, SpentInv, NEW k \in Keys, Exchange(k)
    PROVE  SpentInv'
<1> USE OwnershipType
<1> DEFINE t == rec[k].token
<1>1. /\ task[k].at = "send" /\ rec' = rec
      /\ sentBy' = [sentBy EXCEPT ![t] = @ \cup {k}]
  BY DEF Exchange, Leaves
<1>2. /\ t \in Tokens /\ t \in issued /\ t \notin spent /\ rec[k].attempt
      /\ Mine(k, t) /\ task[k].why = "refresh"
  BY <1>1, SendFacts, SendClean
<1>3. PICK answer \in Tokens \cup {NoToken} :
        /\ task' = [task EXCEPT ![k].at = "settle", ![k].token = answer]
        /\ issued \subseteq issued' /\ valid' \cap spent' = {}
        /\ spent' \subseteq spent \cup {t} /\ spent \subseteq spent'
        /\ answer \in spent' => answer \notin issued
  <2>1. spent \subseteq issued /\ issued \subseteq Tokens /\ valid \subseteq issued
        /\ valid \cap spent = {}
    BY DEF Inv, TypeOK, SpentInv
  <2>2. CASE \E new \in Tokens \ issued :
            /\ t \in valid
            /\ valid' = (valid \ {t}) \cup {new} /\ issued' = issued \cup {new}
            /\ spent' = spent \cup {t}
            /\ task' = [task EXCEPT ![k].at = "settle", ![k].token = new]
    <3>1. PICK new \in Tokens \ issued :
            /\ valid' = (valid \ {t}) \cup {new} /\ issued' = issued \cup {new}
            /\ spent' = spent \cup {t}
            /\ task' = [task EXCEPT ![k].at = "settle", ![k].token = new]
      BY <2>2
    <3>2. valid' \cap spent' = {} /\ new \notin spent'
      BY <1>2, <2>1, <3>1
    <3> QED
      BY <2>1, <3>1, <3>2
  <2>3. CASE /\ t \in valid
             /\ task' = [task EXCEPT ![k].at = "settle", ![k].token = t]
             /\ UNCHANGED <<valid, issued, spent>>
    BY <1>2, <2>1, <2>3
  <2>4. CASE /\ task' = [task EXCEPT ![k].at = "settle", ![k].token = NoToken]
             /\ valid' = valid \ {t}
             /\ UNCHANGED <<issued, spent>>
    BY <2>1, <2>4
  <2> QED
    BY <2>2, <2>3, <2>4 DEF Exchange
<1> HIDE DEF t
<1>4. sentBy' \in [Tokens -> SUBSET Keys] /\ sentBy'[t] = sentBy[t] \cup {k}
      /\ \A u \in Tokens \ {t} : sentBy'[u] = sentBy[u]
  BY <1>1, <1>2 DEF Inv, TypeOK
<1>5. /\ task'[k].at = "settle" /\ task'[k].why = "refresh" /\ task'[k].token = answer
      /\ \A j \in Keys \ {k} : task'[j] = task[j]
  BY <1>2, <1>3 DEF Inv, TypeOK, Tasks
<1>6. ASSUME NEW j \in Keys, j # k PROVE SpentKept(j)'
  <2>1. j \notin sentBy[t] /\ j \notin sentBy'[t]
    BY <1>2, <1>4, <1>6 DEF Inv, SentInv, Mine
  <2>2. spent \subseteq Tokens /\ spent' \subseteq Tokens
    BY <1>2, <1>3 DEF Inv, TypeOK
  <2>3. \A u : Burnt(j, u)' <=> Burnt(j, u)
    BY <1>3, <1>4, <2>1, <2>2 DEF Burnt
  <2>4. \A u \in Tokens : j \in sentBy'[u] <=> j \in sentBy[u]
    BY <1>4, <2>1
  <2> QED
    BY <1>1, <1>5, <1>6, <2>3, <2>4, SpentStays DEF SpentInv
<1>7. SpentKept(k)'
  <2>1. Exists(k)'
    BY <1>1, <1>2 DEF Exists, NoRecord, t
  <2>2. ~Burnt(k, answer)'
    <3>1. SUFFICES ASSUME answer \in spent', k \in sentBy'[answer] PROVE FALSE
      BY <1>3 DEF Burnt
    <3>2. answer \in spent' /\ answer \notin issued /\ answer \in Tokens /\ answer # t
      BY <1>2, <1>3, <3>1 DEF Inv, TypeOK
    <3> QED
      BY <1>4, <3>1, <3>2 DEF SpentInv
  <2> QED
    BY <1>1, <1>2, <1>5, <2>1, <2>2 DEF SpentKept, Burnt
<1>8. ASSUME NEW u \in Tokens
      PROVE  /\ u \in spent' => sentBy'[u] # {}
             /\ sentBy'[u] # {} => u \in issued'
  BY <1>2, <1>3, <1>4 DEF SpentInv
<1> QED
  BY <1>3, <1>6, <1>7, <1>8 DEF SpentInv

LEMMA FailSpent ==
    ASSUME Inv, SpentInv, NEW k \in Keys, Fail(k)
    PROVE  SpentInv'
<1>1. /\ task'[k] = Idle /\ \A j \in Keys \ {k} : task'[j] = task[j]
      /\ UNCHANGED <<rec, spent, sentBy, issued, valid>>
  BY DEF Fail, Ends, world, Inv, TypeOK
<1> QED
  BY <1>1, SpentMoves DEF SpentInv, Idle

(* The index lets a handler store a token that its grant has spent only    *)
(* where it is stored already.                                             *)
LEMMA AnswerSpent ==
    ASSUME Inv, SpentInv, UNCHANGED <<rec, kvToken, world>>,
           NEW c \in Claims, NEW heard \in BOOLEAN, NEW granted \in BOOLEAN,
           heard => task[c.key].at \in {"claim", "taken"} /\ task[c.key].claim = c,
           Answer(c, heard, granted),
           granted /\ Burnt(c.key, c.token) => c.current
    PROVE  SpentInv'
<1> DEFINE k == c.key
<1>1. k \in Keys /\ UNCHANGED <<rec, spent, sentBy, issued, valid>>
  BY DEF Claims, world
<1>2. SpentKept(k) /\ Kept(k) /\ task[k] \in Tasks
  BY <1>1 DEF SpentInv, Inv, HandlerInv, TypeOK
<1>3. CASE ~heard
  <2>1. task' = task
    BY <1>3 DEF Answer
  <2> QED
    BY <1>1, <1>2, <2>1, SpentMoves DEF SpentInv, SpentKept
<1>4. CASE heard /\ ~granted
  <2>1. task'[k] = Idle /\ \A j \in Keys \ {k} : task'[j] = task[j]
    BY <1>1, <1>4 DEF Answer, Ends, Inv, TypeOK
  <2> QED
    BY <1>1, <2>1, SpentMoves DEF SpentInv, Idle
<1>5. CASE heard /\ granted
  <2> DEFINE place == IF c.consume THEN "fence" ELSE "commit"
  <2>1. task' = [task EXCEPT ![k].at = place]
    BY <1>5 DEF Answer, Goes
  <2>2. /\ task'[k].at = place /\ task'[k].why = task[k].why /\ task'[k].token = task[k].token
        /\ \A j \in Keys \ {k} : task'[j] = task[j]
    BY <1>1, <1>2, <2>1 DEF Inv, TypeOK, Tasks
  <2>3. place # "settle"
    OBVIOUS
  <2> HIDE DEF place
  <2>4. c.token = task[k].token /\ (c.current => rec[k].token = task[k].token)
        /\ task[k].at # "settle"
    BY <1>2, <1>5 DEF Kept, ClaimKept
  <2>5. Burnt(k, task[k].token) => task[k].token = rec[k].token
    BY <1>5, <2>4
  <2> QED
    BY <1>1, <1>2, <2>2, <2>3, <2>4, <2>5, SpentMoves DEF SpentInv, SpentKept
<1> QED
  BY <1>3, <1>4, <1>5

LEMMA TakeSpent ==
    ASSUME Inv, SpentInv, NEW c \in Claims, NEW heard \in BOOLEAN, Take(c, heard),
           heard => task[c.key].at = "claim" /\ task[c.key].claim = c,
           UNCHANGED <<rec, kvToken, world>>
    PROVE  SpentInv'
<1>1. CASE registry[c.token] # Free
  <2>1. Answer(c, heard, Grants(c))
    BY <1>1 DEF Take
  <2>2. ASSUME Grants(c), Burnt(c.key, c.token) PROVE c.current
    BY <2>2 DEF Grants, Burnt, Inv, SentInv, Claims
  <2>3. CASE Grants(c)
    <3>1. Answer(c, heard, TRUE)
      BY <2>1, <2>3
    <3> QED
      BY <2>2, <2>3, <3>1, AnswerSpent
  <2>4. CASE ~Grants(c)
    <3>1. Answer(c, heard, FALSE)
      BY <2>1, <2>4 DEF Answer
    <3> QED
      BY <3>1, AnswerSpent
  <2> QED
    BY <2>3, <2>4
<1>2. CASE registry[c.token] = Free
  <2> DEFINE k == c.key
  <2>1. k \in Keys /\ UNCHANGED <<rec, spent, sentBy, issued, valid>>
    BY DEF Claims, world
  <2>2. SpentKept(k) /\ task[k] \in Tasks
    BY <2>1 DEF SpentInv, Inv, TypeOK
  <2>3. CASE heard
    <3>1. task' = [task EXCEPT ![k].at = "taken"]
      BY <1>2, <2>3 DEF Take, Goes
    <3>2. /\ task'[k].at = "taken" /\ task'[k].why = task[k].why
          /\ task'[k].token = task[k].token /\ \A j \in Keys \ {k} : task'[j] = task[j]
      BY <2>1, <2>2, <3>1 DEF Inv, TypeOK, Tasks
    <3> QED
      BY <2>1, <2>2, <2>3, <3>2, SpentMoves DEF SpentInv, SpentKept
  <2>4. CASE ~heard
    <3>1. task' = task
      BY <1>2, <2>4 DEF Take
    <3> QED
      BY <2>1, <2>2, <3>1, SpentMoves DEF SpentInv, SpentKept
  <2> QED
    BY <2>3, <2>4
<1> QED
  BY <1>1, <1>2

LEMMA CompareSpent ==
    ASSUME Inv, SpentInv, scan # NoScan, NEW j, NEW held, NEW others,
           Compare(j, held, others), UNCHANGED <<rec, kvToken, world>>
    PROVE  SpentInv'
<1>1. CASE held = scan.claim.token
  <2>1. Answer(scan.claim, scan.heard, FALSE)
    BY <1>1 DEF Compare
  <2> QED
    BY <2>1, ScanFacts, AnswerSpent
<1>2. CASE held # scan.claim.token
  <2>1. UNCHANGED <<task, rec, spent, sentBy, issued, valid>>
    BY <1>2 DEF Compare, world
  <2>2. \A k \in Keys : SpentKept(k)'
    BY <2>1 DEF SpentInv, SpentKept, Burnt, Exists
  <2> QED
    BY <2>1, <2>2, SpentSame DEF SpentInv
<1> QED
  BY <1>1, <1>2

LEMMA ReserveSpent ==
    ASSUME Inv, SpentInv, Reserve
    PROVE  SpentInv'
<1>1. scan # NoScan /\ Answer(scan.claim, scan.heard, TRUE) /\ UNCHANGED <<rec, kvToken, world>>
  BY DEF Reserve
<1>2. ~Burnt(scan.claim.key, scan.claim.token)
  BY <1>1, ScanFacts DEF Inv, SentInv, Mine, Burnt
<1> QED
  BY <1>1, <1>2, ScanFacts, AnswerSpent

LEMMA SpentStep == Inv /\ SpentInv /\ [Next]_vars => SpentInv'
<1> SUFFICES ASSUME Inv, SpentInv, [Next]_vars PROVE SpentInv'
  OBVIOUS
<1>1. ASSUME NEW k \in Keys, TakeClaim(k) PROVE SpentInv'
  <2> DEFINE c == task[k].claim
  <2>1. task[k].at = "claim" /\ Take(c, TRUE) /\ UNCHANGED <<rec, kvToken, world>>
    BY <1>1 DEF TakeClaim
  <2>2. c \in Claims /\ c.key = k
    BY <2>1 DEF Inv, HandlerInv, Kept, ClaimKept
  <2> HIDE DEF c
  <2>3. task[c.key].at = "claim" /\ task[c.key].claim = c
    BY <2>1, <2>2 DEF c
  <2> QED
    BY <2>1, <2>2, <2>3, TakeSpent
<1>2. ASSUME NEW c \in orphans, TakeOrphan(c) PROVE SpentInv'
  BY <1>2, TakeSpent DEF TakeOrphan, Inv, TypeOK
<1>3. ASSUME NEW k \in Keys, ReadOwner(k) \/ ReadKv(k) PROVE SpentInv'
  BY <1>3, CompareSpent DEF ReadOwner, ReadKv
<1>4. CASE \E k \in Keys :
         \/ Put(k) \/ Commit(k) \/ Import(k) \/ Revoke(k) \/ WriteKv(k)
         \/ TakeClaim(k) \/ ReadOwner(k) \/ ReadKv(k) \/ Refresh(k) \/ Fence(k) \/ Exchange(k)
         \/ TransientRejection(k) \/ Settle(k) \/ Fail(k)
  BY <1>1, <1>3, <1>4, PutSpent, CommitSpent, ImportSpent, RevokeSpent, WriteKvSpent, RefreshSpent,
     FenceSpent, ExchangeSpent, TransientRejectionSpent, SettleSpent, FailSpent
<1>5. CASE \E c \in orphans : TakeOrphan(c)
  BY <1>2, <1>5
<1>6. CASE Reserve
  BY <1>6, ReserveSpent
<1>7. CASE UNCHANGED vars
  <2>1. UNCHANGED <<rec, task, valid, issued, spent, sentBy>>
    BY <1>7 DEF vars, world
  <2>2. \A k \in Keys : SpentKept(k)'
    BY <2>1 DEF SpentInv, SpentKept, Burnt, Exists
  <2> QED
    BY <2>1, <2>2, SpentSame DEF SpentInv
<1> QED
  BY <1>4, <1>5, <1>6, <1>7 DEF Next

(* performRefresh, recordRefreshFailure and /put: a grant that still holds *)
(* a refresh token it has spent is fenced or asks for a new login, after   *)
(* any failure, restart, revocation or paste.                              *)
THEOREM SpentTokensAreFenced == Spec => []SpentIsFenced
<1>1. ASSUME SpentInv PROVE SpentIsFenced
  BY <1>1 DEF SpentInv, SpentKept, Burnt, SpentIsFenced
<1> QED
  BY <1>1, SpentInit, SpentStep, InvAlways, PTL DEF Spec

-----------------------------------------------------------------------------
(* While the index looks for the holders of a token, nobody new can come   *)
(* to hold it: what is stored is reserved first.  Only grants older than   *)
(* the index hold tokens that are not, and KV lists those.                 *)
StoredKept(k) ==
    /\ task[k].at = "commit" /\ task[k].token # NoToken => registry[task[k].token] # Free
    /\ kvToken[k] # NoToken => k \in Old
    /\ rec[k].token # NoToken /\ registry[rec[k].token] = Free => k \in Old

ScanKept(j) ==
    /\ j = scan.claim.key => j \notin scan.left \cup scan.absent
    /\ j # scan.claim.key /\ Held(j) = scan.claim.token => j \in scan.left \cup scan.absent
    /\ j \in scan.absent => rec[j].token # scan.claim.token

CoverInv == /\ \A k \in Keys : StoredKept(k)
            /\ scan # NoScan => \A j \in Keys : ScanKept(j)

LEMMA CoverInit == Init => CoverInv
<1> SUFFICES ASSUME Init PROVE CoverInv
  OBVIOUS
<1>1. PICK old \in [Old -> Tokens], owned \in SUBSET Old :
        /\ rec = [k \in Keys |-> IF k \in owned
                   THEN [token |-> old[k], attempt |-> FALSE, reauth |-> FALSE] ELSE NoRecord]
        /\ kvToken = [k \in Keys |-> IF k \in Old \ owned THEN old[k] ELSE NoToken]
  BY DEF Init
<1>2. scan = NoScan /\ \A k \in Keys : task[k].at = "idle"
  BY DEF Init, Idle
<1>3. ASSUME NEW k \in Keys PROVE StoredKept(k)
  BY <1>1, <1>2 DEF StoredKept, NoRecord
<1> QED
  BY <1>2, <1>3 DEF CoverInv

(* A step of a grant's object: what it comes to hold is reserved.          *)
LEMMA CoverOwn ==
    ASSUME Inv, CoverInv, NEW k \in Keys, registry' = registry,
           scan' = scan \/ (scan \in Scans /\ scan' = [scan EXCEPT !.heard = FALSE]),
           \A j \in Keys \ {k} : rec'[j] = rec[j] /\ kvToken'[j] = kvToken[j] /\ task'[j] = task[j],
           \/ rec'[k] = rec[k]
           \/ rec'[k] # NoRecord /\ \/ rec'[k].token = rec[k].token /\ rec[k] # NoRecord
                                    \/ rec'[k].token = NoToken
                                    \/ registry[rec'[k].token] # Free,
           kvToken'[k] = kvToken[k] \/ (kvToken'[k] = NoToken /\ rec[k] # NoRecord),
           task'[k].at = "commit" => \/ task'[k].token = NoToken
                                     \/ task[k].at = "commit" /\ task'[k].token = task[k].token
    PROVE  CoverInv'
<1> USE OwnershipType
<1>1. ASSUME NEW j \in Keys PROVE StoredKept(j)'
  <2>1. StoredKept(j) /\ NoRecord.token = NoToken
    BY DEF CoverInv, NoRecord
  <2>2. CASE j # k
    BY <2>1, <2>2 DEF StoredKept
  <2>3. CASE j = k
    BY <2>1, <2>3 DEF StoredKept
  <2> QED
    BY <2>2, <2>3
<1>2. ASSUME scan' # NoScan, NEW j \in Keys PROVE ScanKept(j)'
  <2>1. scan # NoScan
    BY <1>2 DEF NoScan, Scans
  <2>2. /\ scan'.claim = scan.claim /\ scan'.left = scan.left /\ scan'.absent = scan.absent
        /\ scan.claim.token \in Tokens /\ registry[scan.claim.token] = Free
    BY <2>1, ScanFacts DEF Scans
  <2>3. ScanKept(j)
    BY <2>1 DEF CoverInv
  <2>4. \/ rec'[j].token = rec[j].token
        \/ rec'[j].token # scan.claim.token
    BY <2>2
  <2>5. Held(j)' = Held(j) \/ Held(j)' # scan.claim.token
    BY <2>2 DEF Held, Exists
  <2> QED
    BY <2>2, <2>3, <2>4, <2>5 DEF ScanKept
<1> QED
  BY <1>1, <1>2 DEF CoverInv

(* An answer of the index: the handler it grants a token has it reserved.  *)
LEMMA CoverAnswer ==
    ASSUME Inv, CoverInv, RegistryGrows, \A t \in Tokens : registry[t] # Free => registry'[t] # Free,
           UNCHANGED <<rec, kvToken>>, scan' = NoScan,
           NEW c \in Claims, NEW heard \in BOOLEAN, NEW granted \in BOOLEAN,
           heard => task[c.key].at \in {"claim", "taken"} /\ task[c.key].claim = c,
           Answer(c, heard, granted), granted => registry'[c.token] # Free
    PROVE  CoverInv'
<1> USE OwnershipType
<1>1. c.key \in Keys /\ c.token \in Tokens
  BY DEF Claims
<1>2. ASSUME NEW j \in Keys,
             \/ task'[j] = task[j] \/ task'[j] = Idle
             \/ task'[j].token = c.token /\ granted
      PROVE  StoredKept(j)'
  <2>1. StoredKept(j) /\ task[j] \in Tasks
    BY DEF CoverInv, Inv, TypeOK
  <2>2. task'[j].at = "commit" /\ task'[j].token # NoToken => registry'[task'[j].token] # Free
    <3>1. CASE task'[j] = task[j]
      BY <2>1, <3>1 DEF StoredKept, Tasks
    <3>2. CASE task'[j] = Idle
      BY <3>2 DEF Idle
    <3>3. CASE task'[j].token = c.token /\ granted
      BY <3>3
    <3> QED
      BY <1>2, <3>1, <3>2, <3>3
  <2>3. rec[j].token \in Tokens \cup {NoToken}
    BY DEF Inv, TypeOK, Records, NoRecord
  <2> QED
    BY <2>1, <2>2, <2>3 DEF StoredKept
<1>3. ASSUME NEW j \in Keys
      PROVE  \/ task'[j] = task[j] \/ task'[j] = Idle
             \/ task'[j].token = c.token /\ granted
  <2>1. CASE ~heard
    BY <2>1 DEF Answer
  <2>2. CASE heard /\ ~granted
    BY <1>1, <2>2 DEF Answer, Ends, Inv, TypeOK
  <2>3. CASE heard /\ granted
    <3>1. \E at : task' = [task EXCEPT ![c.key].at = at]
      BY <2>3 DEF Answer, Goes
    <3>2. task[c.key].token = c.token /\ task[c.key] \in Tasks
      BY <1>1, <2>3 DEF Inv, HandlerInv, Kept, ClaimKept, TypeOK
    <3>3. task'[c.key].token = c.token
      BY <1>1, <3>1, <3>2 DEF Inv, TypeOK, Tasks
    <3> QED
      BY <1>1, <2>3, <3>1, <3>3 DEF Inv, TypeOK
  <2> QED
    BY <2>1, <2>2, <2>3
<1> QED
  BY <1>2, <1>3 DEF CoverInv

(* Steps that leave every record and every KV copy as it is.               *)
LEMMA CoverTasks ==
    ASSUME Inv, CoverInv, NEW k \in Keys,
           \/ Put(k) \/ Import(k) \/ Refresh(k) \/ Exchange(k) \/ Fail(k)
    PROVE  CoverInv' /\ UNCHANGED registry
<1> USE OwnershipType
<1>1. UNCHANGED <<rec, kvToken, registry>>
  BY DEF Put, Import, Refresh, Exchange, Fail
<1>2. task \in [Keys -> Tasks] /\ task[k] \in Tasks
  BY DEF Inv, TypeOK
<1>3. /\ \A j \in Keys \ {k} : task'[j] = task[j]
      /\ task'[k].at = "commit" => task'[k].token = NoToken
      /\ scan' = scan \/ (scan \in Scans /\ scan' = [scan EXCEPT !.heard = FALSE])
  <2>1. CASE Put(k)
    BY <1>2, <2>1 DEF Put, Committing, Claiming
  <2>2. CASE Import(k) \/ Refresh(k)
    BY <1>2, <2>2 DEF Import, Refresh, Claiming
  <2>3. CASE Exchange(k)
    <3>1. \E token : task' = [task EXCEPT ![k].at = "settle", ![k].token = token]
      BY <2>3 DEF Exchange
    <3>2. task'[k].at = "settle" /\ \A j \in Keys \ {k} : task'[j] = task[j]
      BY <1>2, <3>1 DEF Tasks
    <3> QED
      BY <2>3, <3>2 DEF Exchange
  <2>4. CASE Fail(k)
    <3>1. task[k].at = "taken" => scan \in Scans
      BY DEF Inv, HandlerInv, Kept, Heard
    <3> QED
      BY <1>2, <2>4, <3>1 DEF Fail, Ends, Idle
  <2> QED
    BY <2>1, <2>2, <2>3, <2>4
<1> QED
  BY <1>1, <1>3, CoverOwn

(* Steps that write the record of a grant or its KV copy.                  *)
LEMMA CoverRecords ==
    ASSUME Inv, CoverInv, NEW k \in Keys,
           \/ Commit(k) \/ Revoke(k) \/ WriteKv(k) \/ Fence(k)
           \/ TransientRejection(k) \/ Settle(k)
    PROVE  CoverInv' /\ UNCHANGED registry
<1> USE OwnershipType
<1>1. UNCHANGED <<registry, scan>>
  BY DEF Commit, Revoke, WriteKv, Fence, TransientRejection, Settle
<1>2. /\ task \in [Keys -> Tasks] /\ task[k] \in Tasks /\ StoredKept(k) /\ Kept(k)
      /\ rec \in [Keys -> Records \cup {NoRecord}] /\ kvToken \in [Keys -> Tokens \cup {NoToken}]
  BY DEF Inv, TypeOK, CoverInv, HandlerInv
<1>3. \A r \in Records : r # NoRecord
  <2>1. \A r \in Records : DOMAIN r = {"token", "attempt", "reauth"}
    BY DEF Records
  <2>2. DOMAIN NoRecord = {"token"}
    BY DEF NoRecord
  <2> QED
    BY <2>1, <2>2
<1>4. CASE Commit(k)
  <2> DEFINE new == [token |-> task[k].token,
                     attempt |-> task[k].why = "put" /\ Retained(k) /\ rec[k].attempt,
                     reauth |-> task[k].why = "put" /\ Retained(k) /\ rec[k].reauth]
  <2>1. /\ rec' = [rec EXCEPT ![k] = new] /\ task' = [task EXCEPT ![k] = Idle]
        /\ kvToken' = kvToken /\ task[k].at = "commit"
    BY <1>4 DEF Commit, Ends
  <2>2. new \in Records /\ new.token = task[k].token
    BY <1>2 DEF Records, Tasks
  <2> HIDE DEF new
  <2>3. /\ rec'[k] = new /\ task'[k] = Idle
        /\ \A j \in Keys \ {k} : rec'[j] = rec[j] /\ task'[j] = task[j]
    BY <1>2, <2>1
  <2>4. new.token = NoToken \/ registry[new.token] # Free
    BY <1>2, <2>1, <2>2 DEF StoredKept
  <2>5. task'[k].at # "commit"
    BY <2>3 DEF Idle
  <2> QED
    BY <1>1, <1>3, <2>1, <2>2, <2>3, <2>4, <2>5, CoverOwn
<1>5. CASE Revoke(k)
  <2> DEFINE new == [token |-> NoToken, attempt |-> FALSE, reauth |-> FALSE]
  <2>1. rec' = [rec EXCEPT ![k] = new] /\ UNCHANGED <<task, kvToken>> /\ task[k].at # "commit"
    BY <1>5 DEF Revoke, Idle
  <2>2. new \in Records /\ new.token = NoToken
    BY DEF Records
  <2> HIDE DEF new
  <2> QED
    BY <1>1, <1>2, <1>3, <2>1, <2>2, CoverOwn
<1>6. CASE WriteKv(k)
  BY <1>1, <1>2, <1>6, CoverOwn DEF WriteKv, Exists
<1>7. CASE Fence(k) \/ TransientRejection(k) \/ Settle(k)
  <2>1. rec[k].token \in Tokens
    BY <1>2, <1>7 DEF Fence, TransientRejection, Settle, Kept, RefreshKept, SendKept, FencedSend
  <2>2. rec[k] \in Records
    BY <1>2, <2>1 DEF NoRecord
  <2>3. /\ kvToken' = kvToken
        /\ \/ rec' = rec
           \/ \E a : rec' = [rec EXCEPT ![k].attempt = a]
           \/ \E a, r : rec' = [rec EXCEPT ![k].attempt = a, ![k].reauth = r]
    BY <1>7 DEF Fence, TransientRejection, Settle
  <2>4. /\ rec'[k].token = rec[k].token /\ DOMAIN rec'[k] = {"token", "attempt", "reauth"}
        /\ \A j \in Keys \ {k} : rec'[j] = rec[j]
    BY <1>2, <2>2, <2>3, ZenonT(60) DEF Records
  <2>5. rec'[k] # NoRecord
    BY <2>4 DEF NoRecord
  <2>6. task'[k].at # "commit" /\ \A j \in Keys \ {k} : task'[j] = task[j]
    BY <1>2, <1>7 DEF Fence, TransientRejection, Settle, Goes, Ends, Claiming, Idle, Tasks
  <2> QED
    BY <1>1, <1>3, <2>2, <2>3, <2>4, <2>5, <2>6, CoverOwn
<1> QED
  BY <1>4, <1>5, <1>6, <1>7

(* A token that becomes reserved to the claim the index works on is held   *)
(* by no other grant.                                                      *)
NoneRobbed ==
    \A t \in Tokens :
        /\ registry[t] = Free /\ registry'[t] # Free
        /\ registry'[t].owner = scan.claim.key
        => \A j \in Keys \ {scan.claim.key} : Held(j) # t

(* Every grant that holds a token not yet reserved is on the list.         *)
LEMMA CoverTake ==
    ASSUME Inv, CoverInv, NEW c \in Claims, NEW heard \in BOOLEAN, Take(c, heard),
           heard => task[c.key].at = "claim" /\ task[c.key].claim = c,
           UNCHANGED <<rec, kvToken>>
    PROVE  CoverInv' /\ NoneRobbed
<1> USE OwnershipType
<1>1. c.key \in Keys /\ c.token \in Tokens /\ scan = NoScan
  BY DEF Claims, Take
<1>2. registry \in [Tokens -> Reservations \cup {Free}]
  BY DEF Inv, TypeOK
<1>3. CASE registry[c.token] # Free
  <2>1. /\ registry' = IF Grants(c) /\ c.consume
                       THEN [registry EXCEPT ![c.token].used = TRUE] ELSE registry
        /\ Answer(c, heard, Grants(c)) /\ scan' = NoScan
    BY <1>1, <1>3 DEF Take
  <2>2. registry[c.token] \in Reservations
    BY <1>1, <1>2, <1>3
  <2>3. /\ \A t \in Tokens \ {c.token} : registry'[t] = registry[t]
        /\ registry' = registry \/ (registry'[c.token].owner = registry[c.token].owner
                                    /\ registry'[c.token].used)
    BY <1>1, <1>2, <2>1, <2>2 DEF Reservations
  <2>4. \A v : v.used => v # Free
    BY DEF Free
  <2>5. RegistryGrows /\ \A t \in Tokens : registry[t] # Free => registry'[t] # Free
    BY <1>3, <2>3, <2>4 DEF RegistryGrows
  <2>6. NoneRobbed
    BY <1>3, <2>3 DEF NoneRobbed
  <2>7. CASE Grants(c)
    <3>1. Answer(c, heard, TRUE)
      BY <2>1, <2>7
    <3> QED
      BY <1>1, <1>3, <2>1, <2>5, <2>6, <3>1, CoverAnswer
  <2>8. CASE ~Grants(c)
    <3>1. Answer(c, heard, FALSE)
      BY <2>1, <2>8 DEF Answer
    <3> QED
      BY <2>1, <2>5, <2>6, <3>1, CoverAnswer
  <2> QED
    BY <2>7, <2>8
<1>4. CASE registry[c.token] = Free
  <2>1. PICK listed \in SUBSET Keys :
          /\ Old \subseteq listed
          /\ scan' = [claim |-> c, left |-> listed \ {c.key}, absent |-> {}, heard |-> heard]
    BY <1>4 DEF Take
  <2>2. UNCHANGED registry /\ NoneRobbed
    BY <1>4 DEF Take, NoneRobbed
  <2>3. ASSUME NEW j \in Keys PROVE ScanKept(j)'
    <3>1. StoredKept(j) /\ (Held(j)' = c.token => j \in Old)
      BY <1>1, <1>4 DEF CoverInv, StoredKept, Held, Exists
    <3> QED
      BY <2>1, <3>1 DEF ScanKept
  <2>4. ASSUME NEW j \in Keys PROVE StoredKept(j)'
    <3>1. StoredKept(j) /\ task[j] \in Tasks
      BY DEF CoverInv, Inv, TypeOK
    <3>2. task'[j] = task[j] \/ task'[j].at # "commit"
      BY <1>1, <1>4, <3>1 DEF Take, Goes, Inv, TypeOK, Tasks
    <3> QED
      BY <2>2, <3>1, <3>2 DEF StoredKept
  <2> QED
    BY <2>2, <2>3, <2>4 DEF CoverInv
<1> QED
  BY <1>3, <1>4

(* A grant that was read and is left behind does not hold the token.       *)
LEMMA CoverCompare ==
    ASSUME Inv, CoverInv, scan # NoScan, NEW j \in Keys, j \in scan.left \cup scan.absent,
           NEW held, NEW others \in Scans, others.claim = scan.claim, Compare(j, held, others),
           held # scan.claim.token =>
               \A i \in Keys : /\ i = scan.claim.key => i \notin others.left \cup others.absent
                               /\ /\ i # scan.claim.key
                                  /\ Held(i) = scan.claim.token
                                  => i \in others.left \cup others.absent
                               /\ i \in others.absent => rec[i].token # scan.claim.token,
           UNCHANGED <<rec, kvToken>>
    PROVE  CoverInv' /\ NoneRobbed
<1> DEFINE c == scan.claim
<1>1. c \in Claims /\ c.token \in Tokens /\ registry[c.token] = Free /\ j # c.key
  BY ScanFacts DEF CoverInv, ScanKept
<1>2. CASE held = c.token
  <2> DEFINE new == [owner |-> j, used |-> FALSE]
  <2>1. registry' = [registry EXCEPT ![c.token] = new]
        /\ Answer(c, scan.heard, FALSE) /\ scan' = NoScan
    BY <1>2 DEF Compare
  <2>2. new.owner = j
    OBVIOUS
  <2> HIDE DEF new
  <2>3. registry'[c.token] = new /\ \A t \in Tokens \ {c.token} : registry'[t] = registry[t]
    BY <1>1, <2>1 DEF Inv, TypeOK
  <2>4. RegistryGrows /\ \A t \in Tokens : registry[t] # Free => registry'[t] # Free
    BY <1>1, <2>3 DEF RegistryGrows
  <2>5. NoneRobbed
    BY <1>1, <2>2, <2>3 DEF NoneRobbed
  <2> QED
    BY <2>1, <2>4, <2>5, ScanFacts, CoverAnswer
<1>3. CASE held # c.token
  <2>1. scan' = others /\ UNCHANGED <<registry, task>>
    BY <1>3 DEF Compare
  <2>2. NoneRobbed
    BY <2>1 DEF NoneRobbed
  <2>3. ASSUME NEW i \in Keys PROVE StoredKept(i)' /\ ScanKept(i)'
    BY <1>3, <2>1 DEF CoverInv, StoredKept, ScanKept, Held, Exists
  <2> QED
    BY <2>2, <2>3 DEF CoverInv
<1> QED
  BY <1>2, <1>3

LEMMA CoverReads ==
    ASSUME Inv, CoverInv, NEW j \in Keys, ReadOwner(j) \/ ReadKv(j)
    PROVE  CoverInv' /\ NoneRobbed
<1> USE OwnershipType
<1>1. scan # NoScan /\ UNCHANGED <<rec, kvToken>>
  BY DEF ReadOwner, ReadKv
<1>2. scan \in Scans /\ scan.claim.token \in Tokens /\ \A i \in Keys : ScanKept(i)
  BY <1>1, ScanFacts DEF CoverInv
<1>3. CASE ReadOwner(j)
  <2> DEFINE others == [scan EXCEPT !.left = @ \ {j},
                                    !.absent = IF Exists(j) THEN @ ELSE @ \cup {j}]
  <2>1. j \in scan.left /\ Compare(j, rec[j].token, others)
    BY <1>3 DEF ReadOwner
  <2>2. /\ others \in Scans /\ others.claim = scan.claim
        /\ others.left = scan.left \ {j}
        /\ others.absent = IF Exists(j) THEN scan.absent ELSE scan.absent \cup {j}
    BY <1>2 DEF Scans
  <2> HIDE DEF others
  <2>3. Exists(j) => Held(j) = rec[j].token
    BY DEF Held
  <2> QED
    BY <1>1, <1>2, <2>1, <2>2, <2>3, CoverCompare DEF ScanKept
<1>4. CASE ReadKv(j)
  <2> DEFINE others == [scan EXCEPT !.absent = @ \ {j}]
  <2>1. j \in scan.absent /\ Compare(j, kvToken[j], others)
    BY <1>4 DEF ReadKv
  <2>2. /\ others \in Scans /\ others.claim = scan.claim
        /\ others.left = scan.left /\ others.absent = scan.absent \ {j}
    BY <1>2 DEF Scans
  <2> HIDE DEF others
  <2>3. rec[j].token # scan.claim.token /\ Held(j) \in {rec[j].token, kvToken[j]}
    BY <1>2, <2>1 DEF ScanKept, Held
  <2> QED
    BY <1>1, <1>2, <2>1, <2>2, <2>3, CoverCompare DEF ScanKept
<1> QED
  BY <1>3, <1>4

LEMMA CoverReserve ==
    ASSUME Inv, CoverInv, Reserve
    PROVE  CoverInv' /\ NoneRobbed
<1>0. PICK c : c = scan.claim
  OBVIOUS
<1> DEFINE new == [owner |-> c.key, used |-> c.consume]
<1>1. /\ scan # NoScan /\ scan.left = {} /\ scan.absent = {}
      /\ Answer(c, scan.heard, TRUE) /\ scan' = NoScan
      /\ registry' = [registry EXCEPT ![c.token] = new] /\ UNCHANGED <<rec, kvToken>>
  BY <1>0 DEF Reserve
<1>2. /\ c \in Claims /\ scan.heard \in BOOLEAN /\ c.token \in Tokens /\ registry[c.token] = Free
      /\ scan.heard => task[c.key].at \in {"claim", "taken"} /\ task[c.key].claim = c
  BY <1>0, <1>1, ScanFacts
<1>3. new # Free
  <2>1. DOMAIN new = {"owner", "used"} /\ DOMAIN Free = {"used"}
    BY DEF Free
  <2> QED
    BY <2>1
<1> HIDE DEF new
<1>4. registry'[c.token] = new /\ \A t \in Tokens \ {c.token} : registry'[t] = registry[t]
  BY <1>1, <1>2 DEF Inv, TypeOK
<1>5. RegistryGrows /\ \A t \in Tokens : registry[t] # Free => registry'[t] # Free
  BY <1>2, <1>3, <1>4 DEF RegistryGrows
<1>6. \A j \in Keys \ {c.key} : Held(j) # c.token
  BY <1>0, <1>1 DEF CoverInv, ScanKept
<1>7. NoneRobbed
  BY <1>0, <1>4, <1>6 DEF NoneRobbed
<1> QED
  BY <1>1, <1>2, <1>3, <1>4, <1>5, <1>7, CoverAnswer

LEMMA CoverStep == Inv /\ CoverInv /\ [Next]_vars => CoverInv' /\ NoneRobbed
<1> SUFFICES ASSUME Inv, CoverInv, [Next]_vars PROVE CoverInv' /\ NoneRobbed
  OBVIOUS
<1>1. UNCHANGED registry => NoneRobbed
  BY DEF NoneRobbed
<1>2. ASSUME NEW k \in Keys, TakeClaim(k) PROVE CoverInv' /\ NoneRobbed
  <2> DEFINE c == task[k].claim
  <2>1. task[k].at = "claim" /\ Take(c, TRUE) /\ UNCHANGED <<rec, kvToken>>
    BY <1>2 DEF TakeClaim
  <2>2. c \in Claims /\ c.key = k
    BY <2>1 DEF Inv, HandlerInv, Kept, ClaimKept
  <2> HIDE DEF c
  <2>3. task[c.key].at = "claim" /\ task[c.key].claim = c
    BY <2>1, <2>2 DEF c
  <2> QED
    BY <2>1, <2>2, <2>3, CoverTake
<1>3. ASSUME NEW c \in orphans, TakeOrphan(c) PROVE CoverInv' /\ NoneRobbed
  BY <1>3, CoverTake DEF TakeOrphan, Inv, TypeOK
<1>4. CASE \E k \in Keys :
         \/ Put(k) \/ Commit(k) \/ Import(k) \/ Revoke(k) \/ WriteKv(k)
         \/ TakeClaim(k) \/ ReadOwner(k) \/ ReadKv(k) \/ Refresh(k) \/ Fence(k) \/ Exchange(k)
         \/ TransientRejection(k) \/ Settle(k) \/ Fail(k)
  BY <1>1, <1>2, <1>4, CoverTasks, CoverRecords, CoverReads
<1>5. CASE \E c \in orphans : TakeOrphan(c)
  BY <1>3, <1>5
<1>6. CASE Reserve
  BY <1>6, CoverReserve
<1>7. CASE UNCHANGED vars
  <2>1. UNCHANGED <<rec, kvToken, registry, task, scan>>
    BY <1>7 DEF vars
  <2>2. ASSUME NEW k \in Keys PROVE StoredKept(k)' /\ (scan' # NoScan => ScanKept(k)')
    BY <2>1 DEF CoverInv, StoredKept, ScanKept, Held, Exists
  <2> QED
    BY <1>1, <2>1, <2>2 DEF CoverInv
<1> QED
  BY <1>4, <1>5, <1>6, <1>7 DEF Next

(* reserveRefreshOwnership: "old digests are never transferred to a copy": *)
(* whatever is stored, imported, revoked or published while the index      *)
(* reads the grants one by one, the claimant gets a token only if no other *)
(* grant holds it.                                                         *)
THEOREM CopiesNeverRob == Spec => CopyNeverRobs
<1>1. Inv /\ CoverInv /\ [Next]_vars => CoverInv'
  BY CoverStep
<1>2. Inv /\ CoverInv /\ [Next]_vars => NoneRobbed
  BY CoverStep
<1>3. Spec => [][NoneRobbed]_vars
  BY <1>1, <1>2, CoverInit, InvAlways, PTL DEF Spec
<1>4. [][NoneRobbed]_vars => CopyNeverRobs
  BY PTL DEF NoneRobbed, CopyNeverRobs
<1> QED
  BY <1>3, <1>4

-----------------------------------------------------------------------------
(***************************************************************************)
(* Device authorization.  An exchange is running when it may still settle: *)
(* it was sent for the stored attempt and nobody stopped it.  It is then   *)
(* the one in flight, and the attempt is in the phase it was saved in or   *)
(* closed for good; every other safety property follows from that.         *)
(***************************************************************************)
ClosedPhases == {"none", "cancelled", "expired", "denied", "unknown"}
AttemptRecords == [id : DeviceAttempts, phase : DevicePhases, gen : Nat, line : Nat,
                   expired : BOOLEAN, early : BOOLEAN]
AccountRecords == [phase : {"none", "dispatch_unknown", "qualified", "unknown", "cancelled"},
                   id : DeviceAttempts, gen : Nat, bound : BOOLEAN]
OwnerRows == [gen : Nat, line : Nat, live : BOOLEAN, attempt : AttemptRecords,
              token : DeviceAttempts, account : AccountRecords]
Handlers == [pc : {"idle", "sent", "answered", "failed", "done"},
             op : {"none", "begin", "poll", "qualify"}, id : DeviceAttempts, gen : Nat,
             phase : DevicePhases, stopped : BOOLEAN,
             result : {"none", "code", "pending", "authorized", "refused", "identity"}]

DeviceTyped ==
  /\ flow \in {"minimax", "copilot"} /\ row \in OwnerRows /\ call \in [Calls -> Handlers]
  /\ flight \in Calls \cup {NoCall} /\ aflight \in Calls \cup {NoCall}
  /\ withdrawn \subseteq DeviceAttempts
  /\ sent \in [DeviceAttempts -> Nat] /\ pendings \in [DeviceAttempts -> Nat]

RowHeld ==
  /\ row.gen <= MaxGeneration /\ row.line <= row.gen /\ row.attempt.gen <= row.gen
  /\ \A id \in withdrawn : id <= row.attempt.id
  /\ row.token > 0 => row.attempt.phase = "committed" /\ row.token = row.attempt.id
  /\ row.attempt.phase \notin ClosedPhases => row.attempt.id \notin withdrawn

AccountHeld ==
  /\ row.account.phase # "none" =>
       /\ flow = "copilot" /\ row.live /\ row.attempt.phase = "committed"
       /\ row.account.id = row.attempt.id /\ row.token = row.attempt.id
       /\ row.account.gen = row.gen
  /\ row.account.bound => row.account.phase = "qualified"

CodeHeld ==
  /\ \A id \in DeviceAttempts :
       sent[id] <= pendings[id] + 1 /\ (id > row.attempt.id => sent[id] <= pendings[id])
  /\ row.attempt.phase \in {"begin_unknown", "pending"} =>
       sent[row.attempt.id] <= pendings[row.attempt.id]

Running(c) ==
  /\ Exchanging(c) /\ ~call[c].stopped
  /\ call[c].op \in {"begin", "poll"} /\ call[c].id = row.attempt.id
CallHeld(c) ==
  /\ call[c].id <= row.attempt.id
  /\ call[c].op = "begin" => call[c].phase = "begin_unknown"
  /\ call[c].op = "poll" => call[c].phase = "poll_unknown"
  /\ Running(c) => flight = c /\ row.attempt.phase \in ClosedPhases \cup {call[c].phase}

Underway == {"sent", "answered", "failed"}
FlightsHeld ==
  /\ flight # NoCall => call[flight].pc \in Underway /\ call[flight].op \in {"begin", "poll"}
  /\ aflight # NoCall => call[aflight].pc \in Underway /\ call[aflight].op = "qualify"

DeviceInv ==
  /\ DeviceTyped /\ RowHeld /\ AccountHeld /\ CodeHeld /\ FlightsHeld
  /\ \A c \in Calls : CallHeld(c)

LEMMA PhasesDiffer ==
  /\ "committed" \notin ClosedPhases /\ "pending" \notin ClosedPhases
  /\ "begin_unknown" \notin ClosedPhases /\ "poll_unknown" \notin ClosedPhases
  /\ ClosedPhases \subseteq DevicePhases
  /\ \A p \in DevicePhases :
       p \in ClosedPhases \cup {"committed", "pending", "begin_unknown", "poll_unknown"}
  BY DEF ClosedPhases, DevicePhases

LEMMA DeviceBegins == DeviceInit => DeviceInv
<1> SUFFICES ASSUME DeviceInit PROVE DeviceInv
  OBVIOUS
<1> USE DeviceType
<1>0. 0 \in DeviceAttempts
  BY DEF DeviceAttempts
<1>1. /\ row.gen = 0 /\ row.line = 0 /\ ~row.live /\ row.attempt = NoAttempt /\ row.token = 0
      /\ row.account = NoAccount /\ row \in OwnerRows
      /\ row.attempt.id = 0 /\ row.attempt.phase = "none" /\ row.attempt.gen = 0
      /\ row.account.phase = "none" /\ ~row.account.bound
  BY <1>0 DEF DeviceInit, OwnerRows, AttemptRecords, AccountRecords, NoAttempt, NoAccount, DevicePhases
<1>2. /\ call \in [Calls -> Handlers]
      /\ \A c \in Calls : call[c].pc = "idle" /\ call[c].op = "none" /\ call[c].id = 0
  BY <1>0 DEF DeviceInit, Handlers, DevicePhases
<1>3. DeviceTyped
  BY <1>1, <1>2 DEF DeviceInit, DeviceTyped, NoCall
<1>4. RowHeld /\ AccountHeld
  BY <1>1 DEF DeviceInit, RowHeld, AccountHeld, ClosedPhases
<1>5. CodeHeld
  BY <1>1 DEF DeviceInit, CodeHeld
<1>6. FlightsHeld /\ \A c \in Calls : CallHeld(c)
  BY <1>1, <1>2 DEF DeviceInit, FlightsHeld, CallHeld, Running, Exchanging
<1> QED
  BY <1>3, <1>4, <1>5, <1>6 DEF DeviceInv

(* Rows and handlers, field by field.                                      *)
LEMMA AttemptSet ==
  ASSUME row \in OwnerRows, NEW a \in AttemptRecords, row' = [row EXCEPT !.attempt = a]
  PROVE  /\ row' \in OwnerRows /\ row'.attempt = a
         /\ row'.gen = row.gen /\ row'.line = row.line /\ row'.live = row.live
         /\ row'.token = row.token /\ row'.account = row.account
  BY DEF OwnerRows

LEMMA AccountSet ==
  ASSUME row \in OwnerRows, NEW a \in AccountRecords, row' = [row EXCEPT !.account = a]
  PROVE  /\ row' \in OwnerRows /\ row'.account = a
         /\ row'.gen = row.gen /\ row'.line = row.line /\ row'.live = row.live
         /\ row'.token = row.token /\ row'.attempt = row.attempt
  BY DEF OwnerRows

LEMMA PhaseSet ==
  ASSUME NEW a \in AttemptRecords, NEW phase \in DevicePhases
  PROVE  /\ InPhase(a, phase) \in AttemptRecords /\ InPhase(a, phase).phase = phase
         /\ InPhase(a, phase).id = a.id /\ InPhase(a, phase).gen = a.gen
         /\ InPhase(a, phase).line = a.line
  BY DEF InPhase, AttemptRecords

LEMMA RowFields ==
  ASSUME row \in OwnerRows
  PROVE  /\ row.gen \in Nat /\ row.line \in Nat /\ row.live \in BOOLEAN /\ row.token \in Nat
         /\ row.token \in DeviceAttempts /\ row.attempt \in AttemptRecords
         /\ row.attempt.id \in Nat /\ row.attempt.id \in DeviceAttempts
         /\ row.attempt.phase \in DevicePhases /\ row.attempt.gen \in Nat
         /\ row.account \in AccountRecords
  BY DEF OwnerRows, AttemptRecords, DeviceAttempts

LEMMA CallSet ==
  ASSUME call \in [Calls -> Handlers], NEW c \in Calls, NEW h \in Handlers,
         call' = [call EXCEPT ![c] = h]
  PROVE  /\ call' \in [Calls -> Handlers] /\ call'[c] = h
         /\ \A d \in Calls \ {c} : call'[d] = call[d]
  OBVIOUS

(* A handler goes on: only its place changes.                              *)
LEMMA PlaceSet ==
  ASSUME call \in [Calls -> Handlers], NEW c \in Calls,
         NEW pc \in {"idle", "sent", "answered", "failed", "done"},
         call' = [call EXCEPT ![c].pc = pc]
  PROVE  /\ call' \in [Calls -> Handlers] /\ call'[c].pc = pc
         /\ call'[c].op = call[c].op /\ call'[c].id = call[c].id /\ call'[c].phase = call[c].phase
         /\ call'[c].stopped = call[c].stopped
         /\ \A d \in Calls \ {c} : call'[d] = call[d]
  BY DEF Handlers

(* Handlers only end, fail or are stopped, and the attempt keeps its id    *)
(* and either its phase or is closed, or no exchange of it is running.     *)
Follows(c) ==
  /\ call'[c].op = call[c].op /\ call'[c].id = call[c].id /\ call'[c].phase = call[c].phase
  /\ call'[c].pc \in {"sent", "answered"} /\ ~call'[c].stopped => Exchanging(c) /\ ~call[c].stopped

LEMMA CallsFollow ==
  ASSUME DeviceInv, \A c \in Calls : Follows(c),
         row'.attempt.id = row.attempt.id,
         \/ row'.attempt.phase \in ClosedPhases \cup {row.attempt.phase}
         \/ \A c \in Calls : ~Running(c)',
         flight' = flight \/ (flight' = NoCall /\ \A c \in Calls : flight = c => ~Running(c)')
  PROVE  \A c \in Calls : CallHeld(c)'
<1> SUFFICES ASSUME NEW c \in Calls PROVE CallHeld(c)'
  OBVIOUS
<1>1. CallHeld(c) /\ Follows(c)
  BY DEF DeviceInv
<1>2. Running(c)' => Running(c)
  BY <1>1 DEF Running, Follows, Exchanging
<1>3. ASSUME Running(c)'
      PROVE  flight' = c /\ row'.attempt.phase \in ClosedPhases \cup {call'[c].phase}
  <2>1. flight = c /\ row.attempt.phase \in ClosedPhases \cup {call[c].phase}
        /\ call'[c].phase = call[c].phase
    BY <1>1, <1>2, <1>3 DEF CallHeld, Follows
  <2> QED
    BY <1>3, <2>1
<1>4. /\ call'[c].id <= row'.attempt.id
      /\ call'[c].op = "begin" => call'[c].phase = "begin_unknown"
      /\ call'[c].op = "poll" => call'[c].phase = "poll_unknown"
  BY <1>1 DEF CallHeld, Follows
<1> QED
  BY <1>3, <1>4 DEF CallHeld

(* The stored attempt is closed, or stays as it is.                        *)
LEMMA AttemptCloses ==
  ASSUME DeviceInv, row' \in OwnerRows, row'.gen = row.gen, row'.line = row.line,
         row'.live = row.live, row'.token = row.token, row'.account = row.account,
         row'.attempt.id = row.attempt.id, row'.attempt.gen = row.attempt.gen,
         \/ row'.attempt.phase = row.attempt.phase /\ withdrawn' = withdrawn
         \/ /\ row.attempt.phase # "committed" /\ row'.attempt.phase \in ClosedPhases
            /\ withdrawn' \subseteq withdrawn \cup {row.attempt.id},
         UNCHANGED <<flow, sent, pendings>>
  PROVE  RowHeld' /\ AccountHeld' /\ CodeHeld'
<1> USE PhasesDiffer
<1>1. /\ row.attempt.id \in Nat /\ row.token \in Nat /\ withdrawn \subseteq DeviceAttempts
      /\ RowHeld /\ AccountHeld /\ CodeHeld
  BY RowFields DEF DeviceInv, DeviceTyped
<1>2. RowHeld'
  BY <1>1 DEF RowHeld
<1>3. AccountHeld'
  BY <1>1 DEF AccountHeld
<1>4. CodeHeld'
  BY <1>1 DEF CodeHeld
<1> QED
  BY <1>2, <1>3, <1>4

(* The exchange goes out, or the handler ends with the fence in place.     *)
LEMMA Started ==
  ASSUME DeviceInv, NEW c \in Calls, NEW op \in {"begin", "poll"}, NEW a \in AttemptRecords,
         a.phase = IF op = "begin" THEN "begin_unknown" ELSE "poll_unknown",
         call[c].pc = "idle", DeviceStart(c, op, a)
  PROVE  /\ call' \in [Calls -> Handlers] /\ \A d \in Calls \ {c} : call'[d] = call[d]
         /\ \/ /\ flight' = c /\ call'[c].pc = "sent" /\ call'[c].op = op
               /\ call'[c].id = a.id /\ call'[c].phase = a.phase
               /\ sent' = IF op = "poll" THEN [sent EXCEPT ![a.id] = @ + 1] ELSE sent
            \/ /\ flight' = flight /\ sent' = sent /\ call'[c].pc = "done"
               /\ call'[c].op = call[c].op /\ call'[c].id = call[c].id
               /\ call'[c].phase = call[c].phase
<1>1. call \in [Calls -> Handlers] /\ call[c] \in Handlers
  BY DEF DeviceInv, DeviceTyped
<1>2. CASE call' = [call EXCEPT ![c].pc = "done"] /\ UNCHANGED <<flight, sent>>
  BY <1>1, <1>2, PlaceSet
<1>3. CASE /\ flight' = c
           /\ call' = [call EXCEPT ![c] = [@ EXCEPT !.pc = "sent", !.op = op,
                         !.id = a.id, !.gen = a.gen, !.phase = a.phase]]
           /\ sent' = IF op = "poll" THEN [sent EXCEPT ![a.id] = @ + 1] ELSE sent
  <2> DEFINE h == [call[c] EXCEPT !.pc = "sent", !.op = op, !.id = a.id, !.gen = a.gen,
                                  !.phase = a.phase]
  <2>1. a.id \in DeviceAttempts /\ a.gen \in Nat /\ a.phase \in DevicePhases
    BY DEF AttemptRecords
  <2>2. h \in Handlers /\ h.pc = "sent" /\ h.op = op /\ h.id = a.id /\ h.phase = a.phase
    BY <1>1, <2>1 DEF Handlers
  <2>3. call' = [call EXCEPT ![c] = h]
    BY <1>3
  <2> HIDE DEF h
  <2> QED
    BY <1>1, <1>3, <2>2, <2>3, CallSet
<1> QED
  BY <1>2, <1>3 DEF DeviceStart

(* No handler but the starting one is in flight, so flights stay held.     *)
LEMMA StartedFlights ==
  ASSUME DeviceInv, NEW c \in Calls, call[c].pc = "idle", aflight' = aflight,
         \A d \in Calls \ {c} : call'[d] = call[d],
         \/ flight' = c /\ call'[c].pc = "sent" /\ call'[c].op \in {"begin", "poll"}
         \/ flight' = flight
  PROVE  FlightsHeld'
<1>1. flight \in Calls \cup {NoCall} /\ aflight \in Calls \cup {NoCall} /\ FlightsHeld
  BY DEF DeviceInv, DeviceTyped
<1>2. (flight # NoCall => flight # c) /\ (aflight # NoCall => aflight # c)
  BY <1>1 DEF FlightsHeld, Underway
<1> QED
  BY <1>1, <1>2 DEF FlightsHeld, Underway

LEMMA BeginStep ==
  ASSUME DeviceInv, NEW c \in Calls, DeviceBegin(c)
  PROVE  DeviceInv'
<1> USE DeviceType, PhasesDiffer
<1>1. /\ row \in OwnerRows /\ call \in [Calls -> Handlers] /\ FlightsHeld /\ CodeHeld /\ RowHeld
      /\ sent \in [DeviceAttempts -> Nat] /\ pendings \in [DeviceAttempts -> Nat]
      /\ withdrawn \subseteq DeviceAttempts /\ aflight \in Calls \cup {NoCall}
      /\ flight \in Calls \cup {NoCall} /\ flow \in {"minimax", "copilot"}
      /\ \A d \in Calls : CallHeld(d)
  BY DEF DeviceInv, DeviceTyped
<1>2. row.gen \in Nat /\ row.attempt.id \in Nat
  BY <1>1, RowFields
<1>3. row.attempt.id < MaxAttempts /\ row.gen + 1 <= MaxGeneration /\ call[c].pc = "idle"
  BY DEF DeviceBegin
<1> PICK gen \in Nat : gen = row.gen + 1
  BY <1>2
<1> PICK id \in Nat : id = row.attempt.id + 1
  BY <1>2
<1> DEFINE a == [id |-> id, phase |-> "begin_unknown", gen |-> gen, line |-> gen,
                 expired |-> FALSE, early |-> FALSE]
<1>4. /\ row' = BegunRow(gen, a) /\ DeviceStart(c, "begin", a)
      /\ UNCHANGED <<flow, aflight, crashes, withdrawn, pendings>>
  BY DEF DeviceBegin
<1>5. id \in DeviceAttempts /\ 0 \in DeviceAttempts /\ "begin_unknown" \in DevicePhases
  BY <1>2, <1>3 DEF DeviceAttempts, DevicePhases
<1>6. a \in AttemptRecords /\ a.id = id /\ a.phase = "begin_unknown" /\ a.gen = gen
  BY <1>5 DEF AttemptRecords
<1> HIDE DEF a
<1>7. /\ row' \in OwnerRows /\ row'.gen = gen /\ row'.line = gen /\ row'.token = 0
      /\ row'.attempt = a /\ row'.account = NoAccount
      /\ row'.account.phase = "none" /\ ~row'.account.bound
  BY <1>4, <1>5, <1>6 DEF BegunRow, OwnerRows, AccountRecords, NoAccount
<1>8. /\ call' \in [Calls -> Handlers] /\ \A d \in Calls \ {c} : call'[d] = call[d]
      /\ sent' = sent
      /\ \/ /\ flight' = c /\ call'[c].pc = "sent" /\ call'[c].op = "begin"
            /\ call'[c].id = id /\ call'[c].phase = "begin_unknown"
         \/ /\ flight' = flight /\ call'[c].pc = "done"
            /\ call'[c].op = call[c].op /\ call'[c].id = call[c].id
            /\ call'[c].phase = call[c].phase
  BY <1>3, <1>4, <1>6, Started
<1>9. DeviceTyped' /\ FlightsHeld'
  BY <1>1, <1>3, <1>4, <1>7, <1>8, StartedFlights DEF DeviceTyped
<1>10. RowHeld'
  <2>1. \A i \in withdrawn : i \in Nat /\ i <= row.attempt.id
    BY <1>1 DEF RowHeld, DeviceAttempts
  <2> QED
    BY <1>2, <1>3, <1>4, <1>6, <1>7, <2>1 DEF RowHeld
<1>11. AccountHeld'
  BY <1>7 DEF AccountHeld
<1>12. CodeHeld'
  <2>1. ASSUME NEW i \in DeviceAttempts
        PROVE  sent[i] <= pendings[i] + 1 /\ (i >= id => sent[i] <= pendings[i])
    <3>1. i \in Nat /\ (i >= id => i > row.attempt.id)
      BY <1>2 DEF DeviceAttempts
    <3> QED
      BY <1>1, <3>1 DEF CodeHeld
  <2>2. ASSUME NEW i \in DeviceAttempts, i > id PROVE i >= id
    BY <2>2 DEF DeviceAttempts
  <2>3. id >= id
    OBVIOUS
  <2> QED
    BY <1>4, <1>5, <1>6, <1>7, <1>8, <2>1, <2>2, <2>3 DEF CodeHeld
<1>13. ASSUME NEW d \in Calls PROVE CallHeld(d)'
  <2>1. CallHeld(d) /\ call[d].id \in Nat
    BY <1>1 DEF Handlers, DeviceAttempts
  <2>2. call[d].id < id
    BY <1>2, <2>1 DEF CallHeld
  <2>3. CASE d # c \/ call'[c].pc = "done"
    <3>1. /\ call'[d].id = call[d].id /\ call'[d].op = call[d].op
          /\ call'[d].phase = call[d].phase
      BY <1>8, <2>3
    <3>2. ~Running(d)'
      BY <1>6, <1>7, <2>2, <3>1, <2>1 DEF Running
    <3> QED
      BY <1>6, <1>7, <2>1, <2>2, <3>1, <3>2 DEF CallHeld
  <2>4. CASE d = c /\ call'[c].pc # "done"
    BY <1>6, <1>7, <1>8, <2>4 DEF CallHeld
  <2> QED
    BY <2>3, <2>4
<1> QED
  BY <1>9, <1>10, <1>11, <1>12, <1>13 DEF DeviceInv

LEMMA PollStep ==
  ASSUME DeviceInv, NEW c \in Calls, DevicePoll(c)
  PROVE  DeviceInv'
<1> USE DeviceType, PhasesDiffer
<1>1. /\ row \in OwnerRows /\ call \in [Calls -> Handlers] /\ FlightsHeld /\ CodeHeld /\ RowHeld
      /\ sent \in [DeviceAttempts -> Nat] /\ pendings \in [DeviceAttempts -> Nat]
      /\ AccountHeld /\ aflight \in Calls \cup {NoCall}
      /\ flight \in Calls \cup {NoCall}
      /\ \A d \in Calls : CallHeld(d)
  BY DEF DeviceInv, DeviceTyped
<1>2. /\ row.attempt.phase = "pending" /\ call[c].pc = "idle"
      /\ UNCHANGED <<flow, aflight, crashes, withdrawn, pendings>>
  BY DEF DevicePoll, Pollable
<1> DEFINE a == InPhase(row.attempt, "poll_unknown")
<1>3. /\ a \in AttemptRecords /\ a.phase = "poll_unknown" /\ a.id = row.attempt.id
      /\ a.gen = row.attempt.gen /\ a.id \in DeviceAttempts /\ row.attempt.id \in Nat
  BY <1>1, RowFields, PhaseSet DEF DevicePhases
<1>4. row' = [row EXCEPT !.attempt = a] /\ DeviceStart(c, "poll", a)
  BY DEF DevicePoll
<1> HIDE DEF a
<1>5. /\ row' \in OwnerRows /\ row'.attempt = a
      /\ row'.gen = row.gen /\ row'.line = row.line /\ row'.live = row.live
      /\ row'.token = row.token /\ row'.account = row.account
  BY <1>1, <1>3, <1>4, AttemptSet
<1>6. /\ call' \in [Calls -> Handlers] /\ \A d \in Calls \ {c} : call'[d] = call[d]
      /\ \/ /\ flight' = c /\ call'[c].pc = "sent" /\ call'[c].op = "poll"
            /\ call'[c].id = a.id /\ call'[c].phase = "poll_unknown"
            /\ sent' = [sent EXCEPT ![a.id] = @ + 1]
         \/ /\ flight' = flight /\ sent' = sent /\ call'[c].pc = "done"
            /\ call'[c].op = call[c].op /\ call'[c].id = call[c].id
            /\ call'[c].phase = call[c].phase
  BY <1>2, <1>3, <1>4, Started
<1>7. /\ sent' \in [DeviceAttempts -> Nat] /\ sent'[a.id] <= sent[a.id] + 1
      /\ \A i \in DeviceAttempts \ {a.id} : sent'[i] = sent[i]
  <2>1. CASE sent' = sent
    BY <1>1, <1>3, <2>1
  <2>2. CASE sent' = [sent EXCEPT ![a.id] = @ + 1]
    BY <1>1, <1>3, <2>2
  <2> QED
    BY <1>6, <2>1, <2>2
<1>8. DeviceTyped' /\ FlightsHeld'
  <2>1. FlightsHeld'
    BY <1>2, <1>6, StartedFlights
  <2>2. flight' \in Calls \cup {NoCall}
    BY <1>1, <1>6
  <2> QED
    BY <1>2, <1>5, <1>6, <1>7, <2>1, <2>2 DEF DeviceInv, DeviceTyped
<1>9. RowHeld' /\ AccountHeld'
  BY <1>1, <1>2, <1>3, <1>5 DEF RowHeld, AccountHeld
<1>10. CodeHeld'
  <2>1. ASSUME NEW i \in DeviceAttempts
        PROVE  sent'[i] <= pendings[i] + 1 /\ (i > row.attempt.id => sent'[i] <= pendings[i])
    <3>1. CASE i = a.id
      <4>1. sent[i] <= pendings[i] /\ sent[i] \in Nat /\ pendings[i] \in Nat /\ sent'[i] \in Nat
        BY <1>1, <1>2, <1>3, <1>7, <3>1 DEF CodeHeld
      <4>2. sent'[i] <= sent[i] + 1
        BY <1>7, <3>1
      <4>3. sent'[i] <= pendings[i] + 1
        BY <4>1, <4>2
      <4> QED
        BY <1>3, <3>1, <4>3
    <3>2. CASE i # a.id
      BY <1>1, <1>7, <3>2 DEF CodeHeld
    <3> QED
      BY <3>1, <3>2
  <2> QED
    BY <1>2, <1>3, <1>5, <2>1 DEF CodeHeld
<1>11. ASSUME NEW d \in Calls PROVE CallHeld(d)'
  <2>1. CallHeld(d) /\ ~Running(d)
    BY <1>1, <1>2, <1>3 DEF CallHeld, Running
  <2>2. CASE d # c \/ call'[c].pc = "done"
    <3>1. /\ call'[d].id = call[d].id /\ call'[d].op = call[d].op
          /\ call'[d].phase = call[d].phase /\ (call'[d].pc = "done" \/ call'[d] = call[d])
      BY <1>6, <2>2
    <3>2. ~Running(d)'
      BY <1>3, <1>5, <2>1, <3>1 DEF Running, Exchanging
    <3> QED
      BY <1>3, <1>5, <2>1, <3>1, <3>2 DEF CallHeld
  <2>3. CASE d = c /\ call'[c].pc # "done"
    BY <1>3, <1>5, <1>6, <2>3 DEF CallHeld
  <2> QED
    BY <2>2, <2>3
<1> QED
  BY <1>8, <1>9, <1>10, <1>11 DEF DeviceInv

(* Steps of the handlers that leave the row alone: answers, deadlines,     *)
(* stopped waits and settlements that throw.                               *)
LEMMA HandlerMoves ==
  ASSUME DeviceInv, NEW c \in Calls, NEW h \in Handlers, call' = [call EXCEPT ![c] = h],
         UNCHANGED <<flow, row, flight, aflight, deviceHistory>>,
         h.op = call[c].op, h.id = call[c].id, h.phase = call[c].phase,
         h.pc \in {"sent", "answered"} /\ ~h.stopped => Exchanging(c) /\ ~call[c].stopped,
         h.pc \in Underway
  PROVE  DeviceInv'
<1>1. /\ call' \in [Calls -> Handlers] /\ call'[c] = h
      /\ \A d \in Calls \ {c} : call'[d] = call[d]
  BY CallSet DEF DeviceInv, DeviceTyped
<1>2. \A d \in Calls : Follows(d)
  BY <1>1 DEF Follows, Exchanging
<1>3. \A d \in Calls : CallHeld(d)'
  BY <1>2, CallsFollow
<1>4. DeviceTyped' /\ RowHeld' /\ AccountHeld' /\ CodeHeld'
  BY <1>1 DEF DeviceInv, DeviceTyped, RowHeld, AccountHeld, CodeHeld, deviceHistory
<1>5. FlightsHeld'
  BY <1>1 DEF DeviceInv, DeviceTyped, FlightsHeld
<1> QED
  BY <1>3, <1>4, <1>5 DEF DeviceInv

LEMMA HandlerStep ==
  ASSUME DeviceInv, NEW c \in Calls,
         DeviceRespond(c) \/ DeviceDeadline(c) \/ DeviceRejected(c) \/ SettleFails(c)
  PROVE  DeviceInv'
<1>1. /\ UNCHANGED <<flow, row, flight, aflight, deviceHistory>> /\ Exchanging(c)
      /\ call \in [Calls -> Handlers] /\ call[c] \in Handlers
  BY ZenonT(60)
    DEF DeviceRespond, DeviceDeadline, DeviceRejected, SettleFails, Exchanging, DeviceInv, DeviceTyped
<1>2. CASE call' = [call EXCEPT ![c].pc = "failed"]
  <2> DEFINE h == [call[c] EXCEPT !.pc = "failed"]
  <2>1. h \in Handlers /\ h.pc = "failed" /\ h.op = call[c].op /\ h.id = call[c].id
        /\ h.phase = call[c].phase
    BY <1>1 DEF Handlers
  <2>2. call' = [call EXCEPT ![c] = h]
    BY <1>2
  <2> HIDE DEF h
  <2> QED
    BY <1>1, <2>1, <2>2, HandlerMoves DEF Underway
<1>3. CASE call' = [call EXCEPT ![c].stopped = TRUE]
  <2> DEFINE h == [call[c] EXCEPT !.stopped = TRUE]
  <2>1. h \in Handlers /\ h.pc = call[c].pc /\ h.op = call[c].op /\ h.id = call[c].id
        /\ h.phase = call[c].phase /\ h.stopped
    BY <1>1 DEF Handlers
  <2>2. call' = [call EXCEPT ![c] = h]
    BY <1>3
  <2> HIDE DEF h
  <2> QED
    BY <1>1, <2>1, <2>2, HandlerMoves DEF Underway, Exchanging
<1>4. ASSUME NEW r \in DeviceResults(call[c].op),
             call' = [call EXCEPT ![c] = [@ EXCEPT !.pc = "answered", !.result = r]]
      PROVE  DeviceInv'
  <2> DEFINE h == [call[c] EXCEPT !.pc = "answered", !.result = r]
  <2>1. r \in {"code", "pending", "authorized", "refused", "identity"}
    BY <1>4 DEF DeviceResults
  <2>2. h \in Handlers /\ h.pc = "answered" /\ h.op = call[c].op /\ h.id = call[c].id
        /\ h.phase = call[c].phase /\ h.stopped = call[c].stopped
    BY <1>1, <2>1 DEF Handlers
  <2>3. call' = [call EXCEPT ![c] = h]
    BY <1>4
  <2> HIDE DEF h
  <2> QED
    BY <1>1, <2>2, <2>3, HandlerMoves DEF Underway, Exchanging
<1> QED
  BY <1>2, <1>3, <1>4, ZenonT(60) DEF DeviceRespond, DeviceDeadline, DeviceRejected, SettleFails

(* The handler c of a device exchange ends, or fails after its write.      *)
LEMMA DeviceEnds ==
  ASSUME DeviceInv, NEW c \in Calls, call[c].op \in {"begin", "poll"}, aflight' = aflight,
         DeviceOver(c, flight) \/ (call' = [call EXCEPT ![c].pc = "failed"] /\ UNCHANGED flight)
  PROVE  /\ call' \in [Calls -> Handlers] /\ flight' \in Calls \cup {NoCall}
         /\ aflight' \in Calls \cup {NoCall}
         /\ \A d \in Calls : Follows(d) /\ FlightsHeld'
         /\ flight' = flight \/ (flight' = NoCall /\ \A d \in Calls : flight = d => ~Running(d)')
         /\ ~Running(c)'
<1>1. /\ call \in [Calls -> Handlers] /\ flight \in Calls \cup {NoCall} /\ FlightsHeld
      /\ aflight \in Calls \cup {NoCall}
  BY DEF DeviceInv, DeviceTyped
<1>2. PICK pc \in {"done", "failed"} :
        /\ call' = [call EXCEPT ![c].pc = pc]
        /\ flight' = flight \/ (flight' = NoCall /\ flight = c)
        /\ pc = "done" => flight' # c \/ c = NoCall
  BY DEF DeviceOver
<1>3. /\ call' \in [Calls -> Handlers] /\ call'[c].pc = pc
      /\ call'[c].op = call[c].op /\ call'[c].id = call[c].id /\ call'[c].phase = call[c].phase
      /\ call'[c].stopped = call[c].stopped
      /\ \A d \in Calls \ {c} : call'[d] = call[d]
  BY <1>1, <1>2, PlaceSet
<1>4. ~Running(c)'
  BY <1>3 DEF Running, Exchanging
<1>5. \A d \in Calls : Follows(d)
  BY <1>3 DEF Follows, Exchanging
<1>6. FlightsHeld'
  BY <1>1, <1>2, <1>3, DeviceType DEF FlightsHeld, Underway, NoCall
<1> QED
  BY <1>1, <1>2, <1>3, <1>4, <1>5, <1>6

LEMMA SettleStep ==
  ASSUME DeviceInv, NEW c \in Calls, DeviceSettle(c)
  PROVE  DeviceInv'
<1> USE DeviceType, PhasesDiffer
<1>1. /\ row \in OwnerRows /\ call \in [Calls -> Handlers] /\ CodeHeld /\ RowHeld /\ AccountHeld
      /\ sent \in [DeviceAttempts -> Nat] /\ pendings \in [DeviceAttempts -> Nat]
      /\ withdrawn \subseteq DeviceAttempts /\ flow \in {"minimax", "copilot"}
      /\ \A d \in Calls : CallHeld(d)
  BY DEF DeviceInv, DeviceTyped
<1>2. /\ call[c].pc = "answered" /\ call[c].op \in {"begin", "poll"} /\ ~call[c].stopped
      /\ Settleable(c) /\ UNCHANGED <<flow, aflight, crashes, withdrawn, sent>>
      /\ DeviceOver(c, flight) \/ (call' = [call EXCEPT ![c].pc = "failed"] /\ UNCHANGED flight)
  BY DEF DeviceSettle
<1>3. /\ call' \in [Calls -> Handlers] /\ flight' \in Calls \cup {NoCall}
      /\ aflight' \in Calls \cup {NoCall} /\ FlightsHeld' /\ \A d \in Calls : Follows(d)
      /\ flight' = flight \/ (flight' = NoCall /\ \A d \in Calls : flight = d => ~Running(d)')
      /\ ~Running(c)'
  BY <1>2, DeviceEnds
<1>4. /\ Running(c) /\ row.attempt.id = call[c].id /\ row.attempt.phase = call[c].phase
      /\ row.attempt.phase \in {"begin_unknown", "poll_unknown"}
      /\ call[c].op = "begin" => row.attempt.phase = "begin_unknown"
  BY <1>1, <1>2 DEF Running, Settleable, Exchanging, CallHeld
<1>5. ASSUME row'.attempt.id = row.attempt.id PROVE \A d \in Calls : ~Running(d)'
  <2>1. ASSUME NEW d \in Calls, Running(d)' PROVE FALSE
    <3>1. Running(d)
      BY <1>3, <1>5, <2>1 DEF Running, Follows, Exchanging
    <3>2. d = flight /\ c = flight
      BY <1>1, <1>4, <3>1 DEF CallHeld
    <3> QED
      BY <1>3, <2>1, <3>2
  <2> QED
    BY <2>1
<1>6. ASSUME row'.attempt.id = row.attempt.id PROVE \A d \in Calls : CallHeld(d)'
  BY <1>3, <1>5, <1>6, CallsFollow
<1>7. /\ row.gen \in Nat /\ row.line \in Nat /\ row.token \in Nat /\ row.attempt \in AttemptRecords
      /\ row.attempt.id \in Nat /\ row.attempt.id \in DeviceAttempts /\ row.attempt.gen \in Nat
  BY <1>1, RowFields
<1>8. ASSUME NEW phase \in ClosedPhases, row' = [row EXCEPT !.attempt = InPhase(@, phase)],
             pendings' = pendings
      PROVE  DeviceInv'
  <2>1. /\ InPhase(row.attempt, phase) \in AttemptRecords
        /\ InPhase(row.attempt, phase).phase = phase
        /\ InPhase(row.attempt, phase).id = row.attempt.id
        /\ InPhase(row.attempt, phase).gen = row.attempt.gen
    BY <1>7, PhaseSet
  <2>2. /\ row' \in OwnerRows /\ row'.attempt = InPhase(row.attempt, phase)
        /\ row'.gen = row.gen /\ row'.line = row.line /\ row'.live = row.live
        /\ row'.token = row.token /\ row'.account = row.account
    BY <1>1, <1>8, <2>1, AttemptSet
  <2>3. RowHeld' /\ AccountHeld' /\ CodeHeld'
    BY <1>2, <1>4, <1>8, <2>1, <2>2, AttemptCloses
  <2> QED
    BY <1>1, <1>2, <1>3, <1>6, <1>8, <2>1, <2>2, <2>3 DEF DeviceInv, DeviceTyped
<1>9. ASSUME row' = [row EXCEPT !.attempt = [@ EXCEPT !.phase = "pending", !.early = TRUE]],
             pendings' = IF call[c].op = "poll" THEN [pendings EXCEPT ![call[c].id] = @ + 1]
                         ELSE pendings
      PROVE  DeviceInv'
  <2> DEFINE a == [row.attempt EXCEPT !.phase = "pending", !.early = TRUE]
  <2>1. a \in AttemptRecords /\ a.phase = "pending" /\ a.id = row.attempt.id
        /\ a.gen = row.attempt.gen
    BY <1>7 DEF AttemptRecords, DevicePhases
  <2>2. row' = [row EXCEPT !.attempt = a]
    BY <1>9
  <2> HIDE DEF a
  <2>3. /\ row' \in OwnerRows /\ row'.attempt = a
        /\ row'.gen = row.gen /\ row'.line = row.line /\ row'.live = row.live
        /\ row'.token = row.token /\ row'.account = row.account
    BY <1>1, <2>1, <2>2, AttemptSet
  <2>4. RowHeld' /\ AccountHeld'
    BY <1>1, <1>2, <1>4, <2>1, <2>3 DEF RowHeld, AccountHeld
  <2>5. /\ pendings' \in [DeviceAttempts -> Nat] /\ sent[row.attempt.id] <= pendings'[row.attempt.id]
        /\ \A i \in DeviceAttempts : pendings[i] <= pendings'[i]
    <3>1. CASE call[c].op = "poll"
      <4>1. pendings' = [pendings EXCEPT ![row.attempt.id] = pendings[row.attempt.id] + 1]
        BY <1>4, <1>9, <3>1
      <4>2. pendings'[row.attempt.id] = pendings[row.attempt.id] + 1
            /\ pendings' \in [DeviceAttempts -> Nat]
            /\ \A i \in DeviceAttempts \ {row.attempt.id} : pendings'[i] = pendings[i]
        BY <1>1, <1>7, <4>1
      <4>3. sent[row.attempt.id] <= pendings[row.attempt.id] + 1
        BY <1>1, <1>7 DEF CodeHeld
      <4>4. \A i \in DeviceAttempts : pendings[i] \in Nat
        BY <1>1
      <4> QED
        BY <1>7, <4>2, <4>3, <4>4
    <3>2. CASE call[c].op = "begin"
      BY <1>1, <1>4, <1>7, <1>9, <3>2 DEF CodeHeld
    <3> QED
      BY <1>2, <3>1, <3>2
  <2>6. CodeHeld'
    <3>1. ASSUME NEW i \in DeviceAttempts
          PROVE  sent[i] <= pendings'[i] + 1 /\ (i > row.attempt.id => sent[i] <= pendings'[i])
      <4>1. sent[i] \in Nat /\ pendings[i] \in Nat /\ pendings'[i] \in Nat
            /\ pendings[i] <= pendings'[i]
        BY <1>1, <2>5
      <4> QED
        BY <1>1, <4>1 DEF CodeHeld
    <3> QED
      BY <1>2, <2>1, <2>3, <2>5, <3>1 DEF CodeHeld
  <2> QED
    BY <1>1, <1>2, <1>3, <1>6, <2>1, <2>3, <2>4, <2>5, <2>6 DEF DeviceInv, DeviceTyped
<1>10. ASSUME row.gen < MaxGeneration, row' = DeviceInstalled, pendings' = pendings
       PROVE  DeviceInv'
  <2> PICK gen \in Nat : gen = row.gen + 1
    BY <1>7
  <2> PICK line \in Nat : line = IF flow = "minimax" THEN gen ELSE row.line
    BY <1>7
  <2> DEFINE a == [row.attempt EXCEPT !.phase = "committed", !.gen = gen, !.line = line]
  <2>1. a \in AttemptRecords /\ a.phase = "committed" /\ a.id = row.attempt.id /\ a.gen = gen
    BY <1>7 DEF AttemptRecords, DevicePhases
  <2>2. row' = [row EXCEPT !.gen = gen, !.line = line, !.token = row.attempt.id, !.attempt = a]
    BY <1>10 DEF DeviceInstalled
  <2> HIDE DEF a
  <2>3. /\ row' \in OwnerRows /\ row'.attempt = a /\ row'.gen = gen /\ row'.line = line
        /\ row'.live = row.live /\ row'.token = row.attempt.id /\ row'.account = row.account
    BY <1>1, <1>7, <2>1, <2>2 DEF OwnerRows
  <2>4. line <= gen /\ gen <= MaxGeneration
    BY <1>1, <1>7, <1>10 DEF RowHeld
  <2>5. RowHeld'
    BY <1>1, <1>2, <1>4, <1>7, <2>1, <2>3, <2>4 DEF RowHeld
  <2>6. row.account.phase = "none"
    BY <1>1, <1>4 DEF AccountHeld
  <2>7. AccountHeld'
    BY <1>1, <2>3, <2>6 DEF AccountHeld
  <2>8. CodeHeld'
    BY <1>1, <1>2, <1>10, <2>1, <2>3 DEF CodeHeld
  <2> QED
    BY <1>1, <1>2, <1>3, <1>6, <1>10, <2>1, <2>3, <2>5, <2>7, <2>8 DEF DeviceInv, DeviceTyped
<1>11. {"expired", "unknown", "denied"} \subseteq ClosedPhases
  BY DEF ClosedPhases
<1> QED
  BY <1>8, <1>9, <1>10, <1>11 DEF DeviceSettle

LEMMA FailStep ==
  ASSUME DeviceInv, NEW c \in Calls, DeviceFails(c)
  PROVE  DeviceInv'
<1> USE PhasesDiffer
<1>1. /\ row \in OwnerRows /\ call[c].op \in {"begin", "poll"} /\ DeviceOver(c, flight)
      /\ UNCHANGED <<flow, aflight, crashes, withdrawn, sent, pendings>>
      /\ \A d \in Calls : CallHeld(d)
  BY DEF DeviceInv, DeviceTyped, DeviceFails, deviceHistory
<1>2. /\ call' \in [Calls -> Handlers] /\ flight' \in Calls \cup {NoCall}
      /\ aflight' \in Calls \cup {NoCall} /\ FlightsHeld' /\ \A d \in Calls : Follows(d)
      /\ flight' = flight \/ (flight' = NoCall /\ \A d \in Calls : flight = d => ~Running(d)')
  BY <1>1, DeviceEnds
<1>3. row.attempt \in AttemptRecords /\ row.attempt.phase \in DevicePhases
  BY <1>1, RowFields
<1> DEFINE phase == Uncertain(row.attempt)
<1>4. phase \in DevicePhases /\ (phase = row.attempt.phase \/
         (phase \in ClosedPhases /\ row.attempt.phase # "committed"))
  BY <1>3 DEF Uncertain, Unsettled, ClosedPhases, DevicePhases
<1>5. /\ row' \in OwnerRows /\ row'.gen = row.gen /\ row'.line = row.line /\ row'.live = row.live
      /\ row'.token = row.token /\ row'.account = row.account
      /\ row'.attempt.id = row.attempt.id /\ row'.attempt.gen = row.attempt.gen
      /\ row'.attempt.phase \in {row.attempt.phase, phase}
  <2>1. CASE row' = row
    BY <1>1, <2>1
  <2>2. CASE row' = [row EXCEPT !.attempt = InPhase(@, Uncertain(@))]
    <3>1. /\ InPhase(row.attempt, phase) \in AttemptRecords
          /\ InPhase(row.attempt, phase).phase = phase
          /\ InPhase(row.attempt, phase).id = row.attempt.id
          /\ InPhase(row.attempt, phase).gen = row.attempt.gen
      BY <1>3, <1>4, PhaseSet
    <3>2. row' = [row EXCEPT !.attempt = InPhase(row.attempt, phase)]
      BY <2>2
    <3> HIDE DEF phase
    <3> QED
      BY <1>1, <3>1, <3>2, AttemptSet
  <2> QED
    BY <2>1, <2>2 DEF DeviceFails
<1> HIDE DEF phase
<1>6. RowHeld' /\ AccountHeld' /\ CodeHeld'
  BY <1>1, <1>4, <1>5, AttemptCloses
<1>7. \A d \in Calls : CallHeld(d)'
  BY <1>2, <1>4, <1>5, CallsFollow
<1> QED
  BY <1>1, <1>2, <1>5, <1>6, <1>7 DEF DeviceInv, DeviceTyped

(* Whatever is in flight is stopped and the handlers go on.                *)
LEMMA FlightsStopped ==
  ASSUME DeviceInv, NEW fs, call' = StopFlights(fs), UNCHANGED <<flight, aflight>>
  PROVE  call' \in [Calls -> Handlers] /\ FlightsHeld' /\ \A d \in Calls : Follows(d)
<1>1. /\ call \in [Calls -> Handlers] /\ flight \in Calls \cup {NoCall} /\ FlightsHeld
      /\ aflight \in Calls \cup {NoCall}
  BY DEF DeviceInv, DeviceTyped
<1>2. ASSUME NEW d \in Calls
      PROVE  /\ call'[d] \in Handlers /\ call'[d].pc = call[d].pc /\ call'[d].op = call[d].op
             /\ call'[d].id = call[d].id /\ call'[d].phase = call[d].phase
             /\ call[d].stopped => call'[d].stopped
  <2>1. call[d] \in Handlers /\ call'[d] \in {call[d], [call[d] EXCEPT !.stopped = TRUE]}
    BY <1>1 DEF StopFlights
  <2>2. CASE call'[d] = call[d]
    BY <2>1, <2>2
  <2>3. CASE call'[d] = [call[d] EXCEPT !.stopped = TRUE]
    BY <2>1, <2>3 DEF Handlers
  <2> QED
    BY <2>1, <2>2, <2>3
<1>3. call' \in [Calls -> Handlers]
  BY <1>2 DEF StopFlights
<1>4. \A d \in Calls : Follows(d)
  BY <1>2 DEF Follows, Exchanging
<1>5. FlightsHeld'
  BY <1>1, <1>2 DEF FlightsHeld
<1> QED
  BY <1>3, <1>4, <1>5

LEMMA CallsUnchanged ==
  ASSUME DeviceInv, UNCHANGED <<call, flight, aflight>>
  PROVE  call' \in [Calls -> Handlers] /\ FlightsHeld' /\ \A d \in Calls : Follows(d)
  BY DEF DeviceInv, DeviceTyped, FlightsHeld, Follows, Exchanging

LEMMA CancelStep ==
  ASSUME DeviceInv, DeviceCancel \/ DeviceStatus
  PROVE  DeviceInv'
<1> USE PhasesDiffer
<1>1. /\ row \in OwnerRows /\ UNCHANGED <<flow, flight, aflight, crashes, sent, pendings>>
      /\ flight \in Calls \cup {NoCall} /\ aflight \in Calls \cup {NoCall}
      /\ withdrawn \subseteq DeviceAttempts
      /\ row.attempt \in AttemptRecords /\ row.attempt.id \in DeviceAttempts
  BY RowFields DEF DeviceInv, DeviceTyped, DeviceCancel, DeviceStatus, deviceHistory
<1>2. call' \in [Calls -> Handlers] /\ FlightsHeld' /\ \A d \in Calls : Follows(d)
  BY <1>1, FlightsStopped, CallsUnchanged DEF DeviceCancel, DeviceStatus
<1>3. PICK phase \in ClosedPhases :
        /\ row' = [row EXCEPT !.attempt = InPhase(@, phase)]
        /\ row.attempt.phase # "committed"
        /\ withdrawn' \subseteq withdrawn \cup {row.attempt.id}
  BY DEF DeviceCancel, DeviceStatus, Cancellable, Abandoned, Unsettled, ClosedPhases, deviceHistory
<1>4. /\ InPhase(row.attempt, phase) \in AttemptRecords
      /\ InPhase(row.attempt, phase).phase = phase
      /\ InPhase(row.attempt, phase).id = row.attempt.id
      /\ InPhase(row.attempt, phase).gen = row.attempt.gen
  BY <1>1, PhaseSet
<1>5. /\ row' \in OwnerRows /\ row'.attempt = InPhase(row.attempt, phase)
      /\ row'.gen = row.gen /\ row'.line = row.line /\ row'.live = row.live
      /\ row'.token = row.token /\ row'.account = row.account
  BY <1>1, <1>3, <1>4, AttemptSet
<1>6. RowHeld' /\ AccountHeld' /\ CodeHeld'
  BY <1>1, <1>3, <1>4, <1>5, AttemptCloses
<1>7. \A d \in Calls : CallHeld(d)'
  BY <1>1, <1>2, <1>4, <1>5, CallsFollow
<1>8. withdrawn' \subseteq DeviceAttempts
  BY <1>1, <1>3
<1> QED
  BY <1>1, <1>2, <1>5, <1>6, <1>7, <1>8 DEF DeviceInv, DeviceTyped

-----------------------------------------------------------------------------
(* A step of the account flow: the row keeps all but its account.          *)
LEMMA AccountMoves ==
  ASSUME DeviceInv, NEW a \in AccountRecords, row' = [row EXCEPT !.account = a],
         a.phase # "none" =>
            /\ flow = "copilot" /\ row.live /\ row.attempt.phase = "committed"
            /\ a.id = row.attempt.id /\ row.token = row.attempt.id /\ a.gen = row.gen,
         a.bound => a.phase = "qualified",
         UNCHANGED <<flow, deviceHistory>>
  PROVE  /\ row' \in OwnerRows /\ row'.attempt = row.attempt
         /\ RowHeld' /\ AccountHeld' /\ CodeHeld'
<1>1. /\ row' \in OwnerRows /\ row'.account = a
      /\ row'.gen = row.gen /\ row'.line = row.line /\ row'.live = row.live
      /\ row'.token = row.token /\ row'.attempt = row.attempt
  BY AccountSet DEF DeviceInv, DeviceTyped
<1>2. RowHeld' /\ CodeHeld'
  BY <1>1 DEF DeviceInv, RowHeld, CodeHeld, deviceHistory
<1>3. AccountHeld'
  BY <1>1 DEF AccountHeld
<1> QED
  BY <1>1, <1>2, <1>3

(* The handler c of a qualification ends, or fails after its write.        *)
LEMMA AccountEnds ==
  ASSUME DeviceInv, NEW c \in Calls, call[c].op = "qualify", flight' = flight,
         AccountOver(c) \/ (call' = [call EXCEPT ![c].pc = "failed"] /\ UNCHANGED aflight)
  PROVE  /\ call' \in [Calls -> Handlers] /\ aflight' \in Calls \cup {NoCall}
         /\ FlightsHeld' /\ \A d \in Calls : Follows(d)
<1>1. /\ call \in [Calls -> Handlers] /\ flight \in Calls \cup {NoCall} /\ FlightsHeld
      /\ aflight \in Calls \cup {NoCall}
  BY DEF DeviceInv, DeviceTyped
<1>2. PICK pc \in {"done", "failed"} :
        /\ call' = [call EXCEPT ![c].pc = pc]
        /\ aflight' = aflight \/ (aflight' = NoCall /\ aflight = c)
        /\ pc = "done" => aflight' # c \/ c = NoCall
  BY DEF AccountOver
<1>3. /\ call' \in [Calls -> Handlers] /\ call'[c].pc = pc
      /\ call'[c].op = call[c].op /\ call'[c].id = call[c].id /\ call'[c].phase = call[c].phase
      /\ call'[c].stopped = call[c].stopped
      /\ \A d \in Calls \ {c} : call'[d] = call[d]
  BY <1>1, <1>2, PlaceSet
<1>4. \A d \in Calls : Follows(d)
  BY <1>3 DEF Follows, Exchanging
<1>5. FlightsHeld'
  BY <1>1, <1>2, <1>3, DeviceType DEF FlightsHeld, Underway, NoCall
<1> QED
  BY <1>1, <1>2, <1>3, <1>4, <1>5

LEMMA QualifyStep ==
  ASSUME DeviceInv, NEW c \in Calls, AccountQualify(c)
  PROVE  DeviceInv'
<1> USE PhasesDiffer
<1>1. /\ row \in OwnerRows /\ call \in [Calls -> Handlers] /\ call[c] \in Handlers
      /\ flight \in Calls \cup {NoCall} /\ aflight \in Calls \cup {NoCall} /\ FlightsHeld
      /\ row.attempt.id \in DeviceAttempts /\ row.attempt.id \in Nat /\ row.gen \in Nat
      /\ UNCHANGED <<flow, flight, crashes, withdrawn, sent, pendings>>
      /\ \A d \in Calls : CallHeld(d)
  BY RowFields DEF DeviceInv, DeviceTyped, AccountQualify, deviceHistory
<1> DEFINE a == [phase |-> "dispatch_unknown", id |-> row.attempt.id, gen |-> row.gen,
                 bound |-> FALSE]
<1>2. a \in AccountRecords /\ a.phase = "dispatch_unknown" /\ a.id = row.attempt.id
      /\ a.gen = row.gen /\ ~a.bound /\ row' = [row EXCEPT !.account = a]
  BY <1>1 DEF AccountRecords, AccountQualify
<1> HIDE DEF a
<1>3. /\ row' \in OwnerRows /\ row'.attempt = row.attempt
      /\ RowHeld' /\ AccountHeld' /\ CodeHeld'
  <2>1. /\ flow = "copilot" /\ row.live /\ row.attempt.phase = "committed"
        /\ row.token = row.attempt.id
    BY DEF AccountQualify, AccountScope, OwnedAttempt
  <2> QED
    BY <1>1, <1>2, <2>1, AccountMoves DEF deviceHistory
<1>4. call[c].pc = "idle" /\ (flight # NoCall => flight # c) /\ (aflight # NoCall => aflight # c)
  BY <1>1 DEF AccountQualify, FlightsHeld, Underway
<1>5. /\ call' \in [Calls -> Handlers] /\ \A d \in Calls \ {c} : call'[d] = call[d]
      /\ \/ /\ aflight' = c /\ call'[c].pc = "sent" /\ call'[c].op = "qualify"
            /\ call'[c].id = row.attempt.id
         \/ /\ aflight' = aflight /\ call'[c].pc = "done" /\ call'[c].op = call[c].op
            /\ call'[c].id = call[c].id /\ call'[c].phase = call[c].phase
  <2>1. CASE call' = [call EXCEPT ![c].pc = "done"] /\ UNCHANGED aflight
    BY <1>1, <2>1, PlaceSet
  <2>2. CASE /\ aflight' = c
             /\ call' = [call EXCEPT ![c] = [@ EXCEPT !.pc = "sent", !.op = "qualify",
                           !.id = row.attempt.id, !.gen = row.gen]]
    <3> DEFINE h == [call[c] EXCEPT !.pc = "sent", !.op = "qualify", !.id = row.attempt.id,
                                    !.gen = row.gen]
    <3>1. h \in Handlers /\ h.pc = "sent" /\ h.op = "qualify" /\ h.id = row.attempt.id
      BY <1>1 DEF Handlers
    <3>2. call' = [call EXCEPT ![c] = h]
      BY <2>2
    <3> HIDE DEF h
    <3> QED
      BY <1>1, <2>2, <3>1, <3>2, CallSet
  <2> QED
    BY <2>1, <2>2 DEF AccountQualify
<1>6. FlightsHeld'
  BY <1>1, <1>4, <1>5 DEF FlightsHeld, Underway
<1>7. ASSUME NEW d \in Calls PROVE CallHeld(d)'
  <2>1. CASE d # c
    BY <1>1, <1>3, <1>5, <2>1 DEF CallHeld, Running, Exchanging
  <2>2. CASE d = c
    BY <1>1, <1>3, <1>5, <2>2 DEF CallHeld, Running, Exchanging
  <2> QED
    BY <2>1, <2>2
<1>8. DeviceTyped'
  BY <1>1, <1>3, <1>5 DEF DeviceInv, DeviceTyped
<1> QED
  BY <1>3, <1>6, <1>7, <1>8 DEF DeviceInv

LEMMA AccountStep ==
  ASSUME DeviceInv,
         \/ \E c \in Calls : AccountSettle(c) \/ AccountFails(c)
         \/ AccountCancel \/ AccountStatus
  PROVE  DeviceInv'
<1> USE PhasesDiffer
<1>1. /\ row \in OwnerRows /\ row.account \in AccountRecords /\ AccountHeld
      /\ flight \in Calls \cup {NoCall} /\ aflight \in Calls \cup {NoCall}
      /\ UNCHANGED <<flow, flight, deviceHistory>>
  BY RowFields DEF DeviceInv, DeviceTyped, AccountSettle, AccountFails, AccountCancel, AccountStatus
<1>2. /\ call' \in [Calls -> Handlers] /\ aflight' \in Calls \cup {NoCall}
      /\ FlightsHeld' /\ \A d \in Calls : Follows(d)
  <2>1. CASE \E c \in Calls : AccountSettle(c) \/ AccountFails(c)
    BY <1>1, <2>1, AccountEnds DEF AccountSettle, AccountFails
  <2>2. CASE AccountCancel
    BY <1>1, <2>2, FlightsStopped DEF AccountCancel
  <2>3. CASE AccountStatus
    BY <1>1, <2>3, CallsUnchanged DEF AccountStatus
  <2> QED
    BY <2>1, <2>2, <2>3
<1>3. /\ row' \in OwnerRows /\ row'.attempt = row.attempt
      /\ RowHeld' /\ AccountHeld' /\ CodeHeld'
  <2>1. CASE row' = row
    BY <1>1, <2>1 DEF DeviceInv, RowHeld, AccountHeld, CodeHeld, deviceHistory
  <2>2. CASE \E c \in Calls : AccountSettle(c)
    <3> DEFINE a == [row.account EXCEPT !.phase = "qualified", !.bound = TRUE]
    <3>1. a \in AccountRecords /\ a.phase = "qualified" /\ a.id = row.account.id
          /\ a.gen = row.account.gen
      BY <1>1 DEF AccountRecords
    <3>2. row' = [row EXCEPT !.account = a] /\ row.account.phase = "dispatch_unknown"
      BY <2>2 DEF AccountSettle, Bindable
    <3> HIDE DEF a
    <3> QED
      BY <1>1, <3>1, <3>2, AccountMoves DEF AccountHeld
  <2>3. ASSUME NEW phase \in {"unknown", "cancelled"}, row.account.phase # "none",
               row' = [row EXCEPT !.account = Unbound(@, phase)]
        PROVE  /\ row' \in OwnerRows /\ row'.attempt = row.attempt
               /\ RowHeld' /\ AccountHeld' /\ CodeHeld'
    <3> DEFINE a == [row.account EXCEPT !.phase = phase, !.bound = FALSE]
    <3>1. a \in AccountRecords /\ a.phase = phase /\ a.id = row.account.id
          /\ a.gen = row.account.gen /\ ~a.bound
      BY <1>1 DEF AccountRecords
    <3>2. row' = [row EXCEPT !.account = a]
      BY <2>3 DEF Unbound
    <3> HIDE DEF a
    <3> QED
      BY <1>1, <2>3, <3>1, <3>2, AccountMoves DEF AccountHeld
  <2>4. CASE AccountStatus
    <3> DEFINE a == [row.account EXCEPT !.phase = "unknown"]
    <3>1. a \in AccountRecords /\ a.phase = "unknown" /\ a.id = row.account.id
          /\ a.gen = row.account.gen /\ a.bound = row.account.bound
      BY <1>1 DEF AccountRecords
    <3>2. row' = [row EXCEPT !.account = a] /\ row.account.phase = "dispatch_unknown"
      BY <2>4 DEF AccountStatus
    <3> HIDE DEF a
    <3> QED
      BY <1>1, <3>1, <3>2, AccountMoves DEF AccountHeld
  <2> QED
    BY <2>1, <2>2, <2>3, <2>4 DEF AccountFails, AccountCancel
<1>4. \A d \in Calls : CallHeld(d)'
  BY <1>1, <1>2, <1>3, CallsFollow
<1>5. DeviceTyped'
  BY <1>1, <1>2, <1>3 DEF DeviceInv, DeviceTyped, deviceHistory
<1> QED
  BY <1>2, <1>3, <1>4, <1>5 DEF DeviceInv

(* What /put and /revoke leave of the row they invalidate.                 *)
LEMMA Invalidated ==
  ASSUME DeviceInv
  PROVE  /\ InvalidatedRow \in OwnerRows /\ InvalidatedRow.gen = row.gen
         /\ InvalidatedRow.line = row.line /\ InvalidatedRow.live = row.live
         /\ InvalidatedRow.token = row.token
         /\ InvalidatedRow.attempt.id = row.attempt.id
         /\ InvalidatedRow.attempt.gen = row.attempt.gen
         /\ row.attempt.phase = "committed" => InvalidatedRow.attempt.phase = "committed"
         /\ row.attempt.phase # "committed" => InvalidatedRow.attempt.phase \in ClosedPhases
         /\ row.account.phase = "none" => InvalidatedRow.account = row.account
         /\ row.account.phase # "none" =>
              /\ InvalidatedRow.account.phase = "cancelled" /\ ~InvalidatedRow.account.bound
              /\ InvalidatedRow.account.id = row.account.id
              /\ InvalidatedRow.account.gen = row.account.gen
<1>1. /\ row \in OwnerRows /\ row.attempt \in AttemptRecords /\ row.account \in AccountRecords
      /\ row.attempt.phase \in DevicePhases
  BY RowFields DEF DeviceInv, DeviceTyped
<1> DEFINE a == IF row.attempt.phase \in {"pending", "begin_unknown", "poll_unknown", "unknown"}
                THEN InPhase(row.attempt, "cancelled") ELSE row.attempt
           b == IF row.account.phase = "none" THEN row.account
                ELSE Unbound(row.account, "cancelled")
<1>2. a \in AttemptRecords /\ a.id = row.attempt.id /\ a.gen = row.attempt.gen
      /\ (row.attempt.phase = "committed" => a.phase = "committed")
      /\ (row.attempt.phase # "committed" => a.phase \in ClosedPhases)
  <2>1. CASE row.attempt.phase \in {"pending", "begin_unknown", "poll_unknown", "unknown"}
    <3>1. a = InPhase(row.attempt, "cancelled")
      BY <2>1
    <3>2. "cancelled" \in DevicePhases /\ "cancelled" \in ClosedPhases
      BY DEF DevicePhases, ClosedPhases
    <3> HIDE DEF a
    <3> QED
      BY <1>1, <2>1, <3>1, <3>2, PhaseSet
  <2>2. CASE row.attempt.phase \notin {"pending", "begin_unknown", "poll_unknown", "unknown"}
    BY <1>1, <2>2 DEF DevicePhases, ClosedPhases
  <2> QED
    BY <2>1, <2>2
<1>3. b \in AccountRecords /\ (row.account.phase = "none" => b = row.account)
      /\ (row.account.phase # "none" =>
           b.phase = "cancelled" /\ ~b.bound /\ b.id = row.account.id /\ b.gen = row.account.gen)
  BY <1>1 DEF AccountRecords, Unbound
<1>4. InvalidatedRow = [row EXCEPT !.attempt = a, !.account = b]
  BY DEF InvalidatedRow
<1> HIDE DEF a, b
<1> QED
  BY <1>1, <1>2, <1>3, <1>4 DEF OwnerRows

(* The row a mutation writes instead: no credential, no attempt but its    *)
(* number, no account.                                                     *)
FreshRow(gen) == [gen |-> gen, line |-> gen, live |-> TRUE, attempt |-> NoAttempt, token |-> 0,
                  account |-> NoAccount]
FreshRows(gen, id) == {[FreshRow(gen) EXCEPT !.attempt.id = id],
                       [FreshRow(gen) EXCEPT !.attempt.id = id, !.live = FALSE]}

LEMMA Fresh ==
  ASSUME NEW gen \in Nat, NEW id \in DeviceAttempts,
         NEW r \in FreshRows(gen, id)
  PROVE  /\ r \in OwnerRows /\ r.gen = gen /\ r.line = gen /\ r.token = 0
         /\ r.attempt.id = id /\ r.attempt.phase = "none" /\ r.attempt.gen = 0
         /\ r.account = NoAccount
<1> DEFINE a == [NoAttempt EXCEPT !.id = id]
           f == FreshRow(gen)
<1>0. 0 \in DeviceAttempts
  BY DeviceType DEF DeviceAttempts
<1>1. NoAttempt \in AttemptRecords /\ NoAttempt.phase = "none" /\ NoAttempt.gen = 0
  BY <1>0 DEF AttemptRecords, NoAttempt, DevicePhases
<1>2. a \in AttemptRecords /\ a.id = id /\ a.phase = "none" /\ a.gen = 0
  BY <1>1 DEF AttemptRecords
<1>3. NoAccount \in AccountRecords
  BY <1>0 DEF AccountRecords, NoAccount
<1>4. /\ f \in OwnerRows /\ f.gen = gen /\ f.line = gen /\ f.token = 0 /\ f.attempt = NoAttempt
      /\ f.account = NoAccount
  BY <1>0, <1>1, <1>3 DEF FreshRow, OwnerRows
<1> HIDE DEF f
<1>5. \E live \in BOOLEAN : r = [f EXCEPT !.attempt = a, !.live = live]
  <2>1. f.live \in BOOLEAN /\ [f EXCEPT !.attempt = a] = [f EXCEPT !.attempt = a, !.live = f.live]
    BY <1>2, <1>4 DEF OwnerRows
  <2>2. [f EXCEPT !.attempt.id = id] = [f EXCEPT !.attempt = a]
    BY <1>4
  <2>3. [f EXCEPT !.attempt.id = id, !.live = FALSE] = [f EXCEPT !.attempt = a, !.live = FALSE]
    BY <1>4
  <2> QED
    BY <2>1, <2>2, <2>3, ZenonT(60) DEF f, FreshRows
<1> HIDE DEF a
<1> QED
  BY <1>2, <1>4, <1>5 DEF OwnerRows

LEMMA MutationStep ==
  ASSUME DeviceInv, OwnerMutation
  PROVE  DeviceInv'
<1> USE PhasesDiffer, DeviceType
<1>1. /\ row \in OwnerRows /\ row.gen \in Nat /\ row.line \in Nat /\ row.token \in Nat
      /\ row.attempt.id \in DeviceAttempts /\ row.attempt.id \in Nat /\ row.attempt.gen \in Nat
      /\ RowHeld /\ AccountHeld /\ CodeHeld
      /\ flight \in Calls \cup {NoCall} /\ aflight \in Calls \cup {NoCall}
      /\ withdrawn \subseteq DeviceAttempts
      /\ UNCHANGED <<flow, flight, aflight, crashes, sent, pendings>>
      /\ withdrawn' = IF row.attempt.phase = "committed" THEN withdrawn
                      ELSE withdrawn \cup {row.attempt.id}
  BY RowFields DEF DeviceInv, DeviceTyped, OwnerMutation
<1>2. call' \in [Calls -> Handlers] /\ FlightsHeld' /\ \A d \in Calls : Follows(d)
  BY <1>1, FlightsStopped DEF OwnerMutation
<1>3. withdrawn' \subseteq DeviceAttempts /\ \A i \in withdrawn' : i <= row.attempt.id
  BY <1>1 DEF RowHeld
<1>4. ASSUME row' \in OwnerRows, RowHeld', AccountHeld', row'.attempt.id = row.attempt.id,
             row'.attempt.phase \in ClosedPhases \cup {row.attempt.phase}
      PROVE  DeviceInv'
  <2>1. \A d \in Calls : CallHeld(d)'
    BY <1>1, <1>2, <1>4, CallsFollow
  <2>2. CodeHeld'
    BY <1>1, <1>4 DEF CodeHeld
  <2> QED
    BY <1>1, <1>2, <1>3, <1>4, <2>1, <2>2 DEF DeviceInv, DeviceTyped
<1>5. CASE row' = InvalidatedRow
  <2>1. /\ row' \in OwnerRows /\ row'.attempt.id = row.attempt.id
        /\ row'.attempt.phase \in ClosedPhases \cup {row.attempt.phase}
    BY <1>5, Invalidated
  <2>2. RowHeld'
    BY <1>1, <1>3, <1>5, Invalidated DEF RowHeld
  <2>3. AccountHeld'
    BY <1>1, <1>5, Invalidated DEF AccountHeld
  <2> QED
    BY <1>4, <2>1, <2>2, <2>3
<1> PICK gen \in Nat : gen = row.gen + 1
  BY <1>1
<1>6. CASE row' = [InvalidatedRow EXCEPT !.gen = gen] /\ gen <= MaxGeneration /\ flow = "minimax"
  <2>1. row.account.phase = "none" /\ ~row.account.bound
    <3>1. row.account \in AccountRecords
      BY <1>1, RowFields
    <3> QED
      BY <1>1, <1>6, <3>1 DEF AccountHeld, AccountRecords
  <2> DEFINE mid == InvalidatedRow
  <2>2. /\ mid \in OwnerRows /\ mid.line = row.line /\ mid.token = row.token
        /\ mid.attempt.id = row.attempt.id /\ mid.attempt.gen = row.attempt.gen
        /\ row.attempt.phase = "committed" => mid.attempt.phase = "committed"
        /\ row.attempt.phase # "committed" => mid.attempt.phase \in ClosedPhases
        /\ mid.account = row.account
    BY <2>1, Invalidated
  <2>3. row' = [mid EXCEPT !.gen = gen]
    BY <1>6
  <2> HIDE DEF mid
  <2>4. /\ row' \in OwnerRows /\ row'.gen = gen /\ row'.line = row.line /\ row'.token = row.token
        /\ row'.attempt = mid.attempt /\ row'.account = row.account
    BY <2>2, <2>3 DEF OwnerRows
  <2>5. RowHeld'
    BY <1>1, <1>3, <1>6, <2>2, <2>4 DEF RowHeld
  <2>6. AccountHeld'
    BY <2>1, <2>4 DEF AccountHeld
  <2> QED
    BY <1>4, <2>2, <2>4, <2>5, <2>6
<1>7. CASE /\ gen <= MaxGeneration
           /\ row' \in FreshRows(gen, row.attempt.id)
  <2>1. /\ row' \in OwnerRows /\ row'.gen = gen /\ row'.line = gen /\ row'.token = 0
        /\ row'.attempt.id = row.attempt.id /\ row'.attempt.phase = "none" /\ row'.attempt.gen = 0
        /\ row'.account = NoAccount
    BY <1>1, <1>7, Fresh
  <2>2. NoAccount.phase = "none" /\ ~NoAccount.bound /\ "none" \in ClosedPhases
    BY DEF NoAccount, ClosedPhases
  <2>3. RowHeld'
    BY <1>3, <1>7, <2>1, <2>2 DEF RowHeld
  <2>4. AccountHeld'
    BY <2>1, <2>2 DEF AccountHeld
  <2> QED
    BY <1>4, <2>1, <2>2, <2>3, <2>4
<1>8. \/ row' = InvalidatedRow
      \/ /\ gen <= MaxGeneration
         /\ \/ row' \in FreshRows(gen, row.attempt.id)
            \/ flow = "minimax" /\ row' = [InvalidatedRow EXCEPT !.gen = gen]
  BY DEF OwnerMutation, FreshRow, FreshRows
<1> QED
  BY <1>5, <1>6, <1>7, <1>8

LEMMA CrashStep ==
  ASSUME DeviceInv, DeviceCrash
  PROVE  DeviceInv'
<1>1. /\ call \in [Calls -> Handlers] /\ flight' = NoCall /\ aflight' = NoCall
      /\ UNCHANGED <<flow, row, withdrawn, sent, pendings>>
  BY DEF DeviceInv, DeviceTyped, DeviceCrash
<1>2. ASSUME NEW d \in Calls
      PROVE  /\ call'[d] \in Handlers /\ call'[d].pc \in {"idle", "done"}
             /\ call'[d].op = call[d].op /\ call'[d].id = call[d].id
             /\ call'[d].phase = call[d].phase
  <2>1. call[d] \in Handlers
    BY <1>1
  <2>2. CASE call[d].pc = "idle"
    BY <2>1, <2>2 DEF DeviceCrash
  <2>3. CASE call[d].pc # "idle" /\ call'[d] = [call[d] EXCEPT !.pc = "done"]
    BY <2>1, <2>3 DEF Handlers
  <2> QED
    BY <2>2, <2>3 DEF DeviceCrash
<1>3. call' \in [Calls -> Handlers]
  BY <1>2 DEF DeviceCrash
<1>4. \A d \in Calls : CallHeld(d)'
  BY <1>1, <1>2 DEF DeviceInv, CallHeld, Running, Exchanging
<1>5. DeviceTyped' /\ RowHeld' /\ AccountHeld' /\ CodeHeld' /\ FlightsHeld'
  BY <1>1, <1>3 DEF DeviceInv, DeviceTyped, RowHeld, AccountHeld, CodeHeld, FlightsHeld
<1> QED
  BY <1>4, <1>5 DEF DeviceInv

LEMMA TimeStep ==
  ASSUME DeviceInv, DeviceTime
  PROVE  DeviceInv'
<1>1. /\ row \in OwnerRows /\ row.attempt \in AttemptRecords
      /\ flight \in Calls \cup {NoCall} /\ aflight \in Calls \cup {NoCall}
      /\ UNCHANGED <<flow, flight, aflight, call, deviceHistory>>
  BY RowFields DEF DeviceInv, DeviceTyped, DeviceTime
<1>2. \E a \in AttemptRecords :
        /\ row' = [row EXCEPT !.attempt = a]
        /\ a.id = row.attempt.id /\ a.gen = row.attempt.gen /\ a.phase = row.attempt.phase
  <2>1. CASE row' = [row EXCEPT !.attempt.early = FALSE]
    <3> DEFINE a == [row.attempt EXCEPT !.early = FALSE]
    <3>1. a \in AttemptRecords /\ a.id = row.attempt.id /\ a.gen = row.attempt.gen
          /\ a.phase = row.attempt.phase
      BY <1>1 DEF AttemptRecords
    <3>2. row' = [row EXCEPT !.attempt = a]
      BY <2>1
    <3> HIDE DEF a
    <3> QED
      BY <3>1, <3>2
  <2>2. CASE row' = [row EXCEPT !.attempt.expired = TRUE]
    <3> DEFINE a == [row.attempt EXCEPT !.expired = TRUE]
    <3>1. a \in AttemptRecords /\ a.id = row.attempt.id /\ a.gen = row.attempt.gen
          /\ a.phase = row.attempt.phase
      BY <1>1 DEF AttemptRecords
    <3>2. row' = [row EXCEPT !.attempt = a]
      BY <2>2
    <3> HIDE DEF a
    <3> QED
      BY <3>1, <3>2
  <2> QED
    BY <2>1, <2>2 DEF DeviceTime
<1>3. PICK a \in AttemptRecords :
        /\ row' = [row EXCEPT !.attempt = a]
        /\ a.id = row.attempt.id /\ a.gen = row.attempt.gen /\ a.phase = row.attempt.phase
  BY <1>2
<1>4. /\ row' \in OwnerRows /\ row'.attempt = a
      /\ row'.gen = row.gen /\ row'.line = row.line /\ row'.live = row.live
      /\ row'.token = row.token /\ row'.account = row.account
  BY <1>1, <1>3, AttemptSet
<1>5. call' \in [Calls -> Handlers] /\ FlightsHeld' /\ \A d \in Calls : Follows(d)
  BY <1>1, CallsUnchanged
<1>6. RowHeld' /\ AccountHeld' /\ CodeHeld'
  BY <1>1, <1>3, <1>4, AttemptCloses DEF deviceHistory
<1>7. \A d \in Calls : CallHeld(d)'
  BY <1>1, <1>3, <1>4, <1>5, CallsFollow
<1> QED
  BY <1>1, <1>4, <1>5, <1>6, <1>7 DEF DeviceInv, DeviceTyped, deviceHistory

LEMMA DeviceStep == DeviceInv /\ [DeviceNext]_deviceVars => DeviceInv'
<1> SUFFICES ASSUME DeviceInv, [DeviceNext]_deviceVars PROVE DeviceInv'
  OBVIOUS
<1>1. CASE DeviceNext
  BY <1>1, BeginStep, PollStep, HandlerStep, SettleStep, FailStep, CancelStep, QualifyStep,
     AccountStep, MutationStep, CrashStep, TimeStep DEF DeviceNext
<1>2. CASE UNCHANGED deviceVars
  BY <1>2 DEF deviceVars, DeviceInv, DeviceTyped, RowHeld, AccountHeld, CodeHeld, FlightsHeld,
     CallHeld, Running, Exchanging
<1> QED
  BY <1>1, <1>2

LEMMA DeviceInvImplies == DeviceInv => DeviceSafe
<1> SUFFICES ASSUME DeviceInv PROVE DeviceSafe
  OBVIOUS
<1> USE DeviceType, PhasesDiffer
<1>1. /\ row \in OwnerRows /\ row.gen \in Nat /\ row.line \in Nat /\ row.token \in Nat
      /\ row.attempt.id \in DeviceAttempts /\ row.attempt.id \in Nat
      /\ row.attempt.phase \in DevicePhases /\ row.account \in AccountRecords
      /\ RowHeld /\ AccountHeld /\ CodeHeld /\ FlightsHeld
      /\ flight \in Calls \cup {NoCall} /\ aflight \in Calls \cup {NoCall}
  BY RowFields DEF DeviceInv, DeviceTyped
<1>2. DeviceTypeOK
  BY <1>1 DEF DeviceTypeOK, RowHeld, FlightsHeld, Underway
<1>3. CodeNeverReplayed
  BY <1>1 DEF CodeNeverReplayed, CodeHeld
<1>4. OneExchangeSettles
  <2> SUFFICES ASSUME NEW c \in Calls, NEW d \in Calls,
                      {call[c].op, call[d].op} \subseteq {"begin", "poll"},
                      Exchanging(c), Exchanging(d), Settleable(c), Settleable(d),
                      ~call[c].stopped, ~call[d].stopped
               PROVE  c = d
    BY DEF OneExchangeSettles
  <2>1. Running(c) /\ Running(d)
    BY DEF Running, Settleable
  <2> QED
    BY <2>1 DEF DeviceInv, CallHeld
<1>5. WithdrawnNotInstalled
  BY <1>1 DEF WithdrawnNotInstalled, RowHeld
<1>6. BindingIsCurrent
  BY <1>1 DEF BindingIsCurrent, AccountHeld, AccountRecords
<1> QED
  BY <1>2, <1>3, <1>4, <1>5, <1>6 DEF DeviceSafe

(* One exchange at a time owns a device code; a code in doubt is not       *)
(* polled again; a withdrawn attempt installs nothing; an account is bound *)
(* to the credential it was qualified with only (copilot-device-flow.ts,   *)
(* minimax-device-flow.ts, copilot-account-flow.ts).                       *)
THEOREM DeviceFlowsAreSafe == DeviceSpec => []DeviceSafe
  BY DeviceBegins, DeviceStep, DeviceInvImplies, PTL DEF DeviceSpec

LEMMA CommitKept ==
  ASSUME DeviceInv, DeviceNext, row.attempt.phase = "committed",
         row'.attempt.id = row.attempt.id, row'.attempt.phase # "none"
  PROVE  row'.attempt.phase = "committed"
<1> USE PhasesDiffer
<1>1. /\ row \in OwnerRows /\ row.attempt \in AttemptRecords /\ row.attempt.id \in Nat
      /\ row.account \in AccountRecords /\ row.gen \in Nat
  BY RowFields DEF DeviceInv, DeviceTyped
<1>2. ASSUME NEW c \in Calls PROVE ~Running(c)
  BY DEF DeviceInv, CallHeld, Running
<1>3. ASSUME NEW c \in Calls PROVE ~DeviceBegin(c)
  <2> SUFFICES ASSUME DeviceBegin(c) PROVE FALSE
    OBVIOUS
  <2> PICK id \in Nat : id = row.attempt.id + 1
    BY <1>1
  <2>1. row'.attempt.id = id
    BY DEF DeviceBegin, BegunRow
  <2> QED
    BY <1>1, <2>1
<1>4. ASSUME NEW c \in Calls PROVE ~DevicePoll(c) /\ ~DeviceSettle(c)
  BY <1>2 DEF DevicePoll, Pollable, DeviceSettle, Running, Settleable, Exchanging
<1>5. ~DeviceCancel /\ ~DeviceStatus
  BY DEF DeviceCancel, Cancellable, DeviceStatus, Abandoned, Unsettled
<1>6. ASSUME NEW c \in Calls, DeviceFails(c) PROVE row'.attempt.phase = "committed"
  <2>1. Uncertain(row.attempt) = "committed"
    BY DEF Uncertain, Unsettled
  <2>2. InPhase(row.attempt, "committed").phase = "committed"
    BY <1>1, PhaseSet DEF DevicePhases
  <2> QED
    BY <1>1, <1>6, <2>1, <2>2 DEF DeviceFails, OwnerRows
<1>7. ASSUME NEW a, row' = [row EXCEPT !.account = a] PROVE row'.attempt = row.attempt
  BY <1>1, <1>7 DEF OwnerRows
<1>8. ASSUME \/ \E c \in Calls : AccountQualify(c) \/ AccountSettle(c) \/ AccountFails(c)
             \/ AccountCancel \/ AccountStatus
      PROVE  row'.attempt = row.attempt
  <2>1. row' = row \/ \E a : row' = [row EXCEPT !.account = a]
    BY <1>8, ZenonT(60)
      DEF AccountQualify, AccountSettle, AccountFails, AccountCancel, AccountStatus
  <2> QED
    BY <1>7, <2>1
<1>9. ASSUME OwnerMutation PROVE row'.attempt.phase = "committed"
  <2>1. InvalidatedRow \in OwnerRows /\ InvalidatedRow.attempt.phase = "committed"
    BY Invalidated
  <2>2. CASE row' = InvalidatedRow
    BY <2>1, <2>2
  <2> PICK gen \in Nat : gen = row.gen + 1
    BY <1>1
  <2>3. CASE row' = [InvalidatedRow EXCEPT !.gen = gen]
    BY <2>1, <2>3 DEF OwnerRows
  <2>4. CASE row' \in FreshRows(gen, row.attempt.id)
    <3>1. row'.attempt.phase = "none"
      BY <1>1, <2>4, Fresh, RowFields
    <3> QED
      BY <3>1
  <2> QED
    BY <1>9, <2>2, <2>3, <2>4 DEF OwnerMutation, FreshRow, FreshRows
<1>10. ASSUME DeviceTime PROVE row'.attempt.phase = "committed"
  BY <1>1, <1>10 DEF DeviceTime, OwnerRows, AttemptRecords
<1>11. ASSUME row' = row PROVE row'.attempt.phase = "committed"
  BY <1>11
<1> QED
  BY <1>3, <1>4, <1>5, <1>6, <1>8, <1>9, <1>10, <1>11, ZenonT(60) DEF DeviceNext, DeviceRespond,
     DeviceDeadline, DeviceRejected, SettleFails, DeviceCrash

LEMMA RunningKept ==
  ASSUME DeviceInv, DeviceNext, NEW c \in Calls, call[c].op \in {"begin", "poll"},
         call[c].pc = "sent", ~call[c].stopped, Settleable(c),
         row'.attempt.phase = "unknown", row'.attempt.id = call[c].id
  PROVE  \E d \in Calls \ {c} : call[d].pc = "failed" /\ call[d].id = call[c].id
<1> USE PhasesDiffer
<1>1. /\ row \in OwnerRows /\ row.attempt \in AttemptRecords /\ row.attempt.id \in Nat
      /\ row.account \in AccountRecords /\ row.gen \in Nat /\ CallHeld(c)
  BY RowFields DEF DeviceInv, DeviceTyped
<1>2. /\ Running(c) /\ flight = c /\ row.attempt.id = call[c].id
      /\ row.attempt.phase \in {"begin_unknown", "poll_unknown"}
  BY <1>1 DEF Settleable, Running, Exchanging, CallHeld
<1>3. row'.attempt.phase # row.attempt.phase
  BY <1>2
<1>4. ASSUME NEW d \in Calls PROVE ~DeviceBegin(d)
  <2> SUFFICES ASSUME DeviceBegin(d) PROVE FALSE
    OBVIOUS
  <2>1. row'.attempt.phase = "begin_unknown"
    BY DEF DeviceBegin, BegunRow
  <2> QED
    BY <2>1
<1>5. ASSUME NEW d \in Calls PROVE ~DevicePoll(d)
  BY <1>2 DEF DevicePoll, Pollable
<1>6. ASSUME NEW d \in Calls PROVE ~DeviceSettle(d)
  <2> SUFFICES ASSUME DeviceSettle(d) PROVE FALSE
    OBVIOUS
  <2>1. Running(d) /\ call[d].pc = "answered"
    BY DEF DeviceSettle, Running, Settleable, Exchanging
  <2>2. flight = d
    BY <2>1 DEF DeviceInv, CallHeld
  <2> QED
    BY <1>2, <2>1, <2>2
<1>7. ~DeviceCancel
  <2> SUFFICES ASSUME DeviceCancel PROVE FALSE
    OBVIOUS
  <2>1. InPhase(row.attempt, "cancelled").phase = "cancelled"
    BY <1>1, PhaseSet DEF DevicePhases
  <2>2. row'.attempt.phase = "cancelled"
    BY <1>1, <2>1 DEF DeviceCancel, OwnerRows
  <2> QED
    BY <2>2
<1>8. ~DeviceStatus
  BY <1>2, DeviceType DEF DeviceStatus, Abandoned, NoCall
<1>9. ASSUME NEW d \in Calls, DeviceFails(d)
      PROVE  \E e \in Calls \ {c} : call[e].pc = "failed" /\ call[e].id = call[c].id
  <2>1. call[d].pc = "failed" /\ d # c
    BY <1>9 DEF DeviceFails
  <2>2. row.attempt.id = call[d].id
    BY <1>3, <1>9 DEF DeviceFails
  <2> QED
    BY <1>2, <2>1, <2>2
<1>10. ASSUME NEW a, row' = [row EXCEPT !.account = a] PROVE row'.attempt = row.attempt
  BY <1>1, <1>10 DEF OwnerRows
<1>11. ASSUME \/ \E d \in Calls : AccountQualify(d) \/ AccountSettle(d) \/ AccountFails(d)
              \/ AccountCancel \/ AccountStatus
       PROVE  FALSE
  <2>1. row' = row \/ \E a : row' = [row EXCEPT !.account = a]
    BY <1>11, ZenonT(60)
      DEF AccountQualify, AccountSettle, AccountFails, AccountCancel, AccountStatus
  <2> QED
    BY <1>3, <1>10, <2>1
<1>12. ~OwnerMutation
  <2> SUFFICES ASSUME OwnerMutation PROVE FALSE
    OBVIOUS
  <2> DEFINE a == InPhase(row.attempt, "cancelled")
  <2>1. a.phase = "cancelled"
    BY <1>1, PhaseSet DEF DevicePhases
  <2>2. InvalidatedRow.attempt.phase = "cancelled" /\ InvalidatedRow \in OwnerRows
    <3>1. PICK b : InvalidatedRow = [row EXCEPT !.attempt = a, !.account = b]
      BY <1>2, ZenonT(60) DEF InvalidatedRow
    <3> HIDE DEF a
    <3>2. InvalidatedRow.attempt = a
      BY <1>1, <3>1 DEF OwnerRows
    <3> QED
      BY <2>1, <3>2, Invalidated
  <2>3. CASE row' = InvalidatedRow
    BY <2>2, <2>3
  <2> PICK gen \in Nat : gen = row.gen + 1
    BY <1>1
  <2>4. CASE row' = [InvalidatedRow EXCEPT !.gen = gen]
    <3>1. row'.attempt.phase = "cancelled"
      BY <2>2, <2>4 DEF OwnerRows
    <3> QED
      BY <3>1
  <2>5. CASE row' \in FreshRows(gen, row.attempt.id)
    <3>1. row'.attempt.phase = "none"
      BY <1>1, <2>5, Fresh, RowFields
    <3> QED
      BY <3>1
  <2> QED
    BY <2>3, <2>4, <2>5 DEF OwnerMutation, FreshRow, FreshRows
<1>13. ~DeviceTime
  BY <1>1, <1>3 DEF DeviceTime, OwnerRows, AttemptRecords
<1>14. row' # row
  BY <1>3
<1> QED
  BY <1>4, <1>5, <1>6, <1>7, <1>8, <1>9, <1>11, <1>12, <1>13, <1>14, ZenonT(60)
    DEF DeviceNext, DeviceRespond,
     DeviceDeadline, DeviceRejected, SettleFails, DeviceCrash

(* No step takes back a commit or gives up on an exchange that is still    *)
(* running, but for the catch of an earlier exchange of the same attempt   *)
(* (recover and settle of the device flows).                               *)
THEOREM DeviceAttemptsStand == DeviceSpec => AttemptsStand
<1>1. DeviceInv /\ DeviceNext => CommitStays /\ RunningIsNotAbandoned
  BY CommitKept, RunningKept DEF CommitStays, RunningIsNotAbandoned
<1>2. DeviceInv /\ UNCHANGED deviceVars => [CommitStays /\ RunningIsNotAbandoned]_deviceVars
  OBVIOUS
<1> QED
  BY <1>1, <1>2, DeviceBegins, DeviceStep, PTL DEF DeviceSpec, AttemptsStand

-----------------------------------------------------------------------------
(***************************************************************************)
(* The Vertex refresh: an exchange whose answer was not stored leaves its  *)
(* fence, the token is the installed key's, and no load diagnoses a fence  *)
(* that is being served.                                                   *)
(*                                                                         *)
(* What ties them: attempt numbers are never reused, so a fence belongs to *)
(* one handler, and that handler is the served one for as long as it runs. *)
(***************************************************************************)
VertexTypes ==
  /\ vrow \in [gen : Nat, key : SigningKeys \cup {0}, live : BOOLEAN, fence : Nat,
               fgen : Nat, diag : {"none"} \cup AtRisk, token : SigningKeys \cup {0}]
  /\ vactive \in Nat /\ vlast \in Nat /\ vrestarts \in Nat
  /\ vsent \in Nat /\ vsaved \in Nat
  /\ vcall \in [Exchanges -> [pc : {"idle", "sent", "answered", "failed", "done"},
                              id : Nat, gen : Nat, key : SigningKeys \cup {0},
                              stopped : BOOLEAN]]

Runs(c) == vcall[c].pc \notin {"idle", "done"}

(* Attempt numbers are handed out once.                                    *)
Numbered ==
  /\ vrow.fence <= vlast /\ vactive <= vlast
  /\ \A c \in Exchanges : vcall[c].id <= vlast /\ (Runs(c) => vcall[c].id # 0)
  /\ \A c, d \in Exchanges : vcall[c].id = vcall[d].id /\ vcall[c].id # 0 => c = d

(* The served attempt has a handler that runs, and the handler of the      *)
(* row's fence, while it runs, is the served one.                          *)
Served == vactive # 0 => \E c \in Exchanges : vcall[c].id = vactive /\ Runs(c)
FenceServed == \A c \in Exchanges : Runs(c) /\ vrow.fence = vcall[c].id => vactive = vcall[c].id

(* A row without a fence has no diagnosis.                                 *)
Undiagnosed == vrow.fence = 0 => vrow.diag = "none"

VertexInv ==
  /\ VertexTypes /\ Undiagnosed /\ Numbered /\ Served /\ FenceServed
  /\ UnsettledIsFenced /\ TokenOfKey /\ ServedNotDiagnosed

LEMMA VertexInitInv == VertexInit => VertexInv
  BY VertexAssumption DEF VertexInit, VertexInv, VertexTypes, Numbered, Served, FenceServed,
     UnsettledIsFenced, TokenOfKey, ServedNotDiagnosed, IdleExchange, AtRisk, Runs, Undiagnosed

(* A handler that ends serves nothing; every other handler is untouched.   *)
LEMMA OverKeeps ==
  ASSUME VertexInv, NEW c \in Exchanges, VertexOver(c), UNCHANGED <<vlast, vrestarts>>
  PROVE  /\ vcall' = [vcall EXCEPT ![c].pc = "done"] /\ vactive' \in Nat
         /\ vcall' \in [Exchanges -> [pc : {"idle", "sent", "answered", "failed", "done"},
                              id : Nat, gen : Nat, key : SigningKeys \cup {0},
                              stopped : BOOLEAN]]
         /\ vactive' <= vlast
         /\ \A d \in Exchanges : Runs(d)' <=> (Runs(d) /\ d # c)
         /\ \A d \in Exchanges : vcall'[d].id = vcall[d].id /\ vcall'[d].stopped = vcall[d].stopped
         /\ \A d \in Exchanges : d # c => vcall'[d] = vcall[d]
         /\ Served'
         /\ \A d \in Exchanges : Runs(d)' /\ vactive = vcall[d].id => vactive' = vcall[d].id
  <1>1. /\ vcall' = [vcall EXCEPT ![c].pc = "done"]
        /\ vactive' = IF vactive = vcall[c].id THEN 0 ELSE vactive
    BY DEF VertexOver, Retired
  <1>2. /\ vcall' \in [Exchanges -> [pc : {"idle", "sent", "answered", "failed", "done"},
                              id : Nat, gen : Nat, key : SigningKeys \cup {0},
                              stopped : BOOLEAN]]
        /\ \A d \in Exchanges : vcall'[d].id = vcall[d].id /\ vcall'[d].stopped = vcall[d].stopped
        /\ \A d \in Exchanges : d # c => vcall'[d] = vcall[d]
        /\ vcall'[c].pc = "done"
    BY <1>1 DEF VertexInv, VertexTypes
  <1>3. \A d \in Exchanges : Runs(d)' <=> (Runs(d) /\ d # c)
    BY <1>2 DEF Runs
  <1>4. vactive' \in Nat /\ vactive' <= vlast
    BY <1>1 DEF VertexInv, VertexTypes, Numbered
  <1>5. Served'
    BY <1>1, <1>2, <1>3 DEF VertexInv, Served
  <1>6. ASSUME NEW d \in Exchanges, Runs(d)', vactive = vcall[d].id
        PROVE  vactive' = vcall[d].id
    BY <1>1, <1>3, <1>6 DEF VertexInv, Numbered
  <1>7. QED BY <1>1, <1>2, <1>3, <1>4, <1>5, <1>6

(* What a handler's last step may do to the row: leave it, store a token   *)
(* under the same key, or diagnose the fence that was its own.             *)
LEMMA OverInv ==
  ASSUME VertexInv, NEW c \in Exchanges, VertexOver(c), UNCHANGED <<vlast, vrestarts, vsent>>,
         \/ UNCHANGED <<vrow, vsaved>>
         \/ /\ Same(vrow, c) /\ Runs(c) /\ vrow' = Committed(vrow) /\ vsaved' = vsaved + 1
         \/ /\ Same(vrow, c) /\ Runs(c) /\ UNCHANGED vsaved
            /\ \E x \in AtRisk : vrow' = [vrow EXCEPT !.diag = x]
  PROVE  VertexInv'
  <1>0. /\ vcall' = [vcall EXCEPT ![c].pc = "done"] /\ vactive' \in Nat
        /\ vcall' \in [Exchanges -> [pc : {"idle", "sent", "answered", "failed", "done"},
                              id : Nat, gen : Nat, key : SigningKeys \cup {0},
                              stopped : BOOLEAN]]
        /\ vactive' <= vlast
        /\ \A d \in Exchanges : Runs(d)' <=> (Runs(d) /\ d # c)
        /\ \A d \in Exchanges : vcall'[d].id = vcall[d].id /\ vcall'[d].stopped = vcall[d].stopped
        /\ \A d \in Exchanges : d # c => vcall'[d] = vcall[d]
        /\ Served'
        /\ \A d \in Exchanges : Runs(d)' /\ vactive = vcall[d].id => vactive' = vcall[d].id
    BY OverKeeps
  <1>1. CASE UNCHANGED <<vrow, vsaved>>
    <2>1. VertexTypes' BY <1>0, <1>1 DEF VertexInv, VertexTypes
    <2>2. Numbered' BY <1>0, <1>1 DEF VertexInv, VertexTypes, Numbered
    <2>3. FenceServed' BY <1>0, <1>1 DEF VertexInv, FenceServed
    <2>4. UnsettledIsFenced' /\ TokenOfKey' /\ Undiagnosed'
      BY <1>1 DEF VertexInv, UnsettledIsFenced, TokenOfKey, Undiagnosed
    <2>5. ServedNotDiagnosed' BY <1>0, <1>1 DEF VertexInv, ServedNotDiagnosed, Runs
    <2>6. QED BY <1>0, <2>1, <2>2, <2>3, <2>4, <2>5 DEF VertexInv
  <1>2. CASE Same(vrow, c) /\ Runs(c) /\ vrow' = Committed(vrow) /\ vsaved' = vsaved + 1
    <2>0. vrow' = [vrow EXCEPT !.gen = vrow.gen + 1, !.token = vrow.key, !.fence = 0,
                               !.fgen = 0, !.diag = "none"]
      BY <1>2 DEF Committed
    <2>t. vrow' \in [gen : Nat, key : SigningKeys \cup {0}, live : BOOLEAN, fence : Nat,
                  fgen : Nat, diag : {"none"} \cup AtRisk, token : SigningKeys \cup {0}]
      <3>1. vrow.gen + 1 \in Nat BY DEF VertexInv, VertexTypes
      <3>2. QED BY <2>0, <3>1 DEF VertexInv, VertexTypes
    <2>1. VertexTypes' BY <1>0, <1>2, <2>t DEF VertexInv, VertexTypes
    <2>a. /\ vrow'.fence = 0 /\ vrow'.diag = "none" /\ vrow'.key = vrow.key
          /\ vrow'.token = vrow.key /\ vrow'.live = vrow.live
      BY <2>0 DEF VertexInv, VertexTypes
    <2>b. vrow.fence # 0
      BY <1>2 DEF Same, VertexInv, VertexTypes, Numbered
    <2>2. Numbered' BY <1>0, <1>2, <2>a DEF VertexInv, VertexTypes, Numbered
    <2>3. FenceServed' BY <1>0, <2>a DEF VertexInv, FenceServed, Numbered
    <2>4. UnsettledIsFenced' /\ TokenOfKey' /\ Undiagnosed'
      BY <1>2, <2>a, <2>b DEF VertexInv, VertexTypes, UnsettledIsFenced, TokenOfKey, Undiagnosed
    <2>5. ServedNotDiagnosed' BY <2>a DEF ServedNotDiagnosed
    <2>6. QED BY <1>0, <2>1, <2>2, <2>3, <2>4, <2>5 DEF VertexInv
  <1>3. CASE /\ Same(vrow, c) /\ Runs(c) /\ UNCHANGED vsaved
             /\ \E x \in AtRisk : vrow' = [vrow EXCEPT !.diag = x]
    <2>0. PICK x \in AtRisk : vrow' = [vrow EXCEPT !.diag = x] BY <1>3
    <2>1. VertexTypes' BY <1>0, <1>3, <2>0 DEF VertexInv, VertexTypes
    <2>a. /\ vrow'.fence = vrow.fence /\ vrow'.key = vrow.key
          /\ vrow'.token = vrow.token /\ vrow'.live = vrow.live
      BY <2>0 DEF VertexInv, VertexTypes
    <2>2. Numbered' BY <1>0, <2>a DEF VertexInv, VertexTypes, Numbered
    <2>3. FenceServed' BY <1>0, <2>a DEF VertexInv, FenceServed
    <2>b. vrow.fence # 0
      BY <1>3 DEF Same, VertexInv, Numbered
    <2>4. UnsettledIsFenced' /\ TokenOfKey' /\ Undiagnosed'
      BY <1>3, <2>a, <2>b DEF VertexInv, UnsettledIsFenced, TokenOfKey, Undiagnosed
    <2>5. ServedNotDiagnosed'
      <3>1. vrow.fence = vcall[c].id /\ vcall[c].id # 0
        BY <1>3 DEF Same, VertexInv, Numbered
      <3>2. \A d \in Exchanges : vrow'.fence = vcall'[d].id => d = c
        BY <1>0, <2>a, <3>1 DEF VertexInv, Numbered
      <3>3. vcall'[c].pc = "done" BY <1>0 DEF VertexInv, VertexTypes
      <3>4. QED BY <3>2, <3>3 DEF ServedNotDiagnosed
    <2>6. QED BY <1>0, <2>1, <2>2, <2>3, <2>4, <2>5 DEF VertexInv
  <1>4. QED BY <1>1, <1>2, <1>3

(* A load leaves a served fence alone and otherwise touches the diagnosis  *)
(* only.                                                                   *)
LEMMA DiagnosedKeeps ==
  ASSUME VertexInv
  PROVE  /\ Diagnosed(vrow) \in [gen : Nat, key : SigningKeys \cup {0}, live : BOOLEAN,
                    fence : Nat, fgen : Nat, diag : {"none"} \cup AtRisk,
                    token : SigningKeys \cup {0}]
         /\ \A f \in {"gen", "key", "live", "fence", "fgen", "token"} :
              Diagnosed(vrow)[f] = vrow[f]
         /\ VertexLive(vrow) => Diagnosed(vrow) = vrow
  BY DEF VertexInv, VertexTypes, Diagnosed, AtRisk

(* Handlers may stop and move on between their first and last steps.       *)
LEMMA MovesKeep ==
  ASSUME VertexInv, UNCHANGED <<vlast, vrestarts, vactive>>,
         vcall' \in [Exchanges -> [pc : {"idle", "sent", "answered", "failed", "done"},
                              id : Nat, gen : Nat, key : SigningKeys \cup {0},
                              stopped : BOOLEAN]],
         \A d \in Exchanges : vcall'[d].id = vcall[d].id /\ (Runs(d)' <=> Runs(d)),
         vrow'.fence \in {0, vrow.fence}
  PROVE  Numbered' /\ Served' /\ FenceServed'
  <1>1. Numbered' BY DEF VertexInv, VertexTypes, Numbered
  <1>2. Served' BY DEF VertexInv, Served
  <1>3. FenceServed' BY DEF VertexInv, FenceServed, Numbered
  <1>4. QED BY <1>1, <1>2, <1>3

LEMMA VertexReserveInv ==
  ASSUME VertexInv, NEW c \in Exchanges, VertexReserve(c)
  PROVE  VertexInv'
  <1>0. PICK n : n = vlast + 1 OBVIOUS
  <1>1. /\ Unfenced(vrow) /\ vcall[c].pc = "idle"
        /\ vrow' = [vrow EXCEPT !.fence = n, !.fgen = vrow.gen]
        /\ vactive' = n /\ vlast' = n /\ vsent' = vsent + 1
        /\ vcall' = [vcall EXCEPT ![c] = [pc |-> "sent", id |-> n, gen |-> vrow.gen,
                                    key |-> vrow.key, stopped |-> FALSE]]
        /\ UNCHANGED <<vrestarts, vsaved>>
    BY <1>0 DEF VertexReserve
  <1>2. n \in Nat /\ n > vlast /\ vlast \in Nat BY <1>0 DEF VertexInv, VertexTypes
  <1>3. VertexTypes'
    <2>1. vrow' \in [gen : Nat, key : SigningKeys \cup {0}, live : BOOLEAN, fence : Nat,
                  fgen : Nat, diag : {"none"} \cup AtRisk, token : SigningKeys \cup {0}]
      BY <1>1, <1>2 DEF VertexInv, VertexTypes
    <2>2. vcall' \in [Exchanges -> [pc : {"idle", "sent", "answered", "failed", "done"},
                              id : Nat, gen : Nat, key : SigningKeys \cup {0},
                              stopped : BOOLEAN]]
      BY <1>1, <1>2 DEF VertexInv, VertexTypes
    <2>3. QED BY <1>1, <1>2, <2>1, <2>2 DEF VertexInv, VertexTypes
  <1>4. /\ vcall'[c].id = n /\ vcall'[c].pc = "sent"
        /\ \A d \in Exchanges : d # c => vcall'[d] = vcall[d] /\ vcall[d].id # n
        /\ vrow'.fence = n /\ vrow'.key = vrow.key /\ vrow'.token = vrow.token
        /\ vrow'.live = vrow.live /\ vrow'.diag = vrow.diag
    <2>1. \A d \in Exchanges : vcall[d].id <= vlast /\ vcall[d].id \in Nat
      BY DEF VertexInv, VertexTypes, Numbered
    <2>2. ASSUME NEW d \in Exchanges PROVE vcall[d].id # n
      <3>1. PICK i \in Nat : i = vcall[d].id /\ i <= vlast BY <2>1
      <3>2. i # n BY <1>2, <3>1
      <3>3. QED BY <3>1, <3>2
    <2>3. QED BY <1>1, <2>2 DEF VertexInv, VertexTypes
  <1>5. Numbered' /\ Served' /\ FenceServed'
    <2>1. Numbered' BY <1>1, <1>2, <1>4 DEF VertexInv, VertexTypes, Numbered, Runs
    <2>2. Served' /\ FenceServed' BY <1>1, <1>4 DEF Served, FenceServed, Runs
    <2>3. QED BY <2>1, <2>2
  <1>6. UnsettledIsFenced' /\ TokenOfKey' /\ Undiagnosed'
    BY <1>1, <1>2, <1>4 DEF VertexInv, VertexTypes, UnsettledIsFenced, TokenOfKey, Unfenced, Undiagnosed
  <1>7. ServedNotDiagnosed'
    <2>1. vrow.diag = "none"
      BY <1>1 DEF VertexInv, Undiagnosed, Unfenced
    <2>2. QED BY <1>4, <2>1 DEF ServedNotDiagnosed
  <1>8. QED BY <1>3, <1>5, <1>6, <1>7 DEF VertexInv

LEMMA VertexMoveInv ==
  ASSUME VertexInv, NEW c \in Exchanges, VertexAnswer(c) \/ VertexStop(c)
  PROVE  VertexInv'
  <1>1. UNCHANGED <<vrow, vactive, vlast, vrestarts, vsent, vsaved>>
    BY DEF VertexAnswer, VertexStop
  <1>2. /\ vcall' \in [Exchanges -> [pc : {"idle", "sent", "answered", "failed", "done"},
                              id : Nat, gen : Nat, key : SigningKeys \cup {0},
                              stopped : BOOLEAN]]
        /\ \A d \in Exchanges : vcall'[d].id = vcall[d].id /\ (Runs(d)' <=> Runs(d))
        /\ \A d \in Exchanges : (vcall'[d].pc \in {"sent", "answered"} /\ ~vcall'[d].stopped)
                        => (vcall[d].pc \in {"sent", "answered"} /\ ~vcall[d].stopped)
    <2>1. CASE VertexAnswer(c)
      BY <2>1 DEF VertexAnswer, VertexInv, VertexTypes, Runs
    <2>2. CASE VertexStop(c)
      BY <2>2, ZenonT(60) DEF VertexStop, VertexInv, VertexTypes, Runs
    <2>3. QED BY <2>1, <2>2
  <1>3. VertexTypes' BY <1>1, <1>2 DEF VertexInv, VertexTypes
  <1>4. Numbered' /\ Served' /\ FenceServed' BY <1>1, <1>2, MovesKeep
  <1>5. UnsettledIsFenced' /\ TokenOfKey' /\ Undiagnosed'
    BY <1>1 DEF VertexInv, UnsettledIsFenced, TokenOfKey, Undiagnosed
  <1>6. ServedNotDiagnosed' BY <1>1, <1>2 DEF VertexInv, ServedNotDiagnosed
  <1>7. QED BY <1>3, <1>4, <1>5, <1>6 DEF VertexInv

(* Cancelling sets the stop flag of the served handler and nothing else.   *)
LEMMA CancelledKeeps ==
  ASSUME VertexInv
  PROVE  /\ StoppedExchanges \in [Exchanges -> [pc : {"idle", "sent", "answered", "failed", "done"},
                              id : Nat, gen : Nat, key : SigningKeys \cup {0},
                              stopped : BOOLEAN]]
         /\ \A d \in Exchanges : StoppedExchanges[d].id = vcall[d].id /\ StoppedExchanges[d].pc = vcall[d].pc
         /\ \A d \in Exchanges : ~StoppedExchanges[d].stopped => ~vcall[d].stopped
         /\ \A d \in Exchanges : vactive # 0 /\ vcall[d].id = vactive => StoppedExchanges[d].stopped
  <1>1. ASSUME NEW d \in Exchanges
        PROVE  /\ StoppedExchanges[d] \in [pc : {"idle", "sent", "answered", "failed", "done"},
                              id : Nat, gen : Nat, key : SigningKeys \cup {0},
                              stopped : BOOLEAN]
               /\ StoppedExchanges[d].id = vcall[d].id /\ StoppedExchanges[d].pc = vcall[d].pc
               /\ ~StoppedExchanges[d].stopped => ~vcall[d].stopped
               /\ vactive # 0 /\ vcall[d].id = vactive => StoppedExchanges[d].stopped
    <2>1. vcall[d] \in [pc : {"idle", "sent", "answered", "failed", "done"},
                              id : Nat, gen : Nat, key : SigningKeys \cup {0},
                              stopped : BOOLEAN]
      BY DEF VertexInv, VertexTypes
    <2>2. StoppedExchanges[d] = IF vactive # 0 /\ vcall[d].id = vactive
                         THEN [vcall[d] EXCEPT !.stopped = TRUE] ELSE vcall[d]
      BY DEF StoppedExchanges
    <2>3. QED BY <2>1, <2>2
  <1>2. StoppedExchanges = [d \in Exchanges |-> StoppedExchanges[d]] BY DEF StoppedExchanges
  <1>3. QED BY <1>1, <1>2

LEMMA VertexLoadInv ==
  ASSUME VertexInv, UNCHANGED <<vactive, vlast, vrestarts, vsent, vsaved>>,
         vrow' = Diagnosed(vrow), vcall' \in {vcall, StoppedExchanges}
  PROVE  VertexInv'
  <1>1. /\ vrow' \in [gen : Nat, key : SigningKeys \cup {0}, live : BOOLEAN,
                    fence : Nat, fgen : Nat, diag : {"none"} \cup AtRisk,
                    token : SigningKeys \cup {0}]
        /\ vrow'.key = vrow.key /\ vrow'.live = vrow.live /\ vrow'.fence = vrow.fence
        /\ vrow'.token = vrow.token
        /\ VertexLive(vrow) => vrow' = vrow
        /\ vrow.fence = 0 => vrow' = vrow
    <2>1. vrow.fence = 0 => vrow' = vrow BY DEF Diagnosed
    <2>2. QED BY <2>1, DiagnosedKeeps
  <1>2. /\ vcall' \in [Exchanges -> [pc : {"idle", "sent", "answered", "failed", "done"},
                              id : Nat, gen : Nat, key : SigningKeys \cup {0},
                              stopped : BOOLEAN]]
        /\ \A d \in Exchanges : vcall'[d].id = vcall[d].id /\ vcall'[d].pc = vcall[d].pc
        /\ \A d \in Exchanges : ~vcall'[d].stopped => ~vcall[d].stopped
    <2>1. CASE vcall' = vcall BY <2>1 DEF VertexInv, VertexTypes
    <2>2. CASE vcall' = StoppedExchanges BY <2>2, CancelledKeeps
    <2>3. QED BY <2>1, <2>2
  <1>3. VertexTypes' BY <1>1, <1>2 DEF VertexInv, VertexTypes
  <1>4. Numbered' /\ Served' /\ FenceServed'
    <2>1. \A d \in Exchanges : vcall'[d].id = vcall[d].id /\ (Runs(d)' <=> Runs(d))
      BY <1>2 DEF Runs
    <2>2. QED BY <1>1, <1>2, <2>1, MovesKeep
  <1>5. UnsettledIsFenced' /\ TokenOfKey' /\ Undiagnosed'
    BY <1>1 DEF VertexInv, UnsettledIsFenced, TokenOfKey, Undiagnosed
  <1>6. ASSUME NEW d \in Exchanges, vcall'[d].pc \in {"sent", "answered"},
               ~vcall'[d].stopped, vrow'.fence = vcall'[d].id
        PROVE  vrow'.diag = "none"
    <2>1. /\ vcall[d].pc \in {"sent", "answered"} /\ ~vcall[d].stopped
          /\ vrow.fence = vcall[d].id /\ vcall[d].id # 0
      BY <1>1, <1>2, <1>6 DEF VertexInv, Numbered, Runs
    <2>2. VertexLive(vrow) BY <2>1 DEF VertexInv, FenceServed, Runs, VertexLive
    <2>3. QED BY <1>1, <2>1, <2>2 DEF VertexInv, ServedNotDiagnosed
  <1>7. QED BY <1>3, <1>4, <1>5, <1>6 DEF VertexInv, ServedNotDiagnosed

(* Put and revoke stop the served handler; what they write either keeps    *)
(* the key, the fence and its diagnosis, or has none of them.              *)
LEMMA VertexRewriteInv ==
  ASSUME VertexInv, UNCHANGED <<vactive, vlast, vrestarts>>, vcall' = StoppedExchanges,
         vrow' \in [gen : Nat, key : SigningKeys \cup {0}, live : BOOLEAN,
                    fence : Nat, fgen : Nat, diag : {"none"} \cup AtRisk,
                    token : SigningKeys \cup {0}],
         \/ /\ vrow'.fence = 0 /\ vrow'.diag = "none" /\ vrow'.token = 0
            /\ vrow'.live => vrow'.key # 0
            /\ vsent' = 0 /\ vsaved' = 0
         \/ /\ vrow'.fence = vrow.fence /\ vrow'.key = vrow.key /\ vrow'.token = vrow.token
            /\ vrow'.live = vrow.live
            /\ vrow.fence = 0 => vrow'.diag = vrow.diag
            /\ UNCHANGED <<vsent, vsaved>>
  PROVE  VertexInv'
  <1>1. /\ vcall' \in [Exchanges -> [pc : {"idle", "sent", "answered", "failed", "done"},
                              id : Nat, gen : Nat, key : SigningKeys \cup {0},
                              stopped : BOOLEAN]]
        /\ \A d \in Exchanges : vcall'[d].id = vcall[d].id /\ vcall'[d].pc = vcall[d].pc
        /\ \A d \in Exchanges : vactive # 0 /\ vcall[d].id = vactive => vcall'[d].stopped
    BY CancelledKeeps
  <1>2. VertexTypes' BY <1>1 DEF VertexInv, VertexTypes
  <1>3. Numbered' /\ Served' /\ FenceServed'
    <2>1. \A d \in Exchanges : vcall'[d].id = vcall[d].id /\ (Runs(d)' <=> Runs(d))
      BY <1>1 DEF Runs
    <2>2. QED BY <1>1, <2>1, MovesKeep
  <1>4. UnsettledIsFenced' /\ TokenOfKey' /\ Undiagnosed'
    BY DEF VertexInv, VertexTypes, UnsettledIsFenced, TokenOfKey, Undiagnosed
  <1>5. ASSUME NEW d \in Exchanges, vcall'[d].pc \in {"sent", "answered"},
               ~vcall'[d].stopped, vrow'.fence = vcall'[d].id
        PROVE  FALSE
    <2>1. vcall[d].id # 0 /\ Runs(d) BY <1>1, <1>5 DEF VertexInv, Numbered, Runs
    <2>2. vrow.fence = vcall[d].id BY <1>1, <1>5, <2>1
    <2>3. QED BY <1>1, <1>5, <2>1, <2>2 DEF VertexInv, FenceServed
  <1>6. QED BY <1>2, <1>3, <1>4, <1>5 DEF VertexInv, ServedNotDiagnosed

LEMMA VertexPutInv ==
  ASSUME VertexInv, NEW k \in SigningKeys, VertexPut(k)
  PROVE  VertexInv'
  <1> DEFINE seen == Diagnosed(vrow)
  <1>1. UNCHANGED <<vactive, vlast, vrestarts>> /\ vcall' = StoppedExchanges BY DEF VertexPut
  <1>2. CASE vrow' = seen /\ UNCHANGED <<vsent, vsaved>>
    BY <1>1, <1>2, VertexLoadInv
  <1>3. CASE vrow' = Rekeyed(seen, k)
             /\ IF k = vrow.key THEN UNCHANGED <<vsent, vsaved>> ELSE vsent' = 0 /\ vsaved' = 0
    <2>1. /\ seen \in [gen : Nat, key : SigningKeys \cup {0}, live : BOOLEAN,
                    fence : Nat, fgen : Nat, diag : {"none"} \cup AtRisk,
                    token : SigningKeys \cup {0}]
          /\ seen.gen = vrow.gen /\ seen.key = vrow.key /\ seen.live = vrow.live
          /\ seen.fence = vrow.fence /\ seen.token = vrow.token
          /\ vrow.fence = 0 => seen.diag = vrow.diag
      <3>1. vrow.fence = 0 => seen.diag = vrow.diag BY DEF Diagnosed
      <3>2. QED BY <3>1, DiagnosedKeeps
    <2> HIDE DEF seen
    <2>2. CASE k = vrow.key
      <3>1. vrow' = [seen EXCEPT !.gen = seen.gen + 1] BY <1>3, <2>1, <2>2 DEF Rekeyed
      <3>2. seen.gen + 1 \in Nat BY <2>1
      <3>3. QED BY <1>1, <1>3, <2>1, <2>2, <3>1, <3>2, VertexRewriteInv
    <2>3. CASE k # vrow.key
      <3>1. vrow' = [gen |-> seen.gen + 1, key |-> k, live |-> TRUE, fence |-> 0, fgen |-> 0,
                     diag |-> "none", token |-> 0]
        BY <1>3, <2>1, <2>3 DEF Rekeyed
      <3>2. seen.gen + 1 \in Nat BY <2>1
      <3>3. /\ vrow' \in [gen : Nat, key : SigningKeys \cup {0}, live : BOOLEAN,
                    fence : Nat, fgen : Nat, diag : {"none"} \cup AtRisk,
                    token : SigningKeys \cup {0}]
            /\ vrow'.fence = 0 /\ vrow'.diag = "none" /\ vrow'.token = 0 /\ vrow'.key # 0
        BY <3>1, <3>2, VertexAssumption
      <3>4. vsent' = 0 /\ vsaved' = 0 BY <1>3, <2>3
      <3>5. QED BY <1>1, <3>3, <3>4, VertexRewriteInv
    <2>4. QED BY <2>2, <2>3
  <1>4. QED BY <1>2, <1>3 DEF VertexPut

LEMMA VertexRevokeInv ==
  ASSUME VertexInv, VertexRevoke
  PROVE  VertexInv'
  <1>1. /\ UNCHANGED <<vactive, vlast, vrestarts>> /\ vcall' = StoppedExchanges
        /\ vrow' = [gen |-> vrow.gen + 1, key |-> 0, live |-> FALSE, fence |-> 0, fgen |-> 0,
                    diag |-> "none", token |-> 0]
        /\ vsent' = 0 /\ vsaved' = 0
    BY DEF VertexRevoke
  <1>2. vrow.gen + 1 \in Nat BY DEF VertexInv, VertexTypes
  <1>3. QED BY <1>1, <1>2, VertexRewriteInv

LEMMA VertexCrashInv ==
  ASSUME VertexInv, VertexCrash
  PROVE  VertexInv'
  <1>1. /\ UNCHANGED <<vrow, vlast, vsent, vsaved>> /\ vactive' = 0 /\ vrestarts' \in Nat
        /\ vcall' = [c \in Exchanges |-> IF vcall[c].pc = "idle" THEN vcall[c]
                                        ELSE [vcall[c] EXCEPT !.pc = "done"]]
    BY DEF VertexCrash, VertexInv, VertexTypes
  <1>2. /\ vcall' \in [Exchanges -> [pc : {"idle", "sent", "answered", "failed", "done"},
                              id : Nat, gen : Nat, key : SigningKeys \cup {0},
                              stopped : BOOLEAN]]
        /\ \A d \in Exchanges : vcall'[d].id = vcall[d].id /\ vcall'[d].pc \in {"idle", "done"}
    BY <1>1 DEF VertexInv, VertexTypes
  <1>3. VertexTypes' BY <1>1, <1>2 DEF VertexInv, VertexTypes
  <1>4. Numbered'
    BY <1>1, <1>2 DEF VertexInv, VertexTypes, Numbered, Runs
  <1>5. Served' /\ FenceServed' BY <1>1, <1>2 DEF Served, FenceServed, Runs
  <1>6. UnsettledIsFenced' /\ TokenOfKey' /\ Undiagnosed'
    BY <1>1 DEF VertexInv, UnsettledIsFenced, TokenOfKey, Undiagnosed
  <1>7. ServedNotDiagnosed' BY <1>2 DEF ServedNotDiagnosed
  <1>8. QED BY <1>3, <1>4, <1>5, <1>6, <1>7 DEF VertexInv

LEMMA VertexStep == VertexInv /\ [VertexNext]_vertexVars => VertexInv'
  <1> SUFFICES ASSUME VertexInv, [VertexNext]_vertexVars PROVE VertexInv'
    OBVIOUS
  <1>1. ASSUME NEW c \in Exchanges, VertexReserve(c) PROVE VertexInv'
    BY <1>1, VertexReserveInv
  <1>2. ASSUME NEW c \in Exchanges, VertexAnswer(c) \/ VertexStop(c) PROVE VertexInv'
    BY <1>2, VertexMoveInv
  <1>3. ASSUME NEW c \in Exchanges, VertexSettle(c) PROVE VertexInv'
    BY <1>3, OverInv DEF VertexSettle, Runs
  <1>4. ASSUME NEW c \in Exchanges, VertexUnsaved(c) PROVE VertexInv'
    BY <1>4, OverInv DEF VertexUnsaved, Runs, AtRisk
  <1>5. ASSUME NEW c \in Exchanges, VertexFails(c) PROVE VertexInv'
    <2>1. Runs(c) BY <1>5 DEF VertexFails, Runs
    <2>2. CASE Same(vrow, c)
      <3>1. \E x \in AtRisk : vrow' = [vrow EXCEPT !.diag = x]
        BY <1>5, <2>2 DEF VertexFails, Absolved, AtRisk
      <3>2. QED BY <1>5, <2>1, <2>2, <3>1, OverInv DEF VertexFails
    <2>3. CASE ~Same(vrow, c) BY <1>5, <2>3, OverInv DEF VertexFails
    <2>4. QED BY <2>2, <2>3
  <1>6. ASSUME NEW k \in SigningKeys, VertexPut(k) PROVE VertexInv'
    BY <1>6, VertexPutInv
  <1>7. CASE VertexLoad BY <1>7, VertexLoadInv DEF VertexLoad
  <1>8. CASE VertexRevoke BY <1>8, VertexRevokeInv
  <1>9. CASE VertexCrash BY <1>9, VertexCrashInv
  <1>10. CASE UNCHANGED vertexVars
    BY <1>10 DEF vertexVars, VertexInv, VertexTypes, Undiagnosed, Numbered, Served,
       FenceServed, UnsettledIsFenced, TokenOfKey, ServedNotDiagnosed, Runs
  <1>11. QED
    BY <1>1, <1>2, <1>3, <1>4, <1>5, <1>6, <1>7, <1>8, <1>9, <1>10 DEF VertexNext

LEMMA VertexInvariant == VertexSpec => []VertexInv
  BY VertexInitInv, VertexStep, PTL DEF VertexSpec

(* For any number of handlers, keys and generations, a service-account     *)
(* assertion is not repeated while the answer to the previous one is not   *)
(* stored, the stored token is never one of a replaced or revoked key, and *)
(* a fence that is being served is never diagnosed (vertex-owner-          *)
(* refresh.ts 30, 40, 49).                                                 *)
THEOREM VertexCorrect == VertexSpec => []VertexSafe
  <1>1. VertexInv => VertexTypeOK
    BY DEF VertexInv, VertexTypes, VertexTypeOK, Served, Runs
  <1>2. VertexInv => UnsettledIsFenced /\ TokenOfKey /\ ServedNotDiagnosed
    BY DEF VertexInv
  <1>3. VertexInv => VertexSafe BY <1>1, <1>2 DEF VertexSafe
  <1>4. QED BY <1>3, VertexInvariant, PTL
=============================================================================
