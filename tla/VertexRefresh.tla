--------------------------- MODULE VertexRefresh ---------------------------
(***************************************************************************)
(* Token exchange of a Vertex service account on its credential owner      *)
(* (worker/vertex-owner-refresh.ts), with the owner's other operations     *)
(* that meet it: /put and /revoke, which cancel it, and every load of the  *)
(* record, which diagnoses a fence nobody is serving                       *)
(* (worker/grant-credentials.ts, worker/vertex-anthropic-binding.ts).      *)
(*                                                                         *)
(* Sections under the owner's ordering tail are single actions; the        *)
(* exchange runs outside it.  Attempts are numbered; a row's lineage       *)
(* changes only with its key and is left out.                              *)
(***************************************************************************)
EXTENDS Integers

CONSTANTS Exchanges,      \* materialize handlers, the alarm's included
          SigningKeys,           \* signing keys
          MaxExchanges,   \* bound: attempts numbered
          MaxVertexGen,   \* bound: generation of the row
          MaxRestarts     \* bound: restarts of the object

ASSUME VertexAssumption ==
  /\ SigningKeys # {} /\ 0 \notin SigningKeys
  /\ MaxExchanges \in Nat /\ MaxVertexGen \in Nat /\ MaxRestarts \in Nat

VARIABLES vrow,       \* the durable record
          vactive,    \* active: the attempt being served, 0 for none
          vcall,      \* the handlers
          vlast,      \* the last attempt number
          vrestarts,
          vsent,      \* exchanges sent since the key was installed
          vsaved      \* and answers stored since then

vertexVars == <<vrow, vactive, vcall, vlast, vrestarts, vsent, vsaved>>

IdleExchange == [pc |-> "idle", id |-> 0, gen |-> 0, key |-> 0, stopped |-> FALSE]
AtRisk == {"ambiguous", "provider_ok_persist_failed"}

VertexInit ==
  /\ \E k \in SigningKeys : vrow = [gen |-> 1, key |-> k, live |-> TRUE, fence |-> 0,
                             fgen |-> 0, diag |-> "none", token |-> 0]
  /\ vactive = 0 /\ vlast = 0 /\ vrestarts = 0 /\ vsent = 0 /\ vsaved = 0
  /\ vcall = [c \in Exchanges |-> IdleExchange]

(***************************************************************************)
(* diagnoseUnsettled, on every load: a fence that this object is not       *)
(* serving has an unknown outcome.                                         *)
(***************************************************************************)
MutVertexLive(row) == FALSE
VertexLive(row) == vactive # 0 /\ vactive = row.fence
Diagnosed(row) ==
  IF row.fence # 0 /\ row.diag \notin AtRisk /\ ~VertexLive(row)
  THEN [row EXCEPT !.diag = "ambiguous"] ELSE row

(***************************************************************************)
(* materialize, reserve section: refused on a row that is revoked, at      *)
(* another generation or fenced, answered at once while the token is good  *)
(* (VertexLoad); otherwise the fence is saved and only then the exchange   *)
(* starts.                                                                 *)
(***************************************************************************)
Unfenced(row) == row.live /\ row.fence = 0
VertexReserve(c) ==
  LET id == vlast + 1 IN
  /\ vcall[c].pc = "idle" /\ Unfenced(vrow) /\ vlast < MaxExchanges
  /\ vrow' = [vrow EXCEPT !.fence = id, !.fgen = vrow.gen]
  /\ vactive' = id /\ vlast' = id /\ vsent' = vsent + 1
  /\ vcall' = [vcall EXCEPT ![c] = [pc |-> "sent", id |-> id, gen |-> vrow.gen,
                                    key |-> vrow.key, stopped |-> FALSE]]
  /\ UNCHANGED <<vrestarts, vsaved>>
VertexLoad ==
  /\ vrow' = Diagnosed(vrow)
  /\ UNCHANGED <<vactive, vcall, vlast, vrestarts, vsent, vsaved>>

(***************************************************************************)
(* The token arrives and is well formed, or the exchange fails; the caller *)
(* or the deadline may stop it at any time.                                *)
(***************************************************************************)
VertexAnswer(c) ==
  /\ vcall[c].pc = "sent"
  /\ \E pc \in {"answered", "failed"} : vcall' = [vcall EXCEPT ![c].pc = pc]
  /\ UNCHANGED <<vrow, vactive, vlast, vrestarts, vsent, vsaved>>
VertexStop(c) ==
  /\ vcall[c].pc \in {"sent", "answered"} /\ ~vcall[c].stopped
  /\ vcall' = [vcall EXCEPT ![c].stopped = TRUE]
  /\ UNCHANGED <<vrow, vactive, vlast, vrestarts, vsent, vsaved>>

(***************************************************************************)
(* same: the row is the one that was fenced.                               *)
(***************************************************************************)
Same(row, c) ==
  /\ row.live /\ row.diag \notin AtRisk /\ row.gen = vcall[c].gen
  /\ row.key = vcall[c].key /\ row.fence = vcall[c].id /\ row.fgen = row.gen

(***************************************************************************)
(* finally: the handler is over, and with it the service of its fence.     *)
(***************************************************************************)
MutRetired(id) == vactive
Retired(id) == IF vactive = id THEN 0 ELSE vactive
VertexOver(c) ==
  /\ vcall' = [vcall EXCEPT ![c].pc = "done"] /\ vactive' = Retired(vcall[c].id)

(***************************************************************************)
(* Settlement.  The new token, the next generation and the end of the      *)
(* fence are one write.  A write that throws is read back: committed after *)
(* all, or kept as provider_ok_persist_failed under the original fence.    *)
(***************************************************************************)
MutCommitted(row) == [row EXCEPT !.gen = row.gen + 1, !.token = row.key, !.diag = "none"]
Committed(row) ==
  [row EXCEPT !.gen = row.gen + 1, !.token = row.key, !.fence = 0, !.fgen = 0,
              !.diag = "none"]
VertexSettle(c) ==
  /\ vcall[c].pc = "answered" /\ ~vcall[c].stopped /\ Same(vrow, c)
  /\ vrow.gen < MaxVertexGen
  /\ vrow' = Committed(vrow) /\ vsaved' = vsaved + 1
  /\ VertexOver(c)
  /\ UNCHANGED <<vlast, vrestarts, vsent>>
VertexUnsaved(c) ==
  /\ vcall[c].pc = "answered" /\ ~vcall[c].stopped /\ Same(vrow, c)
  /\ vrow' = [vrow EXCEPT !.diag = "provider_ok_persist_failed"]
  /\ VertexOver(c)
  /\ UNCHANGED <<vlast, vrestarts, vsent, vsaved>>

(***************************************************************************)
(* catch: stopped, failed, expired or changed.  The row that was fenced is *)
(* diagnosed ambiguous and keeps its fence; any other is left alone.       *)
(***************************************************************************)
Absolved(row) == [row EXCEPT !.diag = "ambiguous"]
VertexFails(c) ==
  /\ \/ vcall[c].pc \in {"failed", "answered"}
     \/ vcall[c].pc = "sent" /\ vcall[c].stopped
  /\ vrow' = IF Same(vrow, c) THEN Absolved(vrow) ELSE vrow
  /\ VertexOver(c)
  /\ UNCHANGED <<vlast, vrestarts, vsent, vsaved>>

(***************************************************************************)
(* /put and /revoke cancel the exchange in flight; the mutation may then   *)
(* be refused.  A put that keeps the signing key keeps the token and the   *)
(* fence with its diagnosis; a new key starts without both; revocation     *)
(* removes every secret.                                                   *)
(***************************************************************************)
StoppedExchanges == [c \in Exchanges |-> IF vactive # 0 /\ vcall[c].id = vactive
                                  THEN [vcall[c] EXCEPT !.stopped = TRUE] ELSE vcall[c]]
MutRekeyed(row, k) ==
  [row EXCEPT !.gen = @ + 1, !.key = k, !.live = TRUE, !.fence = 0, !.fgen = 0,
              !.diag = "none"]
Rekeyed(row, k) ==
  IF k = row.key THEN [row EXCEPT !.gen = @ + 1]
  ELSE [gen |-> row.gen + 1, key |-> k, live |-> TRUE, fence |-> 0, fgen |-> 0,
        diag |-> "none", token |-> 0]
VertexPut(k) ==
  /\ vrow.gen < MaxVertexGen
  /\ vcall' = StoppedExchanges
  /\ \/ vrow' = Diagnosed(vrow) /\ UNCHANGED <<vsent, vsaved>>
     \/ /\ vrow' = Rekeyed(Diagnosed(vrow), k)
        /\ IF k = vrow.key THEN UNCHANGED <<vsent, vsaved>> ELSE vsent' = 0 /\ vsaved' = 0
  /\ UNCHANGED <<vactive, vlast, vrestarts>>
VertexRevoke ==
  /\ vrow.live /\ vrow.gen < MaxVertexGen
  /\ vcall' = StoppedExchanges
  /\ vrow' = [gen |-> vrow.gen + 1, key |-> 0, live |-> FALSE, fence |-> 0, fgen |-> 0,
              diag |-> "none", token |-> 0]
  /\ vsent' = 0 /\ vsaved' = 0
  /\ UNCHANGED <<vactive, vlast, vrestarts>>

(***************************************************************************)
(* The object restarts: handlers and active are gone, the row stays.       *)
(***************************************************************************)
VertexCrash ==
  /\ vrestarts < MaxRestarts /\ vrestarts' = vrestarts + 1
  /\ vactive' = 0
  /\ vcall' = [c \in Exchanges |->
                 IF vcall[c].pc = "idle" THEN vcall[c] ELSE [vcall[c] EXCEPT !.pc = "done"]]
  /\ UNCHANGED <<vrow, vlast, vsent, vsaved>>

VertexNext ==
  \/ \E c \in Exchanges :
       \/ VertexReserve(c) \/ VertexAnswer(c) \/ VertexStop(c) \/ VertexSettle(c)
       \/ VertexUnsaved(c) \/ VertexFails(c)
  \/ \E k \in SigningKeys : VertexPut(k)
  \/ VertexLoad \/ VertexRevoke \/ VertexCrash

VertexSpec == VertexInit /\ [][VertexNext]_vertexVars

-----------------------------------------------------------------------------
(***************************************************************************)
(* Types of the row and the handlers; an attempt is served by a handler    *)
(* that still runs.                                                        *)
(***************************************************************************)
VertexTypeOK ==
  /\ vrow \in [gen : Nat, key : SigningKeys \cup {0}, live : BOOLEAN, fence : Nat, fgen : Nat,
               diag : {"none"} \cup AtRisk, token : SigningKeys \cup {0}]
  /\ vactive \in Nat /\ vlast \in Nat /\ vrestarts \in Nat
  /\ vsent \in Nat /\ vsaved \in Nat
  /\ vcall \in [Exchanges -> [pc : {"idle", "sent", "answered", "failed", "done"},
                              id : Nat, gen : Nat, key : SigningKeys \cup {0},
                              stopped : BOOLEAN]]
  /\ vactive # 0 => \E c \in Exchanges :
                      vcall[c].id = vactive /\ vcall[c].pc \notin {"idle", "done"}

(***************************************************************************)
(* An assertion signed with the installed key goes out again only after    *)
(* the answer to the previous one was stored.  Whatever was lost between   *)
(* (the answer, the write, the object, a metadata edit in the middle), the *)
(* fence is on the row until the key is replaced or revoked.               *)
(***************************************************************************)
UnsettledIsFenced ==
  /\ vsaved <= vsent /\ vsent <= vsaved + 1
  /\ vrow.fence # 0 <=> vsent = vsaved + 1

(***************************************************************************)
(* The stored access token was minted by the installed key: an answer to   *)
(* an exchange of a replaced or revoked key is dropped.                    *)
(***************************************************************************)
TokenOfKey == vrow.token \in {0, vrow.key} /\ (vrow.live => vrow.key # 0)

(***************************************************************************)
(* While the exchange of the row's fence is running unstopped, no other    *)
(* load of the record diagnoses it: its good answer could no longer be     *)
(* stored and the key would be blocked for nothing.                        *)
(***************************************************************************)
ServedNotDiagnosed ==
  \A c \in Exchanges :
    (/\ vcall[c].pc \in {"sent", "answered"} /\ ~vcall[c].stopped
     /\ vrow.fence = vcall[c].id) => vrow.diag = "none"

(* A service-account key is exchanged by one sender at a time: a second    *)
(* assertion goes out only after the first was settled, and its token and  *)
(* its diagnosis are those of the installed key and the running exchange.  *)
VertexSafe == VertexTypeOK /\ UnsettledIsFenced /\ TokenOfKey /\ ServedNotDiagnosed
============================================================================
