------------------------- MODULE CredentialAuthority -------------------------
(***************************************************************************)
(* Proxy keys on the authority object (worker/authority.ts): their         *)
(* mutations (worker/credentials.ts, worker/credential-mutation.ts), the   *)
(* admission that looks one up (worker/authority-admission.ts) and selects *)
(* a grant for it (worker/authority-grant-selection.ts), and the import of *)
(* the legacy KV records, which never ended: keys, users, policies and     *)
(* bindings are still taken over one by one when they are first missed, or *)
(* as a whole table when somebody lists it.                                *)
(*                                                                         *)
(* The object runs between two awaits without interruption, so an action   *)
(* is what happens from one await to the next.  One policy; a member's     *)
(* bindings are whether it holds that policy.  KV is read only.            *)
(***************************************************************************)
EXTENDS Integers, FiniteSets, SequencesExt

CONSTANTS KeyIds,          \* credential ids, in the order of localeCompare
          Members,         \* principals
          Snapshots,       \* contents of KV, with the edits and lookups to come
          Editors,         \* handlers of the credential API
          Admissions,      \* requests to the proxy
          MaxChanges,      \* bound: other changes by administrators
          KeyLimit,        \* selfServiceCredentialLimit
          RetentionLimit,  \* selfServiceCredentialRetentionLimit
          Missing,         \* no record
          Untouched        \* no mutation yet

ASSUME AuthorityType ==
  /\ IsFiniteSet(KeyIds) /\ KeyLimit \in Nat
  /\ Missing \notin {"on", "off"}
  /\ \A s \in Snapshots : \A e \in DOMAIN s.edits : s.edits[e].key \in KeyIds

Tables == {"credentials", "users", "policies", "bindings"}

VARIABLES kv,       \* the legacy records
          meta,     \* tables marked *_global_initialized
          cred,     \* proxy_credentials
          user,     \* access_users: on, off or Missing
          policy,   \* access_policies: on, off or Missing
          holds,    \* policy_binding_principals: yes, no or Missing
          changes,  \* other administrative changes so far
          editor,   \* handlers of the credential API
          adm,      \* admissions
          last      \* the outcome of the last mutation of each key

authorityVars == <<kv, meta, cred, user, policy, holds, changes, editor, adm, last>>

AuthorityInit ==
  /\ kv \in Snapshots /\ meta = {}
  /\ cred = [k \in KeyIds |-> Missing] /\ user = [m \in Members |-> Missing]
  /\ policy = Missing /\ holds = [m \in Members |-> Missing] /\ changes = 0
  /\ editor = [e \in Editors |-> [pc |-> "idle", import |-> [t \in Tables |-> "none"]]]
  /\ adm = [a \in Admissions |-> [pc |-> "idle", key |-> 0, secret |-> 0, row |-> Missing]]
  /\ last = [k \in KeyIds |-> Untouched]

(***************************************************************************)
(* initializeCredentials, initializePolicies, initializeUsers and          *)
(* initializeBindings on a set of ids: nothing once the table is marked,   *)
(* and a record that is present wins over the imported one.                *)
(***************************************************************************)
MutImported(table, rows, legacy, ids) ==
  [i \in DOMAIN rows |-> IF i \in ids /\ rows[i] = Missing THEN legacy[i] ELSE rows[i]]
Imported(table, rows, legacy, ids) ==
  [i \in DOMAIN rows |-> IF table \notin meta /\ i \in ids /\ rows[i] = Missing
                         THEN legacy[i] ELSE rows[i]]
ImportedPolicy ==
  IF "policies" \notin meta /\ policy = Missing THEN kv.policy ELSE policy

(* What a lookup would find now, the KV record of an open table included.  *)
Effective(table, rows, legacy) == Imported(table, rows, legacy, DOMAIN rows)

(***************************************************************************)
(* The credential API.  Every table is listed first, all at once; a list   *)
(* of an unmarked table reads KV and then imports it whole.  (A list that  *)
(* finds the table marked and an import that does so are alike: KV does    *)
(* not change.)  The handler goes on when every list has ended, and fails  *)
(* if one did.                                                             *)
(***************************************************************************)
EditBegins(e) ==
  /\ editor[e].pc = "idle" /\ e \in DOMAIN kv.edits
  /\ editor' = [editor EXCEPT ![e] =
       [pc |-> "listing",
        import |-> [t \in Tables |->
          IF t = "bindings" /\ kv.edits[e].scope # "personal" THEN "done" ELSE "asked"]]]
  /\ UNCHANGED <<kv, meta, cred, user, policy, holds, changes, adm, last>>

ImportTable(e, t) ==
  /\ editor[e].pc = "listing" /\ editor[e].import[t] = "asked"
  /\ \/ /\ meta' = meta \cup {t}
        /\ cred' = IF t = "credentials"
                   THEN Imported(t, cred, kv.cred, KeyIds) ELSE cred
        /\ user' = IF t = "users" THEN Imported(t, user, kv.user, Members) ELSE user
        /\ holds' = IF t = "bindings" THEN Imported(t, holds, kv.holds, Members) ELSE holds
        /\ policy' = IF t = "policies" THEN ImportedPolicy ELSE policy
        /\ editor' = [editor EXCEPT ![e].import[t] = "done"]
     \/ /\ editor' = [editor EXCEPT ![e].import[t] = "failed"]
        /\ UNCHANGED <<meta, cred, user, policy, holds>>
  /\ UNCHANGED <<kv, changes, adm, last>>

ListsFail(e) ==
  /\ editor[e].pc = "listing"
  /\ \A t \in Tables : editor[e].import[t] \in {"done", "failed"}
  /\ \E t \in Tables : editor[e].import[t] = "failed"
  /\ editor' = [editor EXCEPT ![e].pc = "done"]
  /\ UNCHANGED <<kv, meta, cred, user, policy, holds, changes, adm, last>>

MutListed(e) == \E t \in Tables : editor[e].import[t] = "done"
Listed(e) == \A t \in Tables : editor[e].import[t] = "done"

(***************************************************************************)
(* mutateCredential, in the order of its checks.  A personal request acts  *)
(* for its member, an administrator's for anybody.                         *)
(***************************************************************************)
HoldsPolicy(m) == user[m] = "on" /\ policy = "on" /\ holds[m] = "yes"
OwnerOn(row) == row.who \in Members => user[row.who] # "off"

Permitted(edit) ==
  LET row == cred[edit.key] IN
  /\ edit.scope = "personal" => user[edit.who] = "on"
  /\ edit.op = "create" => row = Missing
  /\ edit.op \in {"rotate", "revoke", "rename"} => row # Missing
  /\ edit.scope = "personal" /\ row # Missing => row.who = edit.who
  /\ edit.op = "rotate" => row.on /\ policy = "on" /\ row.current /\ OwnerOn(row)
  /\ edit.op \notin {"revoke", "rename"} =>
       IF edit.scope = "personal" THEN HoldsPolicy(edit.who) ELSE policy # Missing

OwnedKeys(m, key) == {k \in KeyIds \ {key} : cred[k] # Missing /\ cred[k].who = m}
LiveKeys(m, rows) == {k \in KeyIds : rows[k] # Missing /\ rows[k].who = m /\ rows[k].on}

(* The retention limit makes room by deleting revoked keys in id order.    *)
Excess(edit) ==
  IF edit.scope = "personal" /\ edit.op \in {"create", "put"} /\ cred[edit.key] = Missing
  THEN Cardinality(OwnedKeys(edit.who, edit.key)) - RetentionLimit + 1 ELSE 0
Revoked(edit) == SetToSortSeq({k \in OwnedKeys(edit.who, edit.key) : ~cred[k].on}, <)
Pruned(edit) == {Revoked(edit)[i] : i \in 1..Excess(edit)}
HasRoom(edit) ==
  edit.scope = "personal" /\ edit.op \in {"create", "put"} =>
    /\ Cardinality(LiveKeys(edit.who, cred) \ {edit.key}) < KeyLimit
    /\ Excess(edit) <= Len(Revoked(edit))

(* nextCredential: create and put write a key bound to the policy's        *)
(* generation; rotate, revoke and rename (whose name is not modelled)      *)
(* change the row that is there.                                           *)
NextCredential(edit) ==
  CASE edit.op = "rotate" -> [cred[edit.key] EXCEPT !.secret = edit.secret]
    [] edit.op = "revoke" -> [cred[edit.key] EXCEPT !.on = FALSE]
    [] edit.op = "rename" -> cred[edit.key]
    [] OTHER -> [who |-> edit.who, on |-> TRUE, secret |-> edit.secret, current |-> TRUE]

Mutated(edit) ==
  [k \in KeyIds |-> IF k = edit.key THEN NextCredential(edit)
                    ELSE IF k \in Pruned(edit) THEN Missing ELSE cred[k]]

MutateCredential(e) ==
  LET edit == kv.edits[e] IN
  /\ editor[e].pc = "listing" /\ Listed(e)
  /\ IF Permitted(edit) /\ HasRoom(edit)
     THEN /\ cred' = Mutated(edit)
          /\ last' = [k \in KeyIds |->
                        IF k = edit.key \/ k \in Pruned(edit) THEN Mutated(edit)[k]
                        ELSE last[k]]
          /\ editor' = [editor EXCEPT ![e].pc = "updated"]
     ELSE /\ editor' = [editor EXCEPT ![e].pc = "done"]
          /\ UNCHANGED <<cred, last>>
  /\ UNCHANGED <<kv, meta, user, policy, holds, changes, adm>>

(***************************************************************************)
(* The other administration: a policy is disabled or enabled, a member     *)
(* likewise, a binding is set.  Each handler has listed its table.         *)
(***************************************************************************)
Change == changes < MaxChanges /\ changes' = changes + 1
PutPolicy(on) ==
  /\ Change /\ "policies" \in meta /\ policy # Missing
  /\ policy' = on
  /\ UNCHANGED <<kv, meta, cred, user, holds, editor, adm, last>>
PutUser(m, on) ==
  /\ Change /\ "users" \in meta
  /\ user' = [user EXCEPT ![m] = on]
  /\ UNCHANGED <<kv, meta, cred, policy, holds, editor, adm, last>>
PutBinding(m, on) ==
  /\ Change /\ "bindings" \in meta
  /\ holds' = [holds EXCEPT ![m] = on]
  /\ UNCHANGED <<kv, meta, cred, user, policy, editor, adm, last>>

(***************************************************************************)
(* resolveAdmission.  Key, policy and owner are read in turn; one that is  *)
(* missing from an unmarked table is read from KV, imported and read       *)
(* again.  AdmitKey, AdmitPolicy and AdmitOwner are the synchronous run up  *)
(* to the next KV read, an early return, or finishAdmissionSelection.      *)
(***************************************************************************)
KeyUsable(row, secret, pol, users) ==
  /\ row # Missing
  /\ row.secret = secret /\ row.on /\ pol = "on" /\ row.current
  /\ row.who \in Members => users[row.who] # "off"

AdmitOwner(row) ==
  IF row.who \in Members /\ user[row.who] = Missing /\ "users" \notin meta THEN "user"
  ELSE IF OwnerOn(row) THEN "finish" ELSE "denied"
AdmitPolicy(row, pol) ==
  IF row.on /\ pol = "on" /\ row.current THEN AdmitOwner(row) ELSE "denied"
AdmitKey(row, secret) ==
  IF row = Missing \/ row.secret # secret THEN "denied"
  ELSE IF policy = Missing /\ "policies" \notin meta THEN "policy"
  ELSE AdmitPolicy(row, policy)

AdmissionBegins(a, key, secret) ==
  LET row == cred[key] IN
  /\ adm[a].pc = "idle"
  /\ adm' = [adm EXCEPT ![a] = [key |-> key, secret |-> secret, row |-> row,
       pc |-> IF row = Missing /\ "credentials" \notin meta
              THEN "credential" ELSE AdmitKey(row, secret)]]
  /\ UNCHANGED <<kv, meta, cred, user, policy, holds, changes, editor, last>>
AdmissionImportsKey(a) ==
  LET rows == Imported("credentials", cred, kv.cred, {adm[a].key}) IN
  /\ adm[a].pc = "credential"
  /\ cred' = rows
  /\ adm' = [adm EXCEPT ![a].row = rows[adm[a].key],
                        ![a].pc = AdmitKey(rows[adm[a].key], adm[a].secret)]
  /\ UNCHANGED <<kv, meta, user, policy, holds, changes, editor, last>>
AdmissionImportsPolicy(a) ==
  /\ adm[a].pc = "policy"
  /\ policy' = ImportedPolicy
  /\ adm' = [adm EXCEPT ![a].pc = AdmitPolicy(adm[a].row, ImportedPolicy)]
  /\ UNCHANGED <<kv, meta, cred, user, holds, changes, editor, last>>
AdmissionImportsOwner(a) ==
  LET rows == Imported("users", user, kv.user, {adm[a].row.who}) IN
  /\ adm[a].pc = "user"
  /\ user' = rows
  /\ adm' = [adm EXCEPT ![a].pc =
               IF rows[adm[a].row.who] = "off" THEN "denied" ELSE "finish"]
  /\ UNCHANGED <<kv, meta, cred, policy, holds, changes, editor, last>>

(* finishAdmissionSelection: hashing yielded, so key, policy and owner are *)
(* read once more in the transaction that selects; a key that changed      *)
(* hands is not served.                                                    *)
MutReread(a) == adm[a].row
Reread(a) == cred[adm[a].key]
AdmissionSelects(a) ==
  LET row == Reread(a) IN
  /\ adm[a].pc = "finish"
  /\ adm' = [adm EXCEPT ![a].pc =
       IF KeyUsable(row, adm[a].secret, policy, user) /\ row.who = adm[a].row.who
       THEN "selected" ELSE "denied"]
  /\ UNCHANGED <<kv, meta, cred, user, policy, holds, changes, editor, last>>

AuthorityNext ==
  \/ \E e \in Editors :
       \/ EditBegins(e)
       \/ \E t \in Tables : ImportTable(e, t)
       \/ ListsFail(e)
       \/ MutateCredential(e)
  \/ \E on \in {"on", "off"} : PutPolicy(on) \/ \E m \in Members : PutUser(m, on)
  \/ \E m \in Members, on \in {"yes", "no"} : PutBinding(m, on)
  \/ \E a \in Admissions :
       \/ \E look \in kv.lookups : AdmissionBegins(a, look[1], look[2])
       \/ AdmissionImportsKey(a)
       \/ AdmissionImportsPolicy(a)
       \/ AdmissionImportsOwner(a)
       \/ AdmissionSelects(a)

AuthoritySpec == AuthorityInit /\ [][AuthorityNext]_authorityVars

-----------------------------------------------------------------------------

(* A mutation stands: whatever KV reads were pending while a key was       *)
(* written, revoked or pruned, the row is what the last mutation made it,  *)
(* and a pruned key does not come back from KV ("Imported snapshots never  *)
(* overwrite writes made while these reads are pending").                  *)
MutationsStand ==
  \A k \in KeyIds : last[k] # Untouched => cred[k] = last[k]

(* The legacy keys count: when a personal key has been created or put, the *)
(* member's enabled keys, those still waiting in KV included, are within   *)
(* the limit, and a created id was free in both places.                    *)
LegacyKeysCount ==
  \A e \in Editors : LET edit == kv.edits[e] IN
       editor[e].pc = "listing" /\ editor'[e].pc = "updated" =>
         /\ edit.op = "create" =>
              Effective("credentials", cred, kv.cred)[edit.key] = Missing
         /\ edit.scope = "personal" /\ edit.op \in {"create", "put"} =>
              Cardinality(LiveKeys(edit.who, Effective("credentials", cred', kv.cred)))
                <= KeyLimit

(* A grant is selected only for a key that is usable in that very step:    *)
(* present, not revoked, of the given secret, under an enabled policy, its *)
(* owner not disabled in the table or, before the import, in KV.           *)
SelectionIsCurrent ==
  \A a \in Admissions : adm[a].pc = "finish" /\ adm'[a].pc = "selected" =>
       KeyUsable(cred[adm[a].key], adm[a].secret, policy,
              Effective("users", user, kv.user))

(* Every check holds in the step it decides: limits and free ids count     *)
(* what still waits in KV, and a selection sees the rows as they are after *)
(* its reads yielded (authority.ts, authority-grant-selection.ts).         *)
KeysChecked == [][LegacyKeysCount /\ SelectionIsCurrent]_authorityVars
=============================================================================
