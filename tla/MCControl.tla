----------------------------- MODULE MCControl -----------------------------
(* Small instances of what stands before a request's dispatch: cached      *)
(* admissions, proxy keys, budget overrides, submission tickets and the    *)
(* soft budget check.  These models share no state, so a behaviour picks   *)
(* one part and runs it alone; the others keep one of their initial        *)
(* states.                                                                 *)
EXTENDS AdmissionCache, CredentialAuthority, BudgetCaps, Submissions,
        SoftBudget, TLC

VARIABLE part

(* Two requests in one isolate or one in each of two; one of them may be a *)
(* failover or bring another secret; one isolate changes grants or         *)
(* observes rejections.                                                    *)
Two(x, y, z, ch, obs) ==
  [home |-> 1 :> "i" @@ 2 :> "i" @@ 3 :> "j",
   manner |-> 1 :> x @@ 2 :> y @@ 3 :> z,
   changes |-> ch, observes |-> obs]
Together == Two("plain", "plain", "absent", {"i"}, {})
CacheScenes ==
  {Together,
   Two("plain", "absent", "plain", {"i"}, {}),
   Two("plain", "failover", "absent", {}, {"i"}),
   Two("plain", "stranger", "absent", {"i"}, {}),
   Two("plain", "absent", "plain", {}, {"i"})}

(* Contents of KV, with two edits and the lookups of the admission: a full *)
(* set of keys, a free id, keys of two members, a key of nobody.           *)
OldKey(who, on) == [who |-> who, on |-> on, secret |-> 1, current |-> TRUE]
Edit(scope, op, key, who) ==
  [scope |-> scope, op |-> op, key |-> key, who |-> who, secret |-> 2]
Legacy(keys, first, second, lookups) ==
  [cred |-> keys, user |-> "u" :> "on" @@ "v" :> "off", policy |-> "on",
   holds |-> "u" :> "yes" @@ "v" :> "yes", edits |-> <<first, second>>,
   lookups |-> lookups]
FullSet ==
  Legacy(<<OldKey("u", FALSE), OldKey("u", TRUE), Missing>>,
         Edit("personal", "create", 3, "u"), Edit("personal", "revoke", 2, "u"),
         {<<2, 1>>})
AuthoritySnapshots ==
  {FullSet,
   Legacy(<<OldKey("u", TRUE), Missing, Missing>>,
          Edit("personal", "create", 2, "u"), Edit("personal", "put", 3, "u"), {<<1, 1>>}),
   Legacy(<<OldKey("u", TRUE), OldKey("v", TRUE), Missing>>,
          Edit("personal", "rotate", 1, "u"), Edit("admin", "put", 1, "v"),
          {<<1, 1>>, <<1, 2>>, <<2, 1>>}),
   Legacy(<<OldKey("nobody", TRUE), Missing, Missing>>,
          Edit("admin", "create", 1, "u"), Edit("admin", "revoke", 1, "u"), {<<1, 1>>}),
   Legacy(<<OldKey("u", TRUE), Missing, Missing>>,
          Edit("personal", "rename", 1, "u"), Edit("admin", "revoke", 1, "u"), {<<1, 1>>})}

ControlInit ==
  /\ part \in {"cache", "authority", "caps", "ticket", "soft"}
  /\ CacheInit /\ AuthorityInit /\ CapsInit /\ SubmitInit /\ SoftInit
  /\ part # "cache" => scene = Together
  /\ part # "authority" => kv = FullSet
  /\ part # "soft" => softLimit = [l \in SoftLegs |-> 1]

ControlNext ==
  \/ /\ part = "cache" /\ CacheNext
     /\ UNCHANGED <<part, authorityVars, capsVars, ticketVars, softVars>>
  \/ /\ part = "authority" /\ AuthorityNext
     /\ UNCHANGED <<part, cacheVars, capsVars, ticketVars, softVars>>
  \/ /\ part = "caps" /\ CapsNext
     /\ UNCHANGED <<part, cacheVars, authorityVars, ticketVars, softVars>>
  \/ /\ part = "ticket" /\ SubmitNext
     /\ UNCHANGED <<part, cacheVars, authorityVars, capsVars, softVars>>
  \/ /\ part = "soft" /\ SoftNext
     /\ UNCHANGED <<part, cacheVars, authorityVars, capsVars, ticketVars>>

ControlSpec ==
  /\ ControlInit
  /\ [][ControlNext]_<<part, cacheVars, authorityVars, capsVars, ticketVars, softVars>>
=============================================================================
