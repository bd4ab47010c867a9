------------------------------ MODULE MCScope ------------------------------
(* Small instances of what the owner of a scope keeps: background jobs     *)
(* with one idempotency key, and response identities.  A behaviour picks   *)
(* one part and runs it alone; the other keeps its initial state.          *)
EXTENDS MCBackgroundJobs, Continuations

VARIABLE part

Wants(continues, own, turn, id) ==
  [continues |-> continues, owner |-> "a", own |-> own, turn |-> turn, id |-> id]
On(route, wants) == [wants EXCEPT !.owner = route]
Asked(first, second, third, old) == [request |-> <<first, second, third>>, old |-> old]

(* A response with hosted tools and its continuation; one without and its  *)
(* continuation in the same turn; an identity that upstream gives to two   *)
(* requests, on one route, continued by a third, or on two; an identity    *)
(* that a worker of an older release registers as well.                    *)
Continued ==
  Asked(Wants({}, "hosted_tool_fee", {"t"}, "r1"), Wants({"r1"}, "token_only", {}, "r2"), Unset, {})
ContinuationPlans ==
  {Continued,
   Asked(Wants({}, "token_only", {"t"}, "r1"),
         Wants({"r1", "t"}, "hosted_tool_fee", {"t"}, "r2"), Unset, {}),
   Asked(Wants({}, "hosted_tool_fee", {}, "r1"), Wants({}, "token_only", {}, "r1"),
         Wants({"r1"}, "token_only", {}, Unset), {}),
   Asked(Wants({}, "token_only", {}, "r1"), On("b", Wants({}, "token_only", {}, "r1")), Unset, {}),
   Asked(Wants({}, "token_only", {}, "r1"), Wants({"r1"}, "token_only", {"t"}, "r1"), Unset,
         {<<"r1", "a">>})}

ScopeInit ==
  /\ part \in {"jobs", "identities"}
  /\ Init /\ ContinuationInit
  /\ part # "identities" => plan = Continued

ScopeNext ==
  \/ part = "jobs" /\ Next /\ UNCHANGED <<part, continuationVars>>
  \/ part = "identities" /\ ContinuationNext /\ UNCHANGED <<part, vars>>

ScopeSpec == ScopeInit /\ [][ScopeNext]_<<part, vars, continuationVars>>
=============================================================================
