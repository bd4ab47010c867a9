---------------------------- MODULE MCAccounting ----------------------------
(* Instances of Accounting for TLC.                                        *)
EXTENDS Accounting

CONSTANTS r1, r2, policy, provider

OneRequest == {r1}
TwoRequests == {r1, r2}
TwoLegs == {policy, provider}
OneRequestTwoLegs == OneRequest \X TwoLegs

(* The first request is held to both budgets, the second to one of them.   *)
SharedPolicy == OneRequestTwoLegs \cup {<<r2, policy>>}

AllModes == {"fused", "split", "soft"}
FusedOnly == {"fused"}

(* All of a run happens in one window of every leg.                        *)
OneWindow == [k \in Kinds |-> [t \in 0..MaxTime |-> 0]]
NoDebt == [w \in Windows |-> 0]

(* A request alone meets every fault and price; with a fused second one    *)
(* that competes with it, at most one fault and no overrun.                *)
Contended == pc[r2] = "idle" \/ (faults <= 1 /\ \A r \in Requests : outcome[r] <= Cost)
ContendSpec ==
  Init /\ mode[r2] = "fused" /\ [][Next /\ Contended']_vars /\ Fairness
=============================================================================
