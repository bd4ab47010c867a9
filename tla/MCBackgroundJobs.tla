------------------------- MODULE MCBackgroundJobs -------------------------
(* Instances of BackgroundJobs for TLC.                                    *)
EXTENDS BackgroundJobs

CONSTANTS j1, j2, j3, policy, key

(* A managed job held to one budget; in the other instance two attempts    *)
(* with one key and a Responses job, held to none.                         *)
FirstHeld == {<<j1, policy>>}
OneKey == [j \in Jobs |-> IF j \in Managed THEN key ELSE NoKey]

(* The first attempt comes at once, the second after its admission or      *)
(* after its replay window, and the Responses job with or before the       *)
(* second.                                                                 *)
Attempts == [j \in Jobs |-> CASE j = j1 -> {0} [] j = j2 -> {1, 5} [] j = j3 -> {1}]

Months == [k \in Kinds |-> [t \in 0..MaxTime |-> IF t > Retention THEN 1 ELSE 0]]
NoDebt == [w \in Windows |-> 0]
===========================================================================
