---------------------------- MODULE BudgetReceipt ----------------------------
(***************************************************************************)
(* What a budget ledger promises about each reservation or charge id,      *)
(* whoever calls it and in whatever order: the life of one receipt.        *)
(*                                                                         *)
(*   absent --> held --> owed --> final      (reserve, dispatch, settle)   *)
(*   absent --> owed                         (reserve with dispatched)     *)
(*   absent --> final                        (charge)                      *)
(*   held   --> final at zero                (release or lease expiry)     *)
(*                                                                         *)
(* A held or owed receipt keeps the amount it was made with; only a        *)
(* settlement prices an owed one; a final one never changes again.  A held *)
(* receipt becomes owed within its lease only.  A receipt may be forgotten *)
(* only after the retention has passed since it was made.  One step of the *)
(* ledger may move several receipts: maintain() sweeps the whole table.    *)
(***************************************************************************)
EXTENDS Integers

CONSTANTS Ids, MaxMicros, Lease, Retention

VARIABLES phase, micros, born, now

vars == <<phase, micros, born, now>>

Init == /\ phase = [i \in Ids |-> "absent"]
        /\ micros = [i \in Ids |-> 0]
        /\ born = [i \in Ids |-> 0]
        /\ now = 0

Stays(i) == phase'[i] = phase[i] /\ micros'[i] = micros[i] /\ born'[i] = born[i]

(* reserve, reserve with dispatched: TRUE, or charge.                      *)
Make(i) == /\ phase'[i] \in {"held", "owed", "final"}
           /\ micros'[i] \in 0..MaxMicros
           /\ born'[i] = now

Commit(i) == /\ phase[i] = "held" /\ phase'[i] = "owed"
             /\ now < born[i] + Lease
             /\ micros'[i] = micros[i] /\ born'[i] = born[i]

Release(i) == /\ phase[i] = "held" /\ phase'[i] = "final"
              /\ micros'[i] = 0 /\ born'[i] = born[i]

Price(i) == /\ phase[i] = "owed" /\ phase'[i] = "final"
            /\ micros'[i] \in 0..MaxMicros /\ born'[i] = born[i]

Forget(i) == /\ phase[i] # "absent"
             /\ born[i] + Retention < now
             /\ phase'[i] = "absent" /\ micros'[i] = 0 /\ born'[i] = 0

Move(i) == \/ Stays(i)
           \/ phase[i] = "absent" /\ Make(i)
           \/ Commit(i) \/ Release(i) \/ Price(i) \/ Forget(i)

Next == \/ now' = now /\ \A i \in Ids : Move(i)
        \/ now' > now /\ \A i \in Ids : Stays(i)

Spec == Init /\ [][Next]_vars
=============================================================================
