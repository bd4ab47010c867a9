--------------------------- MODULE MCBudgetLedger ---------------------------
(* Instances of BudgetLedger for TLC.                                      *)
EXTENDS BudgetLedger

CONSTANTS i1, i2, s1, month

TwoIds == {i1, i2}
OneScope == {s1}
MonthOnly == {month}

(* Months of two ticks.                                                    *)
Calendar == [k \in MonthOnly |-> [t \in 0..MaxTime |-> t \div 2]]

(* The first window still carries one micro of legacy debt.                *)
DebtInFirstWindow == [w \in Windows |-> IF w[2] = 0 THEN 1 ELSE 0]

=============================================================================
