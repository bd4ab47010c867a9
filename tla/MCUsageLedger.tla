---------------------------- MODULE MCUsageLedger ----------------------------
(* Instances of UsageLedger for TLC.                                       *)
EXTENDS UsageLedger, TLC

CONSTANTS e1, e2

TwoIds == {e1, e2}

(* "A" and "a" are one principal, in two spellings; "x" is text that is no *)
(* email address, which no event of this instance has.                     *)
Written == {"a", "A", "x"}
Principal == [i \in Ids |-> IF i = e1 THEN "a" ELSE "A"]
NormalizeEmail == [raw \in Written |-> IF raw = "x" THEN Null ELSE "a"]
=============================================================================
