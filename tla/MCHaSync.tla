------------------------------ MODULE MCHaSync ------------------------------
(* Instances of HaSync for TLC. *)
EXTENDS HaSync, TLC

CONSTANTS t1, t2

TwoPollers == {t1, t2}

\* No name contains another one.
Distinct == [e \in 1 .. N |-> {}]
\* "light.kitchen" and "light.kitchen_2": Converges then says nothing of the first button,
\* which may show the second one for good.
FirstInSecond == [e \in 1 .. N |-> IF e = 1 THEN {2} ELSE {}]
=============================================================================
