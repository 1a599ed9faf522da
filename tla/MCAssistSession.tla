-------------------------- MODULE MCAssistSession --------------------------
(* Instances of AssistSession for TLC. *)
EXTENDS AssistSession, TLC

CONSTANTS s1, s2

TwoSlots == {s1, s2}
SlotSymmetry == Permutations(TwoSlots)
=============================================================================
