---------------------------- MODULE MCOtaUpdate ----------------------------
(* Instances of OtaUpdate for TLC. *)
EXTENDS OtaUpdate, TLC

CONSTANTS i1, i2, i3, i4, c1, c2

FourInodes == {i1, i2, i3, i4}
TwoCurls == {c1, c2}
OtaSymmetry == Permutations(FourInodes) \cup Permutations(TwoCurls)
=============================================================================
