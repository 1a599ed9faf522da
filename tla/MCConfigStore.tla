--------------------------- MODULE MCConfigStore ---------------------------
(* Instances of ConfigStore for TLC. *)
EXTENDS ConfigStore, TLC

CONSTANTS p1, p2, c1, c2

TwoPanels == {p1, p2}
TwoCgis == {c1, c2}
StoreSymmetry == Permutations(TwoPanels) \cup Permutations(TwoCgis)
=============================================================================
