--------------------------- MODULE MCReleaseSlots ---------------------------
(* The release slots for TLC: release ids are interchangeable.             *)
EXTENDS ReleaseSlots, TLC

CONSTANTS s1, s2, s3

TwoSlots == {s1, s2}
ThreeSlots == {s1, s2, s3}
Symmetry == Permutations(Slots)
=============================================================================
