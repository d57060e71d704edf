-------------------------- MODULE MCEncryptedBlob --------------------------
(* A few calls on a folder of two or three paths. *)
EXTENDS EncryptedBlob, TLC

CONSTANTS a1, c1, c2, c3, c4, c5, p1, p2, p3

OneAdapter == {a1}
TwoCalls == {c1, c2}
FiveCalls == {c1, c2, c3, c4, c5}
TwoPaths == {p1, p2}
ThreePaths == {p1, p2, p3}
Alike == Permutations(Call) \cup Permutations(Path)
=============================================================================
