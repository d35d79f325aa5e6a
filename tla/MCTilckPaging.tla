--------------------------- MODULE MCTilckPaging ---------------------------
(* TilckPaging on a small machine. *)
EXTENDS TilckPaging, TLC

CONSTANTS p1, p2, f1, f2, f3
Processes2 == {p1, p2}
Frames3    == {f1, f2, f3}
Pages      == {1, 2}
FrameSymmetry == Permutations(Frame)
=============================================================================
