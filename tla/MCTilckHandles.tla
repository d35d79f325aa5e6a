--------------------------- MODULE MCTilckHandles ---------------------------
(* Finite instances of TilckHandles: a first process and two more slots.    *)
EXTENDS TilckHandles, TLC

CONSTANTS pa, pb, pc, ha, hb, ga

MCProc   == {pa, pb, pc}
MCHandle == {ha, hb}
OnePage  == {ga}
Alike    == Permutations({pb, pc}) \cup Permutations(MCHandle)
=============================================================================
