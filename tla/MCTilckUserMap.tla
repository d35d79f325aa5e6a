--------------------------- MODULE MCTilckUserMap ---------------------------
EXTENDS TilckUserMap, TLC
=============================================================================
