--------------------------- MODULE MCTilckRingbuf ---------------------------
EXTENDS TilckRingbuf, TLC
=============================================================================
