------------------------- MODULE MCCdromAsyncReader -------------------------
(* Model values for the runs of CdromAsyncReader.                          *)
EXTENDS CdromAsyncReader, TLC
CONSTANTS d1, d2
Symmetry == Permutations({d1, d2})
=============================================================================
