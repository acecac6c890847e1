---------------------------- MODULE MCInterrupts ----------------------------
(* Model values for the runs of Interrupts: two lines, interchangeable.    *)
EXTENDS Interrupts, TLC
CONSTANTS vblank, dma

Lines == Permutations({vblank, dma})
=============================================================================
