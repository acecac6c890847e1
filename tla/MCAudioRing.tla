----------------------------- MODULE MCAudioRing -----------------------------
(* Rings of four chunks of two frames, and of two.                         *)
EXTENDS AudioRing

MCSizes == {4, 8}
MCRequests == {1, 3}
=============================================================================
