------------------------------ MODULE MCGpuCrtc ------------------------------
(* Frames of four lines of five video ticks, or three of four; displays in *)
(* the middle, at the top, at the bottom and none.                         *)
EXTENDS GpuCrtc

MCDisplay == {[htotal |-> 5, vtotal |-> 4, astart |-> 1, aend |-> 4, divider |-> 3],
              [htotal |-> 4, vtotal |-> 3, astart |-> 1, aend |-> 3, divider |-> 2]}
MCDefaultDisplay == [htotal |-> 5, vtotal |-> 4, astart |-> 1, aend |-> 4, divider |-> 3]
MCDefaultRange == [start |-> 1, end |-> 3]
MCRanges == {MCDefaultRange, [start |-> 0, end |-> 2], [start |-> 2, end |-> 3], [start |-> 2, end |-> 1]}

NoTimer == [ext |-> FALSE, until |-> Off, period |-> Never]
MCDots == {NoTimer, [ext |-> TRUE, until |-> 2, period |-> 2], [ext |-> TRUE, until |-> Never, period |-> Never]}
MCLines == {[ext |-> FALSE, sync |-> s, until |-> Off, period |-> Never] : s \in BOOLEAN}
             \union {[ext |-> TRUE, sync |-> FALSE, until |-> 2, period |-> Never]}
=============================================================================
