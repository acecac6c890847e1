---------------------------- MODULE MCGpuCommands ----------------------------
(* GpuCommands for programs that draw, send shaded and unshaded polylines, *)
(* and write and read VRAM.                                                *)
EXTENDS GpuCommands

Kit(words, directions, exits) ==
  [words |-> words, directions |-> directions, exits |-> exits]

MCKits ==
  {Kit({"draw", "reg"}, {"in"}, FALSE), Kit({"draw"}, {"off", "in"}, TRUE),
   Kit({"spline", "term"}, {"in"}, FALSE), Kit({"pline", "term"}, {"in"}, FALSE),
   Kit({"write", "term", "ones"}, {"in"}, FALSE), Kit({"write"}, {}, TRUE),
   Kit({"read", "reg"}, {"in", "out"}, FALSE)}
==============================================================================
