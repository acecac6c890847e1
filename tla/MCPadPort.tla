------------------------------ MODULE MCPadPort ------------------------------
(* PadPort on small instances: what the program sends, with and without a  *)
(* multitap, a host that interferes with the port, and states written in   *)
(* the middle of a transfer and loaded in another.  Without saves it loads *)
(* the state at the start.                                                 *)
EXTENDS PadPort

Kit(bytes, tapped, host, irqen, saves) ==
  [bytes |-> bytes, tapped |-> tapped, host |-> host, irqen |-> irqen, saves |-> saves]

MCKits ==
  {Kit({ToController, Poll, ToCard, ReadCommand}, FALSE, FALSE, FALSE, {}),
   Kit({ToCard, WriteCommand}, FALSE, TRUE, FALSE, {}),
   Kit({ToController, ToCard, WriteCommand}, FALSE, FALSE, FALSE, {}),
   Kit({ToCard, GetIdCommand}, FALSE, TRUE, TRUE, {}),
   Kit({ToController, Poll, ToCard}, TRUE, FALSE, FALSE, {}),
   Kit({ToCard, WriteCommand}, TRUE, FALSE, FALSE, {}),
   Kit({ToController, ToCard}, FALSE, FALSE, TRUE, {"COMMAND"}),
   Kit({ToController, ToCard}, TRUE, FALSE, FALSE, {"COMMAND"})}
==============================================================================
