------------------------------- MODULE MCDma -------------------------------
(* Values for the run of Dma: the devices drop their own request while they*)
(* are called (GPU, SPU), and the program turns interrupts of the GPU channel*)
(* on, which are off after a reset, and acknowledges all of them.          *)
EXTENDS Dma

DropOwn == {[from |-> c, to |-> c, level |-> FALSE] : c \in Channel}
ModesOf == [c \in Channel |-> IF c = Otc THEN {"manual"} ELSE {"request", "manual", "list"}]
Enabling == {[busError |-> FALSE, enable |-> {2}, master |-> TRUE, ack |-> Channel]}
=============================================================================
