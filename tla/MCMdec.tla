------------------------------- MODULE MCMdec -------------------------------
(* Values for the runs of Mdec: both channels by request.                  *)
EXTENDS Mdec

ByRequest == [c \in Channel |-> {"request"}]
=============================================================================
