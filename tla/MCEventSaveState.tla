-------------------------- MODULE MCEventSaveState --------------------------
(* Model values for the runs of EventSaveState: a is the CRTC event, b an  *)
(* event that is restored exactly or dropped (the memory card host flush). *)
EXTENDS EventSaveState
CONSTANTS a, b

OwnerCard == [e \in {a, b} |-> IF e = b THEN {"exact", "flushed"} ELSE {"exact"}]
=============================================================================
