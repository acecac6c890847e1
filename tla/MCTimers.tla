------------------------------ MODULE MCTimers ------------------------------
(* Inputs for the runs of Timers.                                          *)
EXTENDS Timers, TLC

Plain == [sync |-> FALSE, sync_mode |-> 0, reset_at_target |-> FALSE,
          irq_at_target |-> FALSE, irq_on_overflow |-> FALSE,
          irq_repeat |-> FALSE, toggle |-> FALSE, ext |-> FALSE]

Periodic == [Plain EXCEPT !.reset_at_target = TRUE, !.irq_at_target = TRUE,
                          !.irq_repeat = TRUE]
OneShot == [Plain EXCEPT !.irq_at_target = TRUE, !.irq_on_overflow = TRUE]

(* Timer 0: a periodic pulse while its gate is low, a one-shot at both     *)
(* ends that the end of the gate sets free, the GPU's clock.  Timer 2: a   *)
(* toggle at each overflow of the divided clock.                           *)
SomeModes ==
  (0 :> { [Periodic EXCEPT !.sync = TRUE],
          [OneShot EXCEPT !.sync = TRUE, !.sync_mode = FreeRunOnGateEnd],
          [Plain EXCEPT !.ext = TRUE, !.irq_on_overflow = TRUE] }) @@
  (2 :> { [Plain EXCEPT !.ext = TRUE, !.irq_on_overflow = TRUE, !.toggle = TRUE] })
=============================================================================
