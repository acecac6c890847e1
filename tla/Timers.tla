------------------------------- MODULE Timers -------------------------------
(***************************************************************************)
(* The three root counters (src/core/timers/timers.c) and the one          *)
(* scheduler event that advances them.  Counters are not stepped with the  *)
(* clock: they are brought up to date in one addition when the event runs, *)
(* when the CPU reads or writes a register and when the GPU moves a gate,  *)
(* and the event is put where the next interrupt is expected.              *)
(*                                                                         *)
(* The clock of the CPU is not overclocked.  The GPU calls for timers 0    *)
(* and 1 from its own event; the synchronisation of that event before a    *)
(* register access (gpu_synchronize_crtc) is a run of GpuTicks and SetGate *)
(* steps that comes before the access.                                     *)
(***************************************************************************)
EXTENDS Integers

CONSTANTS
  Timer,         \* the timers that exist, of 0..2
  Overflow,      \* 0xFFFF
  Div,           \* 8, the divider of timer 2
  MaxSlice,      \* system_get_max_slice_ticks
  Modes,         \* for each timer, the modes written to its register
  Values,        \* values written to the counter and target registers
  MaxGpuTicks,   \* bound: dots or lines added by one GPU event
  MaxLate        \* bound: ticks by which an instruction overruns the event

Mode == [sync : BOOLEAN, sync_mode : 0..3, reset_at_target : BOOLEAN,
         irq_at_target : BOOLEAN, irq_on_overflow : BOOLEAN,
         irq_repeat : BOOLEAN, toggle : BOOLEAN, ext : BOOLEAN]

ASSUME TimerAssumption == Timer \subseteq 0..2
ASSUME WidthAssumption == Overflow \in Nat \ {0} /\ Div \in Nat \ {0} /\ MaxSlice \in Nat \ {0}
ASSUME InputAssumption == Modes \in [Timer -> SUBSET Mode] /\ Values \subseteq 0..Overflow
ASSUME BoundAssumption == MaxGpuTicks \in Nat /\ MaxLate \in Nat

VARIABLES
  tm,      \* s_state.counters, each with the level of its interrupt line
  since,   \* ticks since the event's last_run_time
  left,    \* ticks until the event's next_run_time, negative when overdue
  carry,   \* sysclk_div_8_carry
  owed     \* history: ticks each timer has to count since then

vars == <<tm, since, left, carry, owed>>

PauseWhileGateActive == 0
ResetOnGateEnd       == 1
ResetAndRunOnStart   == 2
FreeRunOnGateEnd     == 3

-----------------------------------------------------------------------------
(* Interrupts.  edges counts, up to 2, the rising edges of the line since  *)
(* the mode register was written.                                          *)

Rise(t) == [t EXCEPT !.line = TRUE, !.edges = IF @ < 2 THEN @ + 1 ELSE @]

(* Mutant: a one-shot timer forgets that it has fired.                     *)
PulseAlways(t) == [Rise(t) EXCEPT !.irq_done = TRUE, !.irq_n = TRUE]

(* A line driven low and high again, once if the timer does not repeat.    *)
Pulse(t) ==
  [(IF ~t.irq_done \/ t.mode.irq_repeat THEN Rise(t) ELSE t)
     EXCEPT !.irq_done = TRUE, !.irq_n = TRUE]

(* interrupt_request_n changes sides and the line is its opposite.         *)
Toggle(t) ==
  IF t.irq_n
  THEN [(IF t.line THEN t ELSE Rise(t)) EXCEPT !.irq_n = FALSE]
  ELSE [t EXCEPT !.irq_n = TRUE, !.line = FALSE]

Request(t) == IF t.mode.toggle THEN Toggle(t) ELSE Pulse(t)

(* Mutant: only a step that lands on the target reaches it.                *)
HitsExactly(t, old) == t.counter = t.target /\ (old < t.target \/ t.target = 0)

(* The counter, old before it changed, has come to or passed its target.   *)
Hits(t, old) == t.counter >= t.target /\ (old < t.target \/ t.target = 0)

Wrap(c) == IF c >= Overflow THEN c % Overflow ELSE c

(* timers_check_for_irq: the target first, then the overflow.              *)
CheckForIrq(t, old) ==
  LET hit == Hits(t, old)
      c   == IF hit /\ t.mode.reset_at_target /\ t.target > 0
             THEN t.counter % t.target ELSE t.counter
      u   == [t EXCEPT !.counter = Wrap(c),
                       !.reached_target = @ \/ hit,
                       !.reached_overflow = @ \/ c >= Overflow]
  IN IF \/ hit /\ t.mode.irq_at_target
        \/ c >= Overflow /\ t.mode.irq_on_overflow THEN Request(u) ELSE u

AddTicks(t, n) == CheckForIrq([t EXCEPT !.counter = @ + n], t.counter)

-----------------------------------------------------------------------------
(* The event.                                                              *)

(* Timer i counts the system clock, divided or not.                        *)
OnSysclk(i, t) == t.counting /\ (i = 2 \/ ~t.external)

(* What n system ticks are to timer i.                                     *)
Scaled(i, t, n) == IF i = 2 /\ t.external THEN (n + carry) \div Div ELSE n

(* The counters, and the carry of timer 2, after n system ticks:           *)
(* timers_add_sysclk_ticks without its rescheduling.                       *)
Ticked(n) ==
  [i \in Timer |-> IF OnSysclk(i, tm[i]) THEN AddTicks(tm[i], Scaled(i, tm[i], n))
                                         ELSE tm[i]]
CarryAfter(n) == IF 2 \in Timer /\ tm[2].external THEN (n + carry) % Div ELSE carry

(* Mutant: an interrupt at the target is awaited for one tick too many.    *)
TicksToTargetPlusOne(t) ==
  IF t.counter <= t.target THEN t.target - t.counter + 1
                           ELSE (Overflow - t.counter) + t.target
TicksToTarget(t) ==
  IF t.counter <= t.target THEN t.target - t.counter
                           ELSE (Overflow - t.counter) + t.target

Least(a, b) == IF b < a THEN b ELSE a

(* System ticks until timer i of counters cs has an interrupt to make.     *)
DueIn(i, cs) ==
  LET per      == IF cs[i].external THEN Div ELSE 1
      target   == IF cs[i].mode.irq_at_target THEN TicksToTarget(cs[i]) * per ELSE MaxSlice
      overflow == IF cs[i].mode.irq_on_overflow THEN (Overflow - cs[i].counter) * per
                                                ELSE MaxSlice
  IN IF i \in Timer /\ OnSysclk(i, cs[i]) THEN Least(target, overflow) ELSE MaxSlice

(* timers_get_ticks_until_next_interrupt                                   *)
TicksUntilNextInterrupt(cs) ==
  LET ticks == Least(MaxSlice, Least(DueIn(0, cs), Least(DueIn(1, cs), DueIn(2, cs))))
  IN IF ticks < 1 THEN 1 ELSE ticks

(* timing_event_invoke_early of the event: the counters it leaves, and     *)
(* with them the rest of its effect.  Nothing has to be done twice in a    *)
(* tick.                                                                   *)
Synced      == IF since > 0 THEN Ticked(since) ELSE tm
SyncedLeft  == IF since > 0 THEN TicksUntilNextInterrupt(Synced) ELSE left
InvokeEarly ==
  /\ since' = 0
  /\ carry' = IF since > 0 THEN CarryAfter(since) ELSE carry
  /\ owed' = [i \in Timer |-> 0]

(* timing_event_schedule: the time of the last run stays.                  *)
UpdateSysclkEvent == left' = TicksUntilNextInterrupt(tm')

-----------------------------------------------------------------------------
(* timers_update_counting_enabled                                          *)
CountingEnabled(mode, gate) ==
  \/ ~mode.sync
  \/ mode.sync_mode = PauseWhileGateActive /\ ~gate
  \/ mode.sync_mode = ResetOnGateEnd
  \/ mode.sync_mode \in {ResetAndRunOnStart, FreeRunOnGateEnd} /\ gate

UpdateCountingEnabled(t) ==
  LET c == CountingEnabled(t.mode, t.gate)
  IN [t EXCEPT !.counting = c, !.external = t.use_external /\ c]

(* timers_set_gate on the counter of a timer with sync_enable.             *)
Gated(t, state) ==
  UpdateCountingEnabled(
    [t EXCEPT !.gate = state,
              !.counter = IF \/ t.mode.sync_mode = ResetOnGateEnd /\ ~state
                             \/ t.mode.sync_mode = ResetAndRunOnStart /\ state
                          THEN 0 ELSE @,
              !.mode.sync = @ /\ ~(t.mode.sync_mode = FreeRunOnGateEnd /\ ~state)])

(* Mutant: a synchronised timer is never brought up to date at its gate.   *)
NeverEarly(t, state) == FALSE

(* The ticks until now are counted before the gate changes the mode; the   *)
(* reset at the end of a gate "can wait until the gate clears".            *)
CountsBeforeGate(t, state) ==
  ~t.use_external /\ (t.mode.sync_mode # ResetOnGateEnd \/ ~state)

SetGate(i, state) ==
  /\ tm[i].gate # state
  /\ IF ~tm[i].mode.sync
     THEN /\ tm' = [tm EXCEPT ![i].gate = state]
          /\ UNCHANGED <<since, left, carry, owed>>
     ELSE /\ IF CountsBeforeGate(tm[i], state)
             THEN /\ tm' = [Synced EXCEPT ![i] = Gated(@, state)]
                  /\ InvokeEarly
             ELSE /\ tm' = [tm EXCEPT ![i] = Gated(@, state)]
                  /\ UNCHANGED <<since, carry, owed>>
          /\ UpdateSysclkEvent

-----------------------------------------------------------------------------
(* A counter as timers_reset leaves it; use_external_clock is not reset.   *)
Cleared(use_external) ==
  [mode |-> [sync |-> FALSE, sync_mode |-> 0, reset_at_target |-> FALSE,
             irq_at_target |-> FALSE, irq_on_overflow |-> FALSE,
             irq_repeat |-> FALSE, toggle |-> FALSE, ext |-> FALSE],
   counter |-> 0, target |-> 0, gate |-> FALSE, use_external |-> use_external,
   external |-> FALSE, counting |-> TRUE, irq_done |-> FALSE, irq_n |-> TRUE,
   reached_target |-> FALSE, reached_overflow |-> FALSE,
   line |-> FALSE, edges |-> 0]

Init ==
  /\ tm = [i \in Timer |-> Cleared(FALSE)]
  /\ since = 0 /\ left = MaxSlice /\ carry = 0
  /\ owed = [i \in Timer |-> 0]

(* system_internal_reset: the interrupt lines are reset before the timers. *)
Reset ==
  /\ tm' = [i \in Timer |-> Cleared(tm[i].use_external)]
  /\ since' = 0 /\ carry' = 0
  /\ owed' = [i \in Timer |-> 0]
  /\ UpdateSysclkEvent

(* The machine runs for a tick.  An instruction may overrun the event.     *)
Elapse ==
  /\ left > -MaxLate
  /\ since' = since + 1 /\ left' = left - 1
  /\ owed' = [i \in Timer |-> owed[i] + IF OnSysclk(i, tm[i]) THEN 1 ELSE 0]
  /\ UNCHANGED <<tm, carry>>

(* The event in timing_events_commit_global_ticks, at its own time: the    *)
(* ticks overrun are counted from there and are left to its next run.      *)
SysclkEvent ==
  /\ left <= 0
  /\ LET n == since + left IN tm' = Ticked(n) /\ carry' = CarryAfter(n)
  /\ since' = -left
  /\ left' = left + TicksUntilNextInterrupt(tm')
  /\ owed' = [i \in Timer |-> IF OnSysclk(i, tm[i]) THEN -left ELSE 0]

(* gpu_crtc_tick_event: dots for timer 0, lines for timer 1, while they    *)
(* count them.                                                             *)
GpuTicks(i, n) ==
  /\ i # 2 /\ tm[i].external
  /\ tm' = [tm EXCEPT ![i] = AddTicks(@, n)]
  /\ UNCHANGED <<since, left, carry, owed>>

(* timers_read_register                                                    *)
ReadCounter(i) == tm' = Synced /\ left' = SyncedLeft /\ InvokeEarly

ReadMode(i) ==
  /\ tm' = [Synced EXCEPT ![i].reached_target = FALSE, ![i].reached_overflow = FALSE]
  /\ left' = SyncedLeft
  /\ InvokeEarly

(* timers_write_register.  The GPU's event is not moved for a timer that   *)
(* it drives.                                                              *)
Reschedule(i) ==
  IF i = 2 \/ ~Synced[i].external THEN UpdateSysclkEvent ELSE left' = SyncedLeft

WriteCounter(i, v) ==
  /\ tm' = [Synced EXCEPT ![i] = CheckForIrq([@ EXCEPT !.counter = v], @.counter)]
  /\ InvokeEarly
  /\ Reschedule(i)

WriteTarget(i, v) ==
  /\ tm' = [Synced EXCEPT ![i] = CheckForIrq([@ EXCEPT !.target = v], @.counter)]
  /\ InvokeEarly
  /\ Reschedule(i)

(* interrupt_request_n and the reached flags are outside WRITE_MASK.       *)
ModeWritten(t, m) ==
  CheckForIrq(UpdateCountingEnabled(
    [t EXCEPT !.mode = m, !.use_external = m.ext, !.counter = 0,
              !.irq_done = FALSE, !.line = FALSE, !.edges = 0]), 0)

WriteMode(i, m) ==
  /\ tm' = [Synced EXCEPT ![i] = ModeWritten(@, m)]
  /\ InvokeEarly
  /\ UpdateSysclkEvent

Next ==
  \/ Elapse \/ SysclkEvent \/ Reset
  \/ \E i \in Timer :
       \/ ReadCounter(i) \/ ReadMode(i)
       \/ \E v \in Values : WriteCounter(i, v) \/ WriteTarget(i, v)
       \/ \E m \in Modes[i] : WriteMode(i, m)
       \/ \E n \in 1..MaxGpuTicks : GpuTicks(i, n)
       \/ i # 2 /\ \E state \in BOOLEAN : SetGate(i, state)

Spec == Init /\ [][Next]_vars

-----------------------------------------------------------------------------
Counter == [mode : Mode, counter : 0..(Overflow - 1), target : 0..Overflow,
            gate : BOOLEAN, use_external : BOOLEAN, external : BOOLEAN,
            counting : BOOLEAN, irq_done : BOOLEAN, irq_n : BOOLEAN,
            reached_target : BOOLEAN, reached_overflow : BOOLEAN,
            line : BOOLEAN, edges : 0..2]

(* A counter never shows 0xFFFF or more outside an operation of timers.c,  *)
(* whatever is added or written at once (timers_check_for_irq).            *)
TypeOK ==
  /\ tm \in [Timer -> Counter]
  /\ since \in Nat /\ left \in Int /\ carry \in 0..(Div - 1)
  /\ owed \in [Timer -> Nat]

FollowsMode(t) ==
  /\ t.counting = CountingEnabled(t.mode, t.gate)
  /\ t.external = (t.mode.ext /\ t.counting)
  /\ t.mode.sync => t.use_external = t.mode.ext

(* The derived flags follow the mode register and the gate: the reset      *)
(* leaves use_external_clock behind, timers_set_gate and mode writes       *)
(* recompute the others in different places, and a stale flag would have   *)
(* a timer counted by the wrong clock, by both or by none.                 *)
FlagsFollowMode == \A i \in Timer : FollowsMode(tm[i])

(* The ticks that the next addition will give a timer are the ticks it has *)
(* been counting for since the last: no gate or clock change takes effect  *)
(* between them (timers_set_gate, timing_event_invoke_early).              *)
NoTickLostAtGate ==
  \A i \in Timer : owed[i] = IF OnSysclk(i, tm[i]) THEN since ELSE 0

(* n additions of one tick, from no edge seen.                             *)
Stepwise(t, n) ==
  LET f[k \in 0..n] == IF k = 0 THEN [t EXCEPT !.edges = 0] ELSE AddTicks(f[k - 1], 1)
  IN f[n]

(* One addition of all the ticks is as good as one addition per tick, for  *)
(* the counter, the flags and the interrupts of a timer with a target, if  *)
(* it does not run over 0 to its target in one go (timers_check_for_irq    *)
(* looks at the target before it wraps) and the event is not overdue.      *)
BulkIsExact ==
  left >= 0 =>
    \A i \in Timer :
      LET t == tm[i]
          n == Scaled(i, t, since)
      IN (/\ OnSysclk(i, t) /\ t.target > 0
          /\ t.counter < t.target \/ t.mode.irq_on_overflow \/ t.counter + n < Overflow)
         => AddTicks([t EXCEPT !.edges = 0], n) = Stepwise(t, n)

(* Until the event's time comes no timer has an interrupt to make, so      *)
(* letting the counters stand still meanwhile hides none from the CPU      *)
(* (timers_get_ticks_until_next_interrupt, after every change).  The event *)
(* leaves the carry of timer 2 out: its interrupt may be late by less than *)
(* one divided tick.                                                       *)
InterruptsAreDue ==
  left > 0 =>
    \A i \in Timer :
      LET t == [tm[i] EXCEPT !.irq_done = FALSE, !.mode.toggle = FALSE]
          n == IF t.external THEN since \div Div ELSE since
      IN OnSysclk(i, t) /\ t.target > 0 => Stepwise(t, n).edges = 0

FiresOnce(t) ==
  ~t.mode.toggle => /\ t.irq_done <=> t.edges > 0
                    /\ ~t.mode.irq_repeat => t.edges <= 1

(* A timer that pulses without repeat raises its line once for a write of  *)
(* its mode register, and has done so exactly when irq_done is set         *)
(* (timers_check_for_irq, timers_write_register).                          *)
OneShotFiresOnce == \A i \in Timer : FiresOnce(tm[i])
=============================================================================
