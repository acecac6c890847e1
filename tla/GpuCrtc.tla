------------------------------- MODULE GpuCrtc -------------------------------
(***************************************************************************)
(* The video beam of the GPU (src/core/gpu/gpu.c).  The beam is not moved  *)
(* with the clock: one scheduler event moves it in bulk, converts system   *)
(* ticks to video ticks with a remainder, counts dots and lines for timers *)
(* 0 and 1, drives their gates and raises the vertical blank interrupt.    *)
(* The event is put at the next end of the display, earlier when a timer   *)
(* counts on it; register accesses run it early (gpu_synchronize_crtc).    *)
(*                                                                         *)
(* Of timers 0 (dots) and 1 (lines) only what the event asks about is      *)
(* kept: whether they count the GPU's clock, whether timer 1 is            *)
(* synchronised, and how far their next interrupt is.  Their counting does *)
(* not depend on the gate here (synchronisation off, or reset at the end   *)
(* of the gate); module Timers has the other modes.  The picture, the      *)
(* interlaced field and the display's place in VRAM are left out, and so   *)
(* are the forced PAL and NTSC timings.                                    *)
(*                                                                         *)
(* The names that GpuCommands has too begin with Crtc here, or differ: the *)
(* two are sides of one device and can be extended together.               *)
(***************************************************************************)
EXTENDS Integers

CONSTANTS
  Mul, Den,        \* video ticks in a system tick: 715909 / 451584 (NTSC)
  Display,         \* display modes: line and frame sizes and dot divider
  DefaultDisplay,  \* the mode of a soft reset
  Ranges,          \* vertical display ranges
  DefaultRange,    \* the range of a soft reset
  Dots, Lines,     \* settings of timers 0 and 1
  MaxOverrun       \* bound: ticks by which an instruction overruns the event

Never == -1        \* INT32_MAX: no interrupt to come on an enabled timer
Off   == 0         \* timers_is_external_irq_enabled is false

ASSUME RateAssumption == Den \in Nat \ {0} /\ Mul \in Nat /\ Den < Mul /\ Mul < 2 * Den
ASSUME DisplayAssumption ==
  /\ Display \subseteq [htotal : Nat, vtotal : Nat, astart : Nat, aend : Nat, divider : Nat]
  /\ Ranges \subseteq [start : Nat, end : Nat]
  /\ DefaultDisplay \in Display /\ DefaultRange \in Ranges
  /\ \A m \in Display : /\ m.htotal > 0 /\ m.vtotal > 0 /\ m.divider > 0
                        /\ 0 < m.astart /\ m.astart < m.aend /\ m.aend < m.htotal
  /\ \A r \in Ranges, m \in Display : r.start \in 0..m.vtotal /\ r.end \in 0..m.vtotal
ASSUME TimerAssumption ==
  /\ Dots \subseteq [ext : BOOLEAN, until : Nat \union {Never}, period : (Nat \ {0}) \union {Never}]
  /\ Lines \subseteq [ext : BOOLEAN, sync : BOOLEAN, until : Nat \union {Never},
                     period : (Nat \ {0}) \union {Never}]
ASSUME BoundAssumption == MaxOverrun \in Nat

VARIABLES
  crtc,    \* g.crtc_state: line, tick, frac, dotfrac, vblank
  mode,    \* the sizes gpu_update_crtc_config derives from GPUSTAT
  range,   \* vertical_display_start and vertical_display_end
  dot,     \* timer 0: ext, until its interrupt, period after one
  line,    \* timer 1: the same and sync
  since,   \* ticks since the event's last_run_time
  left,    \* ticks until the event's next_run_time, negative when overdue
  armed    \* history: the timers as the event was last scheduled

crtc_vars == <<crtc, mode, range, dot, line, since, left, armed>>

-----------------------------------------------------------------------------
(* Ticks.  The event is asked for in video ticks and put in system ticks.  *)

Lower(a, b) == IF a < b THEN a ELSE b

CrtcToSys(ticks, frac) == (ticks * Den + frac + Mul - 1) \div Mul

SysToCrtc(ticks, frac) == (ticks * Mul + frac) \div Den
FracAfter(ticks, frac) == (ticks * Mul + frac) % Den

Blank(l, r) == l < r.start \/ l >= r.end

-----------------------------------------------------------------------------
(* The event's place.                                                      *)

LinesToEdge(c, m, r, sync) ==
  IF c.line >= r.end THEN m.vtotal - c.line + (IF sync THEN r.start ELSE r.end)
  ELSE r.end - c.line

(* Mutant: a timer that counts lines is not looked at.                     *)
LinesUntilEventBlind(c, m, r, l) == LinesToEdge(c, m, r, l.sync)

LinesUntilEvent(c, m, r, l) ==
  IF l.ext /\ l.until \notin {Off, Never}
  THEN Lower(l.until, LinesToEdge(c, m, r, l.sync))
  ELSE LinesToEdge(c, m, r, l.sync)

TicksOfLines(c, m, r, l) == LinesUntilEvent(c, m, r, l) * m.htotal - c.tick

(* INT32_MAX times the divider wraps, to minus an even divider and to no   *)
(* less than 2^31 less an odd one, which never comes first.                *)
TicksOfDots(c, m, d) ==
  (IF d.until = Never THEN -m.divider ELSE d.until * m.divider) - c.dotfrac

DotsComeFirst(m, d) == d.ext /\ d.until # Off /\ (d.until = Never => m.divider % 2 = 0)

TicksUntilEvent(c, m, r, d, l) ==
  LET lines == TicksOfLines(c, m, r, l)
      dots  == TicksOfDots(c, m, d)
  IN IF DotsComeFirst(m, d) THEN Lower(lines, IF dots > 0 THEN dots ELSE 0) ELSE lines

EventTicks(c, m, r, d, l) == CrtcToSys(TicksUntilEvent(c, m, r, d, l), c.frac)

-----------------------------------------------------------------------------
(* Timers.  Count is timers_add_ticks seen from the next interrupt.        *)

Count(t, n) ==
  CASE ~t.ext \/ t.until \in {Off, Never} -> t
    [] t.ext /\ t.until > n               -> [t EXCEPT !.until = @ - n]
    [] OTHER -> [t EXCEPT !.until = IF t.period = Never THEN Never
                                    ELSE t.period - ((n - @) % t.period)]

-----------------------------------------------------------------------------
(* The event.  b is the beam while lines are drawn: due is lines_to_draw,  *)
(* edges counts the rising edges of the vertical blank interrupt.          *)

(* The beam n lines on, passed telling if the display was all passed.      *)
Drawn(b, n, m, r, passed) ==
  LET now == Blank(b.line + n, r)
  IN [line |-> (b.line + n) % m.vtotal, due |-> b.due - n, vblank |-> now,
      edges |-> b.edges + (IF now /\ (passed \/ ~b.vblank) THEN 1 ELSE 0)]

(* Mutant: passing the whole display does not end the blank.               *)
DrawLinesFlat(b, m, r) ==
  IF b.due = 0 THEN b ELSE Drawn(b, Lower(b.due, m.vtotal - b.line), m, r, FALSE)

(* One pass of the loop: the lines that are due, or to the end of the      *)
(* frame.                                                                  *)
DrawLines(b, m, r) ==
  LET n == Lower(b.due, m.vtotal - b.line)
  IN IF b.due = 0 THEN b
     ELSE Drawn(b, n, m, r, b.line < r.start /\ b.line + n >= r.end)

(* The loop: each pass draws a line at least.                              *)
DrawAll(b, m, r) ==
  LET after[n \in 0..b.due] == IF n = 0 THEN b ELSE DrawLines(after[n - 1], m, r)
  IN after[b.due]

(* hblank_dt: the ends of active display passed.                           *)
Hblanks(c, m, tick, lines) ==
  lines - (IF c.tick >= m.aend THEN 1 ELSE 0) + (IF tick >= m.aend THEN 1 ELSE 0)

(* gpu_crtc_tick_event before it schedules itself again.                   *)
Advance(c, m, r, d, ticks) ==
  LET gpu   == SysToCrtc(ticks, c.frac)
      tick  == (c.tick + gpu) % m.htotal
      lines == (c.tick + gpu) \div m.htotal
      frac  == c.dotfrac + gpu
      drawn == DrawAll([line |-> c.line, due |-> lines, vblank |-> c.vblank, edges |-> 0], m, r)
  IN [crtc  |-> [line |-> drawn.line, tick |-> tick, frac |-> FracAfter(ticks, c.frac),
                 dotfrac |-> IF d.ext THEN frac % m.divider ELSE c.dotfrac,
                 vblank |-> drawn.vblank],
      dots  |-> IF d.ext THEN frac \div m.divider ELSE 0,
      lines |-> Hblanks(c, m, tick, lines),
      edges |-> drawn.edges]

Now == Advance(crtc, mode, range, dot, since)

-----------------------------------------------------------------------------
(* Operations.                                                             *)

CrtcInit ==
  /\ crtc  = [line |-> 0, tick |-> 0, frac |-> 0, dotfrac |-> 0, vblank |-> FALSE]
  /\ mode  = DefaultDisplay /\ range = DefaultRange
  /\ dot   \in Dots /\ line \in Lines
  /\ since = 0
  /\ left  = EventTicks(crtc, mode, range, dot, line)
  /\ armed = <<dot, line>>

Here == [crtc |-> crtc, dot |-> dot, line |-> line,
         since |-> since, left |-> left, armed |-> armed]

(* The callback over so many ticks, run late by since afterwards.          *)
Ran(ticks, late) ==
  LET e == Advance(crtc, mode, range, dot, ticks)
      d == Count(dot, e.dots)
      l == Count(line, e.lines)
  IN [crtc |-> e.crtc, dot |-> d, line |-> l, since |-> late,
      left |-> EventTicks(e.crtc, mode, range, d, l) - late, armed |-> <<d, l>>]

(* gpu_synchronize_crtc: nothing runs if no tick has passed.               *)
Synced == IF since = 0 THEN Here ELSE Ran(since, 0)

Become(s) ==
  /\ crtc' = s.crtc /\ dot' = s.dot /\ line' = s.line
  /\ since' = s.since /\ left' = s.left /\ armed' = s.armed

(* The clock goes on while the event is not due, up to MaxOverrun ticks    *)
(* past.                                                                   *)
CrtcElapse ==
  /\ left > 0
  /\ \E n \in {1} \union {left + late : late \in 1..MaxOverrun} :
       /\ since' = since + n
       /\ left'  = left - n
  /\ UNCHANGED <<crtc, mode, range, dot, line, armed>>

(* The event is run at its own time, which the clock may have passed.      *)
CrtcEvent ==
  /\ left <= 0
  /\ \E s \in {Ran(since + left, -left)} : Become(s)
  /\ UNCHANGED <<mode, range>>

(* A drawing command or a display command that changes no size.            *)
Synchronize ==
  /\ left > 0 /\ since > 0
  /\ \E s \in {Synced} : Become(s)
  /\ UNCHANGED <<mode, range>>

(* gpu_update_crtc_config puts the beam on the new sizes.                  *)
Fitted(c, m) == [c EXCEPT !.tick = @ % m.htotal, !.line = @ % m.vtotal]

Configured(s, m, r) ==
  LET c == Fitted(s.crtc, m)
  IN [s EXCEPT !.crtc = c, !.left = EventTicks(c, m, r, s.dot, s.line),
               !.armed = <<s.dot, s.line>>]

(* A GP1 command that syncs the beam and changes sizes.                    *)
Reconfigure(m, r) ==
  /\ left > 0
  /\ \E s \in {Synced} : Become(Configured(s, m, r))
  /\ mode' = m /\ range' = r

CrtcSetDisplayMode   == \E m \in Display \ {mode} : Reconfigure(m, range)
SetVerticalRange == \E r \in Ranges \ {range} : Reconfigure(mode, r)
CrtcSoftReset        == Reconfigure(DefaultDisplay, DefaultRange)

(* A register access of timer 0 syncs the beam if the timer counts dots;   *)
(* one of timer 1, like a read of GPUSTAT, if a line is due.  The event is *)
(* not moved to suit what is written.                                      *)
ScanlinePending == crtc.tick + SysToCrtc(since, crtc.frac) >= mode.htotal

WriteDotTimer ==
  /\ left > 0
  /\ \E s \in {IF dot.ext THEN Synced ELSE Here}, d \in Dots \ {dot} :
       Become([s EXCEPT !.dot = d])
  /\ UNCHANGED <<mode, range>>

WriteLineTimer ==
  /\ left > 0
  /\ \E s \in {IF line.ext /\ ScanlinePending THEN Synced ELSE Here}, l \in Lines \ {line} :
       Become([s EXCEPT !.line = l])
  /\ UNCHANGED <<mode, range>>

CrtcNext ==
  \/ CrtcElapse
  \/ CrtcEvent
  \/ Synchronize
  \/ CrtcSetDisplayMode
  \/ SetVerticalRange
  \/ CrtcSoftReset
  \/ WriteDotTimer
  \/ WriteLineTimer

CrtcSpec == CrtcInit /\ [][CrtcNext]_crtc_vars

-----------------------------------------------------------------------------
(* The beam one video tick at a time: what it passes on the way.           *)

BeamStep(b) ==
  LET last  == b.tick + 1 = mode.htotal
      lineN == IF last THEN (b.line + 1) % mode.vtotal ELSE b.line
  IN [tick  |-> IF last THEN 0 ELSE b.tick + 1,
      line  |-> lineN,
      dots  |-> b.dots + 1,
      lines |-> b.lines + (IF b.tick + 1 = mode.aend THEN 1 ELSE 0),
      starts |-> b.starts + (IF ~Blank(b.line, range) /\ Blank(lineN, range) THEN 1 ELSE 0),
      ends  |-> b.ends + (IF Blank(b.line, range) /\ ~Blank(lineN, range) THEN 1 ELSE 0)]

SysStep(s) ==
  LET n == (Mul + s.frac) \div Den
  IN [frac |-> (Mul + s.frac) % Den,
      beam |-> IF n = 1 THEN BeamStep(s.beam) ELSE BeamStep(BeamStep(s.beam))]

Beam ==
  LET from == [frac |-> crtc.frac,
               beam |-> [tick |-> crtc.tick, line |-> crtc.line, dots |-> crtc.dotfrac,
                         lines |-> 0, starts |-> 0, ends |-> 0]]
      walk[n \in 0..since] == IF n = 0 THEN from ELSE SysStep(walk[n - 1])
  IN walk[since].beam

-----------------------------------------------------------------------------
(* Properties.                                                             *)

(* The beam is on the raster, its remainders are remainders and the event  *)
(* is not overdue by more than an instruction (gpu_crtc_state_t).          *)
CrtcTypeOK ==
  /\ crtc.line \in 0..(mode.vtotal - 1) /\ crtc.tick \in 0..(mode.htotal - 1)
  /\ crtc.frac \in 0..(Den - 1) /\ crtc.dotfrac \in Nat /\ crtc.vblank \in BOOLEAN
  /\ mode \in Display /\ range \in Ranges
  /\ since \in Nat /\ left \in Int /\ left >= -MaxOverrun
  /\ dot.until \in Nat \union {Never} /\ line.until \in Nat \union {Never}

(* Whenever the event is run, early, in time or late, it finds the beam    *)
(* where a beam moved tick by tick would be, and gives the timers the dots *)
(* and lines that beam has passed: no remainder of any conversion is lost  *)
(* however the accesses cut the frame up (gpu_crtc_tick_event).            *)
BulkIsExact ==
  \A b \in {Beam}, e \in {Now} :
    /\ <<e.crtc.line, e.crtc.tick>> = <<b.line, b.tick>>
    /\ e.lines = b.lines
    /\ dot.ext => /\ e.dots = b.dots \div mode.divider
                  /\ e.crtc.dotfrac = b.dots % mode.divider

Stale == crtc.vblank # Blank(crtc.line, range)

(* Every frame has its vertical blank interrupt: the event raises the line *)
(* as often as the beam has come into the blank, also when it jumps from   *)
(* one blank over the display into the next.  Not so with a display that   *)
(* begins on line 0, whose blank is never seen to end (gpu.c, "Clear       *)
(* vblank if beam passes through display area"), nor with an empty one,    *)
(* which the same test takes for passed at every jump over its end, nor    *)
(* for the blank after a change of range that the flag has not followed.   *)
VblankEachFrame ==
  0 < range.start /\ range.start < range.end /\ ~Stale =>
    \A b \in {Beam}, e \in {Now} : e.edges = b.starts

(* How late the event may be: crtc_to_sys_ticks adds the remainder that it *)
(* should take off.                                                        *)
Slack == 1 + (2 * (Den - 1)) \div Mul

AsArmed == armed = <<dot, line>>

(* The interrupt does not wait for a register access: the event comes when *)
(* the beam comes into the blank (gpu_update_crtc_tick_event).             *)
VblankIsOnTime == \A b \in {Beam} : b.starts > 0 => left <= Slack

(* With timer 1 synchronised the gate follows the blank at both ends, if   *)
(* the event was last run on a line of the display or after it: from the   *)
(* blank before the display the event goes to the end of the display and   *)
(* skips its start (hblank_sync).                                          *)
GateIsOnTime ==
  AsArmed /\ line.sync /\ crtc.line >= range.start =>
    \A b \in {Beam} : b.starts + b.ends > 0 => left <= Slack

(* A line in system ticks, rounded up.                                     *)
LineTicks == CrtcToSys(mode.htotal, 0)

(* The interrupts of the timers that count dots and lines come when they   *)
(* are due, that of lines at the end of the line; as the event knew the    *)
(* timer, for a register written since does not move it (timers.c:415).    *)
InterruptsAreDue ==
  AsArmed => \A b \in {Beam} :
    /\ dot.ext /\ dot.until > 0 /\ b.dots >= dot.until * mode.divider => left <= Slack
    /\ line.ext /\ line.until > 0 /\ b.lines >= line.until => left <= LineTicks + Slack

(* The event never asks for its own time again, which would hang the       *)
(* scheduler, but where the product with INT32_MAX has wrapped or a dot of *)
(* a wider mode is left over, with no remainder (gpu.c:873).               *)
EventAdvances ==
  since = 0 /\ left = 0 =>
    /\ crtc.frac = 0 /\ armed[1].ext
    /\ \/ armed[1].until = Never /\ mode.divider % 2 = 0
       \/ crtc.dotfrac >= mode.divider

(* The beam moved in bulk is the beam: variables in range, BulkIsExact,    *)
(* VblankEachFrame, EventAdvances.                                         *)
BeamIsExact ==
  /\ CrtcTypeOK
  /\ BulkIsExact
  /\ VblankEachFrame
  /\ EventAdvances

(* The event comes for every edge the rest of the machine sees:            *)
(* VblankIsOnTime, GateIsOnTime, InterruptsAreDue.                         *)
EdgesAreOnTime ==
  /\ VblankIsOnTime
  /\ GateIsOnTime
  /\ InterruptsAreDue
=============================================================================
