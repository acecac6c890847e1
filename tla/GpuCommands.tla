----------------------------- MODULE GpuCommands -----------------------------
(***************************************************************************)
(* The command side of the GPU: src/core/gpu/gpu.c and gpu_commands.c.     *)
(* Words come from the CPU (GP0) and from the DMA engine into a FIFO; what *)
(* a word is depends on those before it: a command, a parameter, picture   *)
(* data or a vertex.  Commands cost time that is paid afterwards: they run *)
(* ahead of the clock by up to max_run_ahead ticks and then wait for the   *)
(* command tick event.                                                     *)
(*                                                                         *)
(* g is the structure of the same name with the command tick event in it.  *)
(* Times are system ticks since the event last ran and until it is due;    *)
(* pending is in GPU ticks, two to a system tick.                          *)
(*                                                                         *)
(* Drawing synchronises the CRTC first when it is interlaced, and so do    *)
(* writes of GP1.  That may complete a frame, and at the end of a frame    *)
(* the host may leave execution with a longjmp (system_frame_done): the    *)
(* parameter exits of an operation says that it is left at its first such  *)
(* point.  The words' effect on VRAM is left out.                          *)
(***************************************************************************)
EXTENDS Integers, Sequences

CONSTANTS
  Kits,         \* programs: the words and directions they send, if the host exits
  FifoSize,     \* g.fifo_size, 128
  MaxFifo,      \* GPU_MAX_FIFO_SIZE, 4096
  MaxPolyline,  \* GPU_MAX_POLYLINE_WORDS, 4096
  MaxRunAhead,  \* g.max_run_ahead
  DrawTicks,    \* what a drawing command costs
  Block,        \* the longest block of the DMA engine, 65536
  MaxLate       \* bound: ticks by which an instruction overruns the event

(* Words by what their top byte makes of them when a command is expected:  *)
(* "reg" a register (E1-E6) or the cache, "draw" an unshaded line or a     *)
(* fill, "write" and "read" the copies from and to the CPU, "pline" and    *)
(* "spline" polylines without and with shading, "term" 0x55555555, the     *)
(* terminator of a polyline and a shaded line, "ones" 0xFFFFFFFF, a nop.   *)
Word == {"reg", "draw", "write", "read", "pline", "spline", "term", "ones"}

ASSUME KitAssumption ==
  Kits \subseteq [words : SUBSET Word, directions : SUBSET {"off", "in", "out"}, exits : BOOLEAN]
ASSUME FifoAssumption ==
  /\ FifoSize \in Nat \ {0} /\ Block \in Nat \ {0} /\ MaxFifo \in Nat \ {0}
  /\ MaxPolyline \in Nat /\ 3 <= MaxPolyline
ASSUME TickAssumption == MaxRunAhead \in Nat /\ DrawTicks \in Nat \ {0} /\ MaxLate \in Nat

VARIABLES
  g,
  kit,       \* the program, constant
  want,      \* history: where a parser that takes words one by one would be
  derailed   \* history: a word was lost, or a polyline began with old vertices

vars == <<g, kit, want, derailed>>

(* The words of a command without the data that follow it (the command     *)
(* handlers' CHECK_COMMAND_SIZE).                                          *)
SizeOf(w) ==
  CASE w \in {"reg", "ones"}                      -> 1
    [] w \in {"draw", "write", "read", "spline"}  -> 3
    [] w \in {"pline", "term"}                    -> 4

(* The words of a picture whose size parameter is w.                       *)
PictureWords(w) == IF w = "term" THEN 2 ELSE 1

(* Ticks enough for the largest debt.                                      *)
Enough == (MaxRunAhead + DrawTicks) \div 2 + 1 + MaxLate

-----------------------------------------------------------------------------
(* A parser of the stream of words: the reference.  "vertex" and "end" are *)
(* a polyline whose next word is a vertex of a shaded one, or is looked at *)
(* for the terminator.                                                     *)

Parser(mode, cmd, left) == [mode |-> mode, cmd |-> cmd, left |-> left]
Idle0 == Parser("idle", "ones", 0)

AfterHeader(cmd, w) ==
  CASE cmd = "write" /\ w # "ones" -> Parser("data", cmd, PictureWords(w))
    [] cmd \in {"pline"}           -> Parser("end", cmd, 0)
    [] cmd = "spline"              -> Parser("vertex", cmd, 0)
    [] OTHER                       -> Idle0

Parse(p, w) ==
  CASE p.mode = "idle"   -> IF SizeOf(w) = 1 THEN Idle0 ELSE Parser("params", w, SizeOf(w) - 1)
    [] p.mode = "params" -> IF p.left = 1 THEN AfterHeader(p.cmd, w)
                                          ELSE [p EXCEPT !.left = @ - 1]
    [] p.mode = "data"   -> IF p.left = 1 THEN Idle0 ELSE [p EXCEPT !.left = @ - 1]
    [] p.mode = "vertex" -> [p EXCEPT !.mode = "end"]
    [] p.mode = "end"    -> IF w = "term" THEN Idle0
                            ELSE [p EXCEPT !.mode = IF p.cmd = "spline" THEN "vertex" ELSE "end"]

ParseAll(p, words) ==
  LET at[n \in 0..Len(words)] == IF n = 0 THEN p ELSE Parse(at[n - 1], words[n])
  IN at[Len(words)]

(* Where the GPU is in the stream, the words of the FIFO not counted.      *)
Position(s) ==
  CASE s.blitter = "writing" /\ s.remaining > 0 -> Parser("data", "write", s.remaining)
    [] s.blitter = "polyline" ->
         IF ~s.shaded THEN Parser("end", "pline", 0)
         ELSE Parser(IF s.polyline % 2 = 0 THEN "vertex" ELSE "end", "spline", 0)
    [] OTHER -> Idle0

-----------------------------------------------------------------------------
(* gpu_update_dma_request                                                  *)
ReadyForDma(s) ==
  CASE s.blitter = "idle" -> s.fifo = <<>> \/ Len(s.fifo) < s.total
    [] s.blitter \in {"writing", "polyline"} -> Len(s.fifo) < FifoSize
    [] s.blitter = "reading" -> FALSE

Request(s) ==
  \/ s.direction = "in" /\ ReadyForDma(s)
  \/ s.direction = "out" /\ s.blitter = "reading"

UpdateDmaRequest(s) == [s EXCEPT !.request = Request(s)]

(* gpu_update_gpu_idle                                                     *)
IsIdle(s) == s.blitter = "idle" /\ s.pending <= 0 /\ s.fifo = <<>>
UpdateGpuIdle(s) == [s EXCEPT !.idle = IsIdle(s)]

HalfUp(n) == (n + 1) \div 2

(* Mutant: an odd tick of debt is forgiven.                                *)
ForgiveOddTick(s) ==
  IF s.pending <= 1
  THEN [s EXCEPT !.pending = 0, !.active = FALSE, !.since = 0, !.left = 0, !.interval = 1]
  ELSE [s EXCEPT !.active = TRUE, !.interval = s.pending \div 2, !.left = s.pending \div 2,
                 !.since = IF s.active THEN @ ELSE 0]

(* gpu_update_command_tick_event                                           *)
UpdateCommandTickEvent(s) ==
  IF s.pending <= 0
  THEN [s EXCEPT !.pending = 0, !.active = FALSE, !.since = 0, !.left = 0, !.interval = 1]
  ELSE [s EXCEPT !.active = TRUE, !.interval = HalfUp(s.pending), !.left = HalfUp(s.pending),
                 !.since = IF s.active THEN @ ELSE 0]

-----------------------------------------------------------------------------
(* Commands.  stop says why gpu_try_execute_commands returned.             *)

Drop(s, n) == [s EXCEPT !.fifo = SubSeq(@, n + 1, Len(@))]
Stop(s, why) == [s EXCEPT !.stop = why]
EndCommand(s) == [s EXCEPT !.blitter = "idle", !.total = 0]
AddTicks(s, n) == [s EXCEPT !.pending = @ + n]

Least(a, b) == IF a < b THEN a ELSE b

(* dispatch_gp0 and the handlers                                           *)
Handle(s, w) ==
  LET t == Drop(s, SizeOf(w)) IN
  CASE w = "reg"  -> EndCommand(AddTicks(t, 1))
    [] w = "ones" -> EndCommand(t)
    [] w \in {"draw", "term"} -> EndCommand(AddTicks(t, DrawTicks))
    [] w = "write" ->
         IF s.fifo[3] = "ones" THEN t
         ELSE [EndCommand(t) EXCEPT !.blitter = "writing", !.remaining = PictureWords(s.fifo[3])]
    [] w = "read" ->
         [t EXCEPT !.blitter = "reading", !.unread = PictureWords(s.fifo[3]), !.total = 0]
    [] w \in {"pline", "spline"} ->
         LET n == Least(SizeOf(w) - 1, MaxPolyline - s.polyline)
         IN [AddTicks(Drop(s, n + 1), DrawTicks)
               EXCEPT !.blitter = "polyline", !.shaded = (w = "spline"),
                      !.polyline = @ + n, !.total = 0]

Dispatch(s, exits) ==
  LET w == Head(s.fifo) IN
  IF Len(s.fifo) < SizeOf(w) THEN Stop([s EXCEPT !.total = SizeOf(w)], "wait")
  ELSE IF exits /\ w \in {"draw", "term", "pline", "spline"} THEN Stop(s, "exit")
  ELSE Handle(s, w)

(* GPU_BLITTER_WRITING_VRAM, and gpu_finish_vram_write                     *)
WriteVram(s, exits) ==
  LET n == Least(s.remaining, Len(s.fifo))
      t == [Drop(s, n) EXCEPT !.remaining = @ - n]
  IN IF t.remaining > 0 THEN t
     ELSE IF exits THEN Stop(t, "exit") ELSE [t EXCEPT !.blitter = "idle"]

(* Mutant: the parity of the vertices so far is not looked at.             *)
CheckedAlways(s) == IF s.shaded THEN 2 ELSE 1

(* The first word of the FIFO that may be the terminator.                  *)
FirstChecked(s) == IF s.shaded /\ s.polyline % 2 = 0 THEN 2 ELSE 1

(* GPU_BLITTER_DRAWING_POLYLINE and gpu_finish_polyline.  A terminator     *)
(* beyond what fits the buffer has the wrong word removed.                 *)
DrawPolyline(s) ==
  LET step  == IF s.shaded THEN 2 ELSE 1
      ends  == {i \in FirstChecked(s)..Len(s.fifo) :
                  (i - FirstChecked(s)) % step = 0 /\ s.fifo[i] = "term"}
      found == ends # {}
      upto  == IF found THEN (CHOOSE i \in ends : \A j \in ends : i <= j) - 1 ELSE Len(s.fifo)
      n     == Least(upto, MaxPolyline - s.polyline)
      t     == [Drop(s, n) EXCEPT !.polyline = @ + n, !.cropped = @ \/ n < upto]
  IN IF found THEN EndCommand([Drop(t, 1) EXCEPT !.polyline = 0]) ELSE Stop(t, "wait")

TryStep(s, exits) ==
  IF s.stop # "no" \/ s.fifo = <<>> \/ s.pending > MaxRunAhead THEN s
  ELSE CASE s.blitter = "idle"     -> Dispatch(s, exits)
         [] s.blitter = "writing"  -> WriteVram(s, exits)
         [] s.blitter = "polyline" -> DrawPolyline(s)
         [] s.blitter = "reading"  -> Stop(s, "wait")

(* Op(s), with s computed once.                                            *)
Once(s, Op(_)) == CHOOSE t \in {Op(x) : x \in {s}} : TRUE

(* gpu_try_execute_commands: a step stops or takes a word, but for one that*)
(* completes a picture whose completion was left before.                   *)
TryExecuteCommands(s, exits) ==
  LET run[n \in 0..(Len(s.fifo) + 2)] == IF n = 0 THEN s ELSE Once(run[n - 1], LAMBDA t : TryStep(t, exits))
  IN run[Len(s.fifo) + 2]

(* gpu_execute_commands                                                    *)
ExecuteCommands(s, exits) ==
  LET After(t) ==
        IF t.stop = "exit" THEN t
        ELSE LET u == UpdateGpuIdle(UpdateDmaRequest([t EXCEPT !.executing = s.executing]))
             IN IF s.executing THEN u ELSE UpdateCommandTickEvent(u)
  IN Once(TryExecuteCommands([s EXCEPT !.executing = TRUE, !.stop = "no"], exits), After)

(* gpu_command_tick_event, ticks after it last ran.                        *)
CommandTickEvent(s, ticks, exits) ==
  LET After(t) == IF t.stop = "exit" THEN t
                  ELSE [UpdateCommandTickEvent(t) EXCEPT !.executing = FALSE]
  IN Once(ExecuteCommands([s EXCEPT !.pending = @ - 2 * ticks, !.executing = TRUE], exits), After)

(* timing_event_invoke_early on the event.                                 *)
InvokeEarly(s, exits) ==
  IF s.active /\ s.since > 0
  THEN CommandTickEvent([s EXCEPT !.since = 0, !.left = s.interval], s.since, exits)
  ELSE [s EXCEPT !.stop = "no"]

-----------------------------------------------------------------------------
Init ==
  /\ g = [fifo |-> <<>>, blitter |-> "idle", total |-> 0, pending |-> 0,
          remaining |-> 0, unread |-> 0, polyline |-> 0, shaded |-> FALSE,
          cropped |-> FALSE, direction |-> "off", request |-> FALSE, idle |-> TRUE,
          executing |-> FALSE, active |-> FALSE, since |-> 0, left |-> 0,
          interval |-> 1, stop |-> "no", exited |-> FALSE]
  /\ kit \in Kits
  /\ want = Idle0
  /\ derailed = FALSE

(* The vertices of an unfinished polyline are left in their buffer.        *)
LeavesVertices(s) == s.blitter # "polyline" /\ s.polyline > 0

(* An operation leaves s behind; exits, at most one in a behaviour, is     *)
(* whether the host left in the middle of it.                              *)
Becomes(s, exits) ==
  \E t \in {s} :
    /\ exits = (t.stop = "exit") /\ (exits => kit.exits /\ ~g.exited)
    /\ g' = [t EXCEPT !.stop = "no", !.exited = @ \/ exits]
    /\ derailed' = (derailed \/ t.cropped)

(* The reference takes the words too, as long as it is of any use.         *)
Follow(block) == want' = IF derailed THEN Idle0 ELSE ParseAll(want, block)

(* The clock.  What is beyond the debt is of no consequence.               *)
Elapse ==
  /\ g.active => g.left > -MaxLate
  /\ g' = IF g.active THEN [g EXCEPT !.since = Least(@ + 1, Enough), !.left = @ - 1] ELSE g
  /\ UNCHANGED <<want, derailed>>

(* The event at its own time.  An exit puts it off by its interval         *)
(* (timing_events_cancel_running_event).                                   *)
CommandEvent(exits) ==
  /\ g.active /\ g.left <= 0
  /\ LET late == -g.left
         Late(s) == IF ~s.active THEN s
                    ELSE [s EXCEPT !.since = late,
                                   !.left = (IF s.stop = "exit" THEN s.interval ELSE @) - late]
     IN Becomes(Once(CommandTickEvent([g EXCEPT !.since = 0], g.since - late, exits), Late), exits)
  /\ UNCHANGED want

(* fifo_push of each word: those that find the FIFO full are dropped.      *)
Push(s, words) ==
  LET n == Least(Len(words), MaxFifo - Len(s.fifo))
  IN [s EXCEPT !.fifo = @ \o SubSeq(words, 1, n), !.cropped = @ \/ n < Len(words)]

(* Mutant: a full FIFO is left to the event.                               *)
WriteToFull(w, exits) ==
  /\ Follow(<<w>>)
  /\ Becomes(ExecuteCommands(Push(g, <<w>>), exits), exits)

(* gpu_write_register, GP0                                                 *)
WriteGp0(w, exits) ==
  /\ Follow(<<w>>)
  /\ \E s \in {IF Len(g.fifo) >= FifoSize THEN InvokeEarly(g, exits) ELSE g} :
       IF s.stop = "exit" \/ Len(s.fifo) >= MaxFifo
       THEN Becomes([s EXCEPT !.cropped = TRUE], exits)
       ELSE Becomes(ExecuteCommands(Push(s, <<w>>), exits), exits)

(* The DMA engine sends a block while its request is up: gpu_dma_write     *)
(* per word, gpu_end_dma_write.  Nothing is executed before the end of the *)
(* block, so that of a block longer than the room the rest is dropped.  A  *)
(* request answered at once is answered inside the operation that raised   *)
(* it, with the same effect.                                               *)
DmaWrite(block, exits) ==
  /\ g.request /\ g.direction = "in"
  /\ Becomes(ExecuteCommands(Push(g, block), exits), exits)
  /\ Follow(block)

(* gpu_read_gpuread of a transfer, for the CPU or the DMA engine.          *)
ReadWord(s, exits) ==
  IF s.unread > 1 THEN [s EXCEPT !.unread = @ - 1]
  ELSE ExecuteCommands([s EXCEPT !.unread = 0, !.blitter = "idle"], exits)

ReadGpuRead(exits) ==
  /\ g.blitter = "reading"
  /\ Becomes(ReadWord(g, exits), exits)
  /\ UNCHANGED want

(* gpu_read_register, GPUSTAT                                              *)
ReadStat(exits) ==
  /\ g.active /\ g.pending > 0 /\ 2 * g.since >= g.pending
  /\ Becomes(InvokeEarly(g, exits), exits)
  /\ UNCHANGED want

(* GP1_COMMAND_SET_DISPLAY_MODE; the other display registers synchronise   *)
(* the CRTC only.                                                          *)
SetDisplayMode(exits) ==
  /\ Becomes(InvokeEarly(g, exits), exits)
  /\ UNCHANGED want

SetDmaDirection(d) ==
  /\ g' = IF g.direction = d THEN g ELSE UpdateDmaRequest([g EXCEPT !.direction = d])
  /\ UNCHANGED <<want, derailed>>

Emptied(s) ==
  [s EXCEPT !.blitter = "idle", !.total = 0, !.pending = 0, !.remaining = 0,
            !.unread = 0, !.fifo = <<>>]

(* GP1_COMMAND_CLEAR_FIFO.  The vertices of a polyline that is cut short   *)
(* stay in its buffer.                                                     *)
FifoCleared(s) ==
  UpdateGpuIdle(UpdateDmaRequest(
    [Emptied(s) EXCEPT !.active = FALSE, !.since = 0, !.left = 0]))

(* gpu_soft_reset, GP1_COMMAND_RESET_GPU                                   *)
SoftReset(s) ==
  UpdateGpuIdle(UpdateCommandTickEvent(UpdateDmaRequest([Emptied(s) EXCEPT !.direction = "off"])))

(* The FIFO and what is in progress are given up, unless the host leaves   *)
(* when the event or the CRTC is brought up to date first.                 *)
Gp1Reset(exits, Do(_)) ==
  \E s \in {InvokeEarly(g, exits)} :
    IF exits \/ s.stop = "exit" THEN Becomes(Stop(s, "exit"), exits) /\ UNCHANGED want
    ELSE /\ g' = [Do(s) EXCEPT !.cropped = FALSE, !.stop = "no"]
         /\ want' = Idle0
         /\ derailed' = LeavesVertices(Do(s))

ClearFifo(exits) == Gp1Reset(exits, FifoCleared)
ResetGpu(exits) == Gp1Reset(exits, SoftReset)

(* gpu_do_state, of a state as it is written.  The polyline buffer is not  *)
(* part of it and stays that of the machine before, executing_commands     *)
(* stays too.  The scheduler restores the times of an event it finds.      *)
LoadState ==
  /\ \E n \in {0, g.polyline} :
       LET s == UpdateCommandTickEvent(UpdateDmaRequest([g EXCEPT !.polyline = n]))
       IN g' = IF g.active /\ s.active
               THEN [s EXCEPT !.since = g.since, !.left = g.left, !.interval = g.interval] ELSE s
  /\ derailed' = (derailed \/ g'.polyline # g.polyline)
  /\ UNCHANGED want

Step ==
  \/ Elapse \/ LoadState
  \/ \E d \in kit.directions : SetDmaDirection(d)
  \/ \E exits \in BOOLEAN :
       \/ CommandEvent(exits)
       \/ \E w \in kit.words : WriteGp0(w, exits)
       \/ \E n \in 1..Block : \E block \in [1..n -> kit.words] : DmaWrite(block, exits)
       \/ ReadGpuRead(exits) \/ ReadStat(exits)
       \/ SetDisplayMode(exits) \/ ClearFifo(exits) \/ ResetGpu(exits)

Next == Step /\ UNCHANGED kit

(* Time passes, and the scheduler calls the event.                         *)
Fairness ==
  /\ WF_vars(Elapse /\ UNCHANGED kit)
  /\ WF_vars(\E exits \in BOOLEAN : CommandEvent(exits) /\ UNCHANGED kit)

Spec == Init /\ [][Next]_vars /\ Fairness

-----------------------------------------------------------------------------
GpuState ==
  [fifo : Seq(Word), blitter : {"idle", "reading", "writing", "polyline"},
   total : 0..4, pending : (-2 * Enough)..(MaxRunAhead + DrawTicks), remaining : 0..2, unread : 0..2,
   polyline : 0..MaxPolyline, shaded : BOOLEAN, cropped : BOOLEAN,
   direction : {"off", "in", "out"}, request : BOOLEAN, idle : BOOLEAN,
   executing : BOOLEAN, active : BOOLEAN, since : 0..Enough, left : Int,
   interval : Nat, stop : {"no"}, exited : BOOLEAN]

(* The FIFO never holds more than its 4096 entries, and the debt of the    *)
(* commands that have run is bounded by the run-ahead and one command.     *)
TypeOK ==
  /\ g \in GpuState
  /\ Len(g.fifo) <= MaxFifo
  /\ kit \in Kits /\ derailed \in BOOLEAN

(* Words mean what they mean in the order they were sent, however they are *)
(* cut into DMA blocks and GP0 writes, whenever the GPU stops to pay for   *)
(* commands, is read from, or is left by the host in the middle: from      *)
(* where it is, the words of the FIFO lead to where a parser of the whole  *)
(* stream is (gpu_try_execute_commands).  The exceptions: GP0 writes to a  *)
(* FIFO of 4096 words or cut off by an exit, DMA blocks longer than the    *)
(* room in it, polylines beyond 4096 words, and a polyline cut short by    *)
(* GP1 or changed by a load, whose vertices stay in the buffer for the     *)
(* next.                                                                   *)
WordsAreFramed == ~derailed => ParseAll(Position(g), g.fifo) = want

(* The request line of the DMA channel and the idle bit of GPUSTAT are     *)
(* those of the present state whichever operation came last, and the event *)
(* runs exactly while there are commands to pay for; only an exit in the   *)
(* middle of a command, until the event runs the next time, leaves them    *)
(* behind (gpu_execute_commands, executing_commands).                      *)
FlagsFollowState ==
  ~g.executing =>
    /\ g.request = Request(g)
    /\ g.idle = IsIdle(g)
    /\ g.active = (g.pending > 0)

(* The event comes when all the debt is paid, and not before: what its     *)
(* ticks are worth by then is at least what is pending.                    *)
EventPaysAll == g.active /\ ~g.executing /\ g.since < Enough => 2 * (g.since + g.left) >= g.pending

(* Nothing but an exit leaves executing_commands set.                      *)
OnlyExitsStick == g.executing => g.exited

(* Blocks the FIFO has room for beside what the request line lets stand in *)
(* it: fewer than FifoSize words, or three of a command of four.           *)
ShortBlock(n) == n + FifoSize <= MaxFifo + 1 /\ n + 3 <= MaxFifo

(* A program that heeds the request line and sends no longer blocks loses  *)
(* no word: while the request is up a whole block finds room, so that      *)
(* gpu_dma_write's unchecked fifo_push drops none.                         *)
BlocksFit ==
  g.request /\ g.direction = "in" /\ ~g.executing =>
    \A n \in 1..Block : ShortBlock(n) => Len(g.fifo) + n <= MaxFifo

(* FIFO, request, idle bit, event and debt agree: variables in range,      *)
(* FlagsFollowState, EventPaysAll, OnlyExitsStick, BlocksFit.              *)
FlagsAndEventAgree ==
  /\ TypeOK
  /\ FlagsFollowState
  /\ EventPaysAll
  /\ OnlyExitsStick
  /\ BlocksFit

(* The event is not overdue by more than an instruction, and what it finds *)
(* to have passed when it runs is no negative time.                        *)
EventInReach == g.active => g.left >= -MaxLate /\ (g.since < Enough => g.since + g.left >= 0)

(* What keeps FlagsAndEventAgree.                                          *)
IndInv ==
  /\ TypeOK
  /\ FlagsFollowState
  /\ EventPaysAll
  /\ OnlyExitsStick
  /\ EventInReach

(* A polyline begins with an empty buffer, and nothing has been dropped.   *)
Clean(s) == ~s.cropped /\ (s.blitter # "polyline" => s.polyline = 0)

(* What keeps WordsAreFramed.                                              *)
IndFramed ==
  ~derailed => Clean(g) /\ ParseAll(Position(g), g.fifo) = want

(* The words that wait for time are taken up again: writes of GP0, each of *)
(* which puts the event off to pay for all the debt from then on, cannot   *)
(* put it off for ever, because a full FIFO invokes it                     *)
(* (gpu_write_register, gpu_update_command_tick_event).                    *)
Waiting == g.fifo # <<>> /\ g.pending > MaxRunAhead /\ g.blitter # "reading"
WaitingEnds == (Waiting /\ g.active /\ g.since > MaxLate) ~> (~g.active \/ g.since <= MaxLate)
==============================================================================
