--------------------------------- MODULE Dma ---------------------------------
(***************************************************************************)
(* The DMA controller, src/core/dma/dma.c.                                 *)
(*                                                                         *)
(* A transfer calls into a device, and the device may call                 *)
(* dma_set_request for its own or another channel before it returns, which *)
(* starts a transfer inside the transfer.  So the calls in progress are a  *)
(* stack of frames, and each action is the code of one frame up to its     *)
(* next call or return:                                                    *)
(*   "first"  dma_transfer_channel before its first block;                 *)
(*   "loop"   dma_transfer_channel back from the device;                   *)
(*   "device" the device of a channel, called for a block;                 *)
(*   "unhalt", "dpcr"  the sweep over the channels of dma_unhalt_transfer  *)
(*            and of a DPCR write, ch being the next channel;              *)
(*   "chcr"   a write of the OTC's control after dma_set_request.          *)
(* The CPU, the scheduler and the host act while the stack is empty.       *)
(*                                                                         *)
(* The GPU may end a frame while it is called for a block, and the exit of *)
(* the CPU then abandons all calls in progress (FrameEnds).                *)
(*                                                                         *)
(* Block control counts 0 as Full blocks (65536 in the code).  Addresses   *)
(* and data are left out: an entry of a linked list may be the last one,   *)
(* and any block may lie beyond RAM.  How many blocks fit into a slice of  *)
(* time depends on the settings, on the pad and on how late events are     *)
(* (dma_get_max_slice_ticks); a slice has at least one tick, so the first  *)
(* block is always moved.  The unhalt event does not move while it is      *)
(* active, so its callback is called for exactly the ticks it was          *)
(* scheduled for.                                                          *)
(***************************************************************************)
EXTENDS Integers, Sequences, FiniteSets

CONSTANTS
  Channel,     \* the channels in use, by number
  Otc,         \* the ordering table channel
  SyncModes,   \* per channel, a subset of {"manual", "request", "list"}
  Slices,      \* how many blocks a slice may have time for
  Full,        \* the number of blocks a count of 0 stands for
  Delays,      \* chopping delays the program may ask for, 0 for none
  HaltTicks,   \* the halt ticks setting
  Reenters,    \* [from |-> c, to |-> d, level |-> b]: the device of c may set
               \* the request of d to b while it is called for a block
  Exits,       \* the channels whose device may end a frame, that of the GPU
  DicrWrites,  \* bound: what the program writes to DICR, its fields and the
               \* flags it acknowledges
  MaxHalt      \* bound: no start while the halts add up to more than this

ASSUME ChannelAssumption ==
  /\ Channel \subseteq Nat /\ IsFiniteSet(Channel)
  /\ SyncModes \in [Channel -> SUBSET {"manual", "request", "list"}]
  /\ Slices \subseteq Nat \ {0}
  /\ Full \in Nat \ {0}
  /\ Delays \subseteq Nat
  /\ HaltTicks \in Nat \ {0}
  /\ Reenters \subseteq [from : Channel, to : Channel, level : BOOLEAN]
  /\ Exits \subseteq Channel
  /\ DicrWrites \subseteq [busError : BOOLEAN, enable : SUBSET Channel,
                           master : BOOLEAN, ack : SUBSET Channel]
  /\ MaxHalt \in Nat

VARIABLES
  chan,        \* per channel: enable_busy, sync_mode, block count, request
  dpcr,        \* the channels whose master enable is set
  dicr,        \* the interrupt register
  line,        \* the level of the DMA interrupt line
  remaining,   \* halt_ticks_remaining
  unhalt_event,  \* whether it is active, and the ticks it was scheduled for
  stack,       \* the calls in progress, innermost first
  owed,        \* ghost: blocks to move before the transfer is complete, Full for
               \* one that moves blocks again
  abandoned    \* ghost: what ends of frames have left undone, see NothingUndone

vars == <<chan, dpcr, dicr, line, remaining, unhalt_event, stack, owed, abandoned>>

Count(n) == IF n = 0 THEN Full ELSE n

NoEvent == [active |-> FALSE, ticks |-> 0]
After(ticks) == [active |-> TRUE, ticks |-> ticks]

(* dma_is_transfer_halted                                                  *)
Halted == unhalt_event.active

(* dma_can_transfer_channel                                                *)
CanTransfer(ch, c, ignoreHalt) ==
  /\ c \in dpcr
  /\ ch[c].busy
  /\ ch[c].mode = "manual" \/ ~Halted \/ ignoreHalt
  /\ ch[c].request

(* left: blocks to move; slice: blocks the slice has time for.             *)
Frame(op, c, left) == [op |-> op, ch |-> c, left |-> left, slice |-> 0]
Loop(c, left, slice) == [op |-> "loop", ch |-> c, left |-> left, slice |-> slice]
Push(f, s) == <<f>> \o s
TopIs(op) == stack # <<>> /\ Head(stack).op = op
Sweeps == {"unhalt", "dpcr"}

(* dma_transfer_channel is called on top of the calls in s.                *)
Call(ch, c, s) ==
  Push(Frame("first", c, IF ch[c].mode = "request" THEN Count(ch[c].blocks) ELSE 1), s)

(* Its return value matters to the sweeps, which end when it is false.     *)
ReturnFrom(s, result) ==
  IF ~result /\ Tail(s) # <<>> /\ Head(Tail(s)).op \in Sweeps
  THEN Tail(Tail(s)) ELSE Tail(s)

(* A channel that an end of a frame has left behind is started again, or   *)
(* has nothing to do any more.                                             *)
NoteStart ==
  LET started == IF stack' # <<>> /\ Head(stack').op = "first" THEN {Head(stack').ch} ELSE {}
  IN abandoned' = [abandoned EXCEPT
                     !.waiting = {c \in @ \ started : chan'[c].busy /\ chan'[c].request}]

(* dma_set_request, called with the calls in s left to return to.          *)
SetRequest(c, level, s) ==
  LET ch == [chan EXCEPT ![c].request = level] IN
    /\ chan' = ch
    /\ stack' = IF chan[c].request # level /\ CanTransfer(ch, c, FALSE)
                THEN Call(ch, c, s) ELSE s
    /\ NoteStart

-----------------------------------------------------------------------------
(* Interrupts *)

MasterFlag(d) == d.busError \/ (d.master /\ d.flags # {})

(* dma_update_irq                                                          *)
UpdateIrq == line' = MasterFlag(dicr')

(* dma_complete_transfer, the flag in DICR and the line.                   *)
RaiseCompletion(c) ==
  IF c \in dicr.enable /\ dicr.master
  THEN dicr' = [dicr EXCEPT !.flags = @ \cup {c}] /\ UpdateIrq
  ELSE UNCHANGED <<dicr, line>>

-----------------------------------------------------------------------------
Idle == [busy |-> FALSE, mode |-> "manual", blocks |-> 0, request |-> FALSE]

(* The channels whose transfer moves blocks again that it has moved        *)
(* before, the channels that nothing will start, and whether ticks of a    *)
(* halt were kept without its event.                                       *)
NothingUndone == [repeating |-> {}, waiting |-> {}, halt |-> FALSE]

ClearDicr == [busError |-> FALSE, enable |-> {}, master |-> FALSE, flags |-> {}]

Init ==
  /\ chan = [c \in Channel |-> Idle]
  /\ dpcr = {}
  /\ dicr = ClearDicr
  /\ line = FALSE
  /\ remaining = 0 /\ unhalt_event = NoEvent
  /\ stack = <<>>
  /\ owed = [c \in Channel |-> Full]
  /\ abandoned = NothingUndone

(* dma_halt_transfer: an event that is active already is not moved.        *)
HaltTransfer(duration) ==
  /\ remaining' = remaining + duration
  /\ unhalt_event' = IF Halted THEN unhalt_event ELSE After(remaining + duration)
  /\ abandoned' = [abandoned EXCEPT !.halt = FALSE]

-----------------------------------------------------------------------------
(* The registers.                                                          *)

Resting == stack = <<>>

WriteBlockControl(c, n) ==
  /\ Resting
  /\ chan' = [chan EXCEPT ![c].blocks = n]
  /\ owed' = [owed EXCEPT ![c] = Count(n)]
  /\ abandoned' = [abandoned EXCEPT !.repeating = @ \ {c}]
  /\ UNCHANGED <<dpcr, dicr, line, remaining, unhalt_event, stack>>

(* Mutant: a chopped transfer is marked as halted but the event that ends  *)
(* the halt is not scheduled.                                              *)
WriteChannelControlNoEvent(c, busy, mode, delay, trigger) ==
  LET ignoreHalt == ~chan[c].busy /\ busy
      ch == [chan EXCEPT ![c].busy = busy, ![c].mode = mode]
      starts == CanTransfer(ch, c, ignoreHalt)
      chopped == mode = "manual" /\ delay > 1
  IN
  /\ Resting /\ c # Otc /\ (Halted => remaining <= MaxHalt)
  /\ chan' = ch
  /\ stack' = IF starts /\ ~chopped THEN Call(ch, c, stack) ELSE stack
  /\ IF starts /\ chopped THEN remaining' = remaining + delay ELSE UNCHANGED remaining
  /\ NoteStart
  /\ UNCHANGED <<dpcr, dicr, line, owed, unhalt_event>>

(* dma_write_register, channel control, except for the OTC.  A channel     *)
(* that was not busy does not wait for the halt of another one.  delay is  *)
(* the time estimated for a chopped transfer of more than four words.      *)
WriteChannelControl(c, busy, mode, delay, trigger) ==
  LET ignoreHalt == ~chan[c].busy /\ busy
      ch == [chan EXCEPT ![c].busy = busy, ![c].mode = mode]
      starts == CanTransfer(ch, c, ignoreHalt)
      chopped == mode = "manual" /\ delay > 1
  IN
  /\ Resting /\ c # Otc /\ (Halted => remaining <= MaxHalt)
  /\ chan' = ch
  /\ stack' = IF starts /\ ~chopped THEN Call(ch, c, stack) ELSE stack
  /\ IF starts /\ chopped THEN HaltTransfer(delay)
     ELSE NoteStart /\ UNCHANGED <<remaining, unhalt_event>>
  /\ UNCHANGED <<dpcr, dicr, line, owed>>

(* The same for the OTC, whose request is the start trigger.  The request  *)
(* may start the transfer already; then it is over when the rest runs.     *)
WriteOtcControl(c, busy, mode, delay, trigger) ==
  LET ch == [chan EXCEPT ![c].busy = busy, ![c].mode = mode, ![c].request = trigger]
      rest == Push(Frame("chcr", c, IF ~chan[c].busy /\ busy THEN 1 ELSE 0), stack)
  IN
  /\ Resting /\ c = Otc /\ (Halted => remaining <= MaxHalt)
  /\ chan' = ch
  /\ stack' = IF chan[c].request # trigger /\ CanTransfer(ch, c, FALSE)
              THEN Call(ch, c, rest) ELSE rest
  /\ NoteStart
  /\ UNCHANGED <<dpcr, dicr, line, remaining, unhalt_event, owed>>

OtcControlWritten ==
  /\ TopIs("chcr")
  /\ LET f == Head(stack) IN
       stack' = IF CanTransfer(chan, f.ch, f.left = 1)
                THEN Call(chan, f.ch, Tail(stack)) ELSE Tail(stack)
  /\ UNCHANGED <<chan, dpcr, dicr, line, remaining, unhalt_event, owed>>
  /\ NoteStart

WriteDpcr(enabled) ==
  /\ Resting
  /\ dpcr' = enabled
  /\ stack' = <<Frame("dpcr", 0, 0)>>
  /\ UNCHANGED <<chan, dicr, line, remaining, unhalt_event, owed, abandoned>>

WriteDicr(value) ==
  /\ Resting
  /\ dicr' = [busError |-> value.busError, enable |-> value.enable,
              master |-> value.master, flags |-> dicr.flags \ value.ack]
  /\ UpdateIrq
  /\ UNCHANGED <<chan, dpcr, remaining, unhalt_event, stack, owed, abandoned>>

(* A device asks for a transfer, or no longer, from a register write or an *)
(* event of its own.                                                       *)
DeviceRequest(c, level) ==
  /\ Resting /\ c # Otc
  /\ SetRequest(c, level, stack)
  /\ UNCHANGED <<dpcr, dicr, line, remaining, unhalt_event, owed>>

-----------------------------------------------------------------------------
(* dma_transfer_channel                                                    *)

(* The do-while of a transfer by request and the while of a list; manual   *)
(* transfers have a single block.                                          *)
AtBlock ==
  \/ TopIs("first")
  \/ TopIs("loop") /\ Head(stack).left > 0 /\ Head(stack).slice > 0 /\ chan[Head(stack).ch].request

(* Mutant: nothing is stored on the way.                                   *)
StoreNothing(c) == chan

(* The block count in the register once a transfer by request stops.       *)
StoreProgress(c) ==
  [chan EXCEPT ![c].blocks = IF chan[c].mode = "request" THEN Head(stack).left % Full ELSE @]

(* dma_check_for_bus_error: the transfer is given up.                      *)
BusError ==
  \E c \in Channel :
  /\ AtBlock /\ c = Head(stack).ch
  /\ chan' = [StoreProgress(c) EXCEPT ![c].busy = FALSE]
  /\ dicr' = [dicr EXCEPT !.busError = TRUE, !.flags = @ \cup {c}]
  /\ UpdateIrq
  /\ stack' = ReturnFrom(stack, TRUE)
  /\ UNCHANGED <<dpcr, remaining, unhalt_event, owed, abandoned>>

(* One block, one entry of a list or the whole of a manual transfer.  An   *)
(* entry without words does not call the device, as if it did nothing.     *)
Block(last, slice) ==
  \E c \in Channel :
  /\ AtBlock /\ c = Head(stack).ch
  /\ LET f == Head(stack)
         left == IF chan[c].mode = "list" /\ ~last THEN f.left ELSE f.left - 1
         ticks == IF f.op = "first" THEN slice ELSE f.slice
     IN stack' = Push(Frame("device", c, 0), Push(Loop(c, left, ticks - 1), Tail(stack)))
  /\ owed' = IF chan[c].mode = "request" /\ c \notin abandoned.repeating
             THEN [owed EXCEPT ![c] = @ - 1] ELSE owed
  /\ UNCHANGED <<chan, dpcr, dicr, line, remaining, unhalt_event, abandoned>>

(* The device sets a request while it is called for a block of c.          *)
DeviceNested ==
  /\ TopIs("device")
  /\ \E r \in Reenters : r.from = Head(stack).ch /\ SetRequest(r.to, r.level, stack)
  /\ UNCHANGED <<dpcr, dicr, line, remaining, unhalt_event, owed>>

DeviceReturn ==
  /\ TopIs("device")
  /\ stack' = Tail(stack)
  /\ UNCHANGED <<chan, dpcr, dicr, line, remaining, unhalt_event, owed, abandoned>>

(* The channels that the calls in progress move or would start.            *)
InHands ==
  {c \in Channel : \E i \in DOMAIN stack :
     \/ stack[i].op \in {"first", "loop", "chcr"} /\ c = stack[i].ch
     \/ stack[i].op \in Sweeps /\ c >= stack[i].ch}

(* The command that the block completes ends a frame, and the CPU leaves   *)
(* its loop: no call in progress is returned to, so no progress is stored  *)
(* and no sweep goes on.                                                   *)
FrameEnds ==
  /\ TopIs("device") /\ Head(stack).ch \in Exits
  /\ stack' = <<>>
  /\ abandoned' =
       [repeating |-> abandoned.repeating \cup
          {c \in Channel : chan[c].mode = "request"
                            /\ \E i \in DOMAIN stack : stack[i].op = "loop" /\ stack[i].ch = c},
        waiting |-> abandoned.waiting \cup {c \in InHands : CanTransfer(chan, c, FALSE)},
        halt |-> abandoned.halt \/ (remaining > 0 /\ \E i \in DOMAIN stack : stack[i].op = "unhalt")]
  /\ owed' = [c \in Channel |-> IF c \in abandoned'.repeating THEN Full ELSE owed[c]]
  /\ UNCHANGED <<chan, dpcr, dicr, line, remaining, unhalt_event>>

Looping(c) == TopIs("loop") /\ Head(stack).ch = c

(* Everything is moved: dma_complete_transfer.                             *)
Complete ==
  \E c \in Channel :
  /\ Looping(c) /\ Head(stack).left = 0
  /\ chan' = [chan EXCEPT ![c].busy = FALSE,
                          ![c].blocks = IF chan[c].mode = "request" THEN 0 ELSE @]
  /\ IF chan[c].mode = "request"
     THEN /\ owed' = [owed EXCEPT ![c] = Full]
          /\ abandoned' = [abandoned EXCEPT !.repeating = @ \ {c}]
     ELSE UNCHANGED <<owed, abandoned>>
  /\ RaiseCompletion(c)
  /\ stack' = ReturnFrom(stack, TRUE)
  /\ UNCHANGED <<dpcr, remaining, unhalt_event>>

(* The device does not want more for now.                                  *)
RequestDropped ==
  \E c \in Channel :
  /\ Looping(c) /\ Head(stack).left > 0 /\ ~chan[c].request
  /\ chan' = StoreProgress(c)
  /\ stack' = ReturnFrom(stack, TRUE)
  /\ UNCHANGED <<dpcr, dicr, line, remaining, unhalt_event, owed, abandoned>>

(* The slice is over, with blocks left.  A list always adds a halt, a      *)
(* transfer by request only when there is none.                            *)
SliceOver ==
  \E c \in Channel :
  /\ Looping(c) /\ Head(stack).left > 0 /\ chan[c].request /\ Head(stack).slice = 0
  /\ chan' = StoreProgress(c)
  /\ IF chan[c].mode = "list" \/ ~Halted
     THEN HaltTransfer(HaltTicks)
     ELSE UNCHANGED <<remaining, unhalt_event, abandoned>>
  /\ stack' = ReturnFrom(stack, FALSE)
  /\ UNCHANGED <<dpcr, dicr, line, owed>>

-----------------------------------------------------------------------------
(* The unhalt event and the sweeps.                                        *)

(* Mutant: only the halt is ended, the channels are left to their devices. *)
UnhaltNoSweep ==
  /\ Resting /\ Halted
  /\ remaining' = 0
  /\ unhalt_event' = NoEvent
  /\ UNCHANGED <<chan, dpcr, dicr, line, owed, abandoned, stack>>

(* dma_unhalt_transfer                                                     *)
Unhalt ==
  /\ Resting /\ Halted
  /\ remaining' = remaining - unhalt_event.ticks
  /\ unhalt_event' = NoEvent
  /\ stack' = <<Frame("unhalt", 0, 0)>>
  /\ UNCHANGED <<chan, dpcr, dicr, line, owed, abandoned>>

Waiting(i) == {c \in Channel : c >= i /\ CanTransfer(chan, c, FALSE)}

(* The next channel that can transfer does.                                *)
SweepNext ==
  /\ TopIs("unhalt") \/ TopIs("dpcr")
  /\ \E c \in Waiting(Head(stack).ch) :
       /\ \A d \in Waiting(Head(stack).ch) : c <= d
       /\ stack' = Call(chan, c, Push(Frame(Head(stack).op, c + 1, 0), Tail(stack)))
  /\ UNCHANGED <<chan, dpcr, dicr, line, remaining, unhalt_event, owed>>
  /\ NoteStart

(* No channel of the sweep had to stop: what is left of the halts is       *)
(* dropped.                                                                *)
SweepEnd ==
  /\ TopIs("unhalt") \/ TopIs("dpcr")
  /\ Waiting(Head(stack).ch) = {}
  /\ remaining' = IF TopIs("unhalt") THEN 0 ELSE remaining
  /\ stack' = Tail(stack)
  /\ UNCHANGED <<chan, dpcr, dicr, line, unhalt_event, owed, abandoned>>

-----------------------------------------------------------------------------
(* The host, between frames.                                               *)

(* dma_reset and the reset of the interrupt controller.                    *)
Reset ==
  /\ Resting
  /\ chan' = [c \in Channel |-> Idle]
  /\ dpcr' = {} /\ dicr' = ClearDicr /\ line' = FALSE
  /\ remaining' = 0 /\ unhalt_event' = NoEvent
  /\ owed' = [c \in Channel |-> Full]
  /\ abandoned' = NothingUndone
  /\ UNCHANGED <<stack>>

(* dma_do_state and timing_events_do_state.  Loading takes the machine     *)
(* back to where it was when the state was written, except for what is not *)
(* written, so it is enough to load each state at once: the unhalt event   *)
(* is active when ticks remain, at its saved time if it was active.  The   *)
(* state may be written right after a frame has ended within a transfer.   *)
SaveAndLoad ==
  /\ Resting
  /\ unhalt_event' = IF remaining <= 0 THEN NoEvent
                     ELSE IF Halted THEN unhalt_event ELSE After(remaining)
  /\ abandoned' = [abandoned EXCEPT !.halt = FALSE]
  /\ UNCHANGED <<chan, dpcr, dicr, line, remaining, stack, owed>>

-----------------------------------------------------------------------------
Program ==
  \/ \E c \in Channel, n \in 0..Full - 1 : "request" \in SyncModes[c] /\ WriteBlockControl(c, n)
  \/ \E c \in Channel : \E busy, trigger \in BOOLEAN, mode \in SyncModes[c], delay \in Delays :
       \/ WriteChannelControl(c, busy, mode, delay, trigger)
       \/ WriteOtcControl(c, busy, mode, delay, trigger)
  \/ \E enabled \in SUBSET Channel : WriteDpcr(enabled)
  \/ \E value \in DicrWrites : WriteDicr(value)

Transfer ==
  \/ BusError
  \/ \E last \in BOOLEAN, slice \in Slices : Block(last, slice)
  \/ Complete \/ RequestDropped \/ SliceOver
  \/ SweepNext \/ SweepEnd
  \/ OtcControlWritten

Device == \E c \in Channel, level \in BOOLEAN : DeviceRequest(c, level)
Host == Reset \/ SaveAndLoad

Next ==
  \/ Program \/ Device \/ Transfer \/ DeviceNested
  \/ DeviceReturn \/ FrameEnds
  \/ Unhalt \/ Host

Spec == Init /\ [][Next]_vars

(* The calls run to their end, the device's by its return or the end of a  *)
(* frame, and the scheduler runs its events.                               *)
FairSpec ==
  Spec /\ WF_vars(Transfer) /\ SF_vars(DeviceReturn \/ FrameEnds) /\ SF_vars(Unhalt)

-----------------------------------------------------------------------------
(* Properties *)

Control == [busy : BOOLEAN, mode : {"manual", "request", "list"}, blocks : 0..Full - 1, request : BOOLEAN]
Ops == {"first", "loop", "device", "unhalt", "dpcr", "chcr"}
Dicr == [busError : BOOLEAN, enable : SUBSET Channel, master : BOOLEAN, flags : SUBSET Channel]

TypeOK ==
  /\ chan \in [Channel -> Control]
  /\ dpcr \subseteq Channel
  /\ dicr \in Dicr
  /\ line \in BOOLEAN
  /\ remaining \in Int /\ unhalt_event \in [active : BOOLEAN, ticks : Int]
  /\ stack \in Seq([op : Ops, ch : Nat, left : Int, slice : Int])
  /\ owed \in [Channel -> Int]
  /\ abandoned \in [repeating : SUBSET Channel, waiting : SUBSET Channel, halt : BOOLEAN]

Ready(c) == c \in dpcr /\ chan[c].busy /\ chan[c].request

(* A channel that could transfer and does not is waiting for the unhalt    *)
(* event: none of the ways a transfer stops early (slice over, request     *)
(* dropped and raised again, sweep ended by another channel, chopping)     *)
(* leaves it behind with nothing that would start it again.  One does: the *)
(* end of a frame within a transfer leaves the channels of the calls it    *)
(* abandons behind until they are started for another reason.              *)
NoLostTransfer ==
  Resting => \A c \in Channel : Ready(c) => Halted \/ c \in abandoned.waiting

(* Halt ticks are left exactly while the unhalt event is active.  Loading  *)
(* a state activates the event from the ticks alone.  After a sweep that   *)
(* the end of a frame has cut off ticks may be left without the event,     *)
(* until the next halt or load.                                            *)
HaltMatchesEvent ==
  Resting => /\ Halted => remaining > 0
             /\ remaining > 0 => Halted \/ abandoned.halt
             /\ unhalt_event.ticks <= remaining

(* Between calls the block count in the register is what the transfer      *)
(* still has to move, however often it stopped, whoever stopped it, but    *)
(* for a transfer that the end of a frame has cut off, which starts over.  *)
BlocksAreExact ==
  Resting => \A c \in Channel \ abandoned.repeating : Count(chan[c].blocks) = owed[c]

(* The level of the line is what DICR says, whichever of completion, bus   *)
(* error, register write, reset and load changed it last.                  *)
LineFollowsDicr == line <=> MasterFlag(dicr)

(* Halt, registers and interrupt line agree with what has been transferred:*)
(* variables in range, HaltMatchesEvent, BlocksAreExact, LineFollowsDicr.  *)
TransfersAddUp ==
  /\ TypeOK
  /\ HaltMatchesEvent
  /\ BlocksAreExact
  /\ LineFollowsDicr

(* A transfer by request that is ready moves on, although it is stopped at *)
(* the end of each slice, as long as no channel before it is busy: the     *)
(* sweep ends at the first channel that has to stop again.  A transfer     *)
(* that the end of a frame has cut off may not.                            *)
ReadyMovesOn ==
  \A c \in Channel, n \in 1..Full :
    (Ready(c) /\ owed[c] = n /\ chan[c].mode = "request")
      ~> (~Ready(c) \/ owed[c] # n \/ chan[c].mode # "request"
            \/ c \in abandoned.waiting \cup abandoned.repeating
            \/ \E d \in Channel : d < c /\ chan[d].busy)
=============================================================================
