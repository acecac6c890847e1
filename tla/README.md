# A verification project for cupid-ps1

cupid-ps1 is a PlayStation emulator in C. This directory holds TLA+ models of
the parts of its core that are hard to test, the TLC configurations that check
them, and TLAPS proofs of the most important results. Paths below are those
of the repository (`core/...` stands for `src/core/...`, `util/...` for
`src/util/...`).

## 1. The system

One **core thread** runs everything the emulated machine does: the CPU, the
devices, and the callbacks by which the devices act in time. Beside it there
are the read-ahead worker of the CD-ROM and the audio callback of the host. So
most of what is hard is not concurrency of threads but the *order of calls*: a
register access inside an instruction can run a device's callback early, a
callback can reschedule any event (its own too), a frame end leaves the
innermost loop by `longjmp`, and a save state can replace everything between two
frames.

```
 host / front end --- system_execute ----------------------------+
        |                    |                                    |
   save states          cpu_execute  <-- downcount --  event scheduler
        |                    |  \                       |  callbacks
        |                registers  CAUSE.Ip            v
        |                    v      ^         timers  GPU/CRTC  SPU  MDEC
        |                   bus     |         CD-ROM  DMA  pad/SIO0  cards
        |                           |               |
        +------------> interrupt controller <--- lines
                             CD-ROM --- read-ahead worker --- disc image
                             SPU ------ audio ring ---------- audio callback
```

| Component | State | Operations | What makes it correct |
|---|---|---|---|
| event scheduler `core/scheduler` | sorted list of active events, times, running event and its stashed time, two clocks | schedule, delay, invoke early, (de)activate, run events, commit, reset, save/load | sorted and complete list, no event missed or late, CPU stops in time, loops end, deadlines survive a save state |
| CPU core `core/cpu` | registers, pending ticks, downcount, COP0 | instructions, exceptions, interrupt dispatch | precise interrupts, ticks accounted once |
| interrupt controller `core/interrupts` | status, mask, line levels | level changes, acknowledge, mask, load | edges latched once, request follows the registers |
| root counters `core/timers` | three counters, modes, flags, one shared event | bulk ticks, gates, register access | bulk counting equals single steps, no interrupt late, no tick under the wrong gate |
| CD-ROM read-ahead `core/cdrom/cdrom_async_reader.c` | sector ring, pending seek, flags, mutex, two condition variables | queue, wait, uncached read, swap, precache, start/stop | one user of the disc at a time, right sector, no lost wakeup |
| CD-ROM controller `core/cdrom/cdrom.c` | command, responses, drive state, interrupt queue, FIFOs | commands, four events, media change | one interrupt at a time and none lost, every command answered |
| DMA `core/dma` | seven channels, DPCR, DICR, halt ticks | register writes, requests, slices, unhalt | priorities, each transfer completed once, halted time not lost |
| SIO0 `core/input/pad.c`, `multitap.c` | transfer state, active device, buffers | select, transmit, transfer event, ack | one device at a time, acks in order, soft reset |
| memory cards | protocol state, data, changed flag, flush event | transfer, flush, load | changed data reaches the file |
| GPU commands `core/gpu/gpu.c`, `gpu_commands.c` | FIFO, blitter state, debt of ticks, command event | GP0/GP1, DMA, event | no word changes its meaning, request and idle bit follow the state, debts are paid |
| GPU video beam `core/gpu/gpu.c` | line, tick, remainders, vertical blank | CRTC event, register accesses, modes | bulk movement is exact, no edge lost, twice or late |
| MDEC `core/mdec` | FIFOs, decoder state, copy out event | registers, DMA blocks, event | FIFO bounds, requests follow the FIFOs, a stream flows |
| SPU | voices, transfer FIFO, RAM interrupt | registers, DMA, events | FIFO bounds, interrupt at its address |
| audio stream `util/audio` | ring with read and write position | write (core), read (callback), overrun, empty, pause, resize | a queue: every frame heard once, in order; sound comes back after an underrun |
| system `core/system` | machine state, flags, paths | boot, reset, pause, save, load, disc swap | components reset and restored in an order that keeps the invariants above |
| code cache, recompiler | blocks, links, page protection | compile, invalidate, link | no stale code runs |

`PROJECT.json` lists every component with its files, also those that are left
out: renderers, shader generation and machine-code emitters (data, checked by
the repository's parity tests), the GTE (arithmetic), file formats, settings,
the game database, input bindings, the front end, and the utility libraries.

The hard behaviours (the "hazards" of `PROJECT.json`, each at its line) are of
these kinds:

* *callbacks inside loops*: the commit loop of the scheduler holds an event
  while its callback rearranges the list;
* *cached values*: the downcount, the timers' counters and flags, the request
  bit of CAUSE, the times in a save state;
* *non-local exits*: frame ends by `longjmp` from the middle of a commit;
* *loads*: each component restores its part, and some only half of it;
* *threads*: unlocked fast paths of the read-ahead and of the audio ring;
* *bulk arithmetic* at targets and overflows.

## 2. The modules

| Module | Models | Run | Proved in |
|---|---|---|---|
| `TimingEvents` | `timing_event.c`, the execution loop and run loop that drive it | `timing_events` | `TimingEvents_proofs` |
| `EventClock` | abstract: what the scheduler promises | property `ImplementsClock` | `TimingEvents_proofs` |
| `EventSaveState` | `TimingEvents` with `timing_events_do_state` and the owners of events | `save_state` | `TimingEvents_proofs` |
| `Interrupts` | `interrupt_controller.c` and the CPU's side of an interrupt | `interrupts` | `Timers_proofs` |
| `CdromAsyncReader` | `cdrom_async_reader.c`: core thread and worker | `cdrom_reader` | `CdromAsyncReader_proofs` |
| `Timers` | `timers.c`, with the shared event | `timers` | `Timers_proofs` |
| `Dma` | `dma.c`: channels, halts, sweeps, DICR | `dma`, `mdec` | `Dma_proofs` |
| `Mdec` | `mdec.c`, extends `Dma` with the device on two of its channels | `mdec` | `Dma_proofs` |
| `CdromController` | `cdrom.c`: commands, responses, drive, interrupts | `cdrom` | `CdromController_proofs` |
| `MemoryCard` | `memory_card.c`: protocol and file | `port` | `PadPort_proofs` |
| `PadPort` | `pad.c`, `multitap.c`, digital controller, extends `MemoryCard` | `port` | `PadPort_proofs` |
| `GpuCommands` | the FIFO, blitter and command event of `gpu.c`, `gpu_commands.c` | `gpu` | `Gpu_proofs` |
| `GpuCrtc` | the video beam and its event | `crtc` | `Gpu_proofs` |
| `AudioQueue` | abstract: what the audio stream promises | property `ImplementsQueue` | `AudioRing_proofs` |
| `AudioRing` | `core_audio_stream.c`: core thread and callback | `audio` | `AudioRing_proofs` |

The `MC*` modules hold the values of the constants for TLC. A module begins
with its constants and variables, then has one action per operation, the
specification, and the properties. Operators introduced by a comment "Mutant:"
are deliberately wrong variants of the operator that follows them; no
specification uses them. They record which mistake a property catches.

Several properties are conjunctions of named parts (`TransfersAddUp`,
`BeamIsExact`, ...); the parts are defined just before, each with its comment.

### TimingEvents

`queue` is the doubly linked list as a sequence, the event fields are
functions over `Event`, and the other variables have the names of the code.
`phase` is the point of control: instructions (`cpu`), the top of
`timing_events_run_events` (`run`), the two loops of the commit (`outer`,
`inner`), a callback (`callback`), the end of the function (`tail`), or the
host after a `longjmp` (`out`). The device operations (`Schedule`, `Delay`,
`InvokeEarly`, `Activate`, ...) are enabled in every phase in which code other
than the scheduler's own has control, in any number and order; so a callback
is *every* sequence of operations, ended by `CallbackReturns`, and a register
handler likewise. `invoke_early` calls the callback as its last act, which
needs no stack for that reason. `ExitExecution` is the end of a frame, from a
callback or inside an instruction; `CommitLeftoverTicks` then takes up the rest
in the next `system_execute`. Two list walks are one step each: nothing else
runs during them. `SortEvent` and `AddActive` state the position the walk stops
at; equal times are ordered as the comparisons of the code order them.

The event `Crtc` never leaves the list, as the CRTC tick event of the GPU does
while a machine exists; the code relies on it by dereferencing the head.

`EventClock` is the specification a device author has in mind: a clock that
never passes a deadline, and a callback that is called when the clock stands on
it. The refinement maps an event's deadline to its stashed next time while its
callback runs, and to `next_run_time` otherwise. TLC checks the refinement on two
events, and `SchedulerIsClock` proves it for any.

### EventSaveState

Saving writes the stashed time for the running event. Loading restores the
times of the events that are active on both sides, so what it does depends on
how an event's owner treats the active flag when its own part is loaded, just
before. `Owner` gives each event one or more of three treatments found in the
code: `exact`, `flushed` (the memory card) and `activate` (the pad). The run uses
the first two; the third fails (see Disagreements).

A state may also end too soon. `system_do_state` then returns at the part that
cannot be read, without `system_interrupt_execution`, and execution goes on. There
are three places. `FailsBeforeEvents`: the CPU and some of the devices have been
loaded, and the CPU of the saved machine runs on with the schedule of this one.
What the devices loaded did to their events are operations on them, which the
model has as actions of their own. The saved downcount may be any up to
`MaxDeadline`, a superset of what was written. `FailsInEvents`: the error return of
`timing_events_do_state` (`timing_event.c:487-491`) leaves the loaded clocks, the
times of the events read so far over those of the others, a list that is not
sorted, and `current_event`. `FailsAfterEvents`: everything here has been loaded, but
inside a frame the CPU or the commit loop goes on with its locals over the loaded
machine.

After the second, and after the third inside a frame, the machine is `torn`, a
history variable: `TornStep` lets it do anything to the list until the host has
control, and its clocks are no longer followed, until a state is loaded to the end
that was not written by such a machine. The run checks that a machine that is
not torn has no event behind its clock, and catches up (`LoadedInTime`,
`LoadedCaughtUp`). It does not check `CpuStopsAtHead`, which a downcount from another
machine breaks until it is next computed (see Disagreements).

### Interrupts

Registers are sets of bits. CAUSE.Ip and SR.Im have a hardware and a software
bit; SR's stack of interrupt enables is a record of current, previous, old.
Of the downcount only whether it is 0 matters (`stop`). An instruction may do
one of the things that make an interrupt pending, and runs only while `stop`
is false.

### CdromAsyncReader

Worker and core thread are two processes with program counters and a mutex.
Steps that the other thread cannot observe half done are atomic: code under
the mutex, and single atomic accesses outside it. The two loads, the increment
of the front and the decrement of the count on the unlocked hit path are
separate steps. A signal only wakes a thread that sleeps. Every sector buffer
records which sector of which disc its data came from. Reads and seeks fail on
`Bad` sectors and beyond the end. `buffer_count` is unsigned, so it is counted
modulo `CountMod`, which stands for 2^32.

The interface is only correct under a discipline that the header does not
spell out: a queued read is waited for before the next is queued, a failed wait
is not repeated, and the disc does not change while a read is in flight.
`Calls` lets callers break each rule, as `cdrom.c` does ("requeue", "rewait",
"eject"). The run has `Calls = {}`; with any of them some property fails (see
Disagreements), and what follows a broken rule is no longer meaningful. The
proof of `MediaExclusive` shows which rule that property needs: only that the
disc is not changed under a read (`"eject" \notin Calls`).

### Timers

A timer is a record; its mode is the record of the bits that have an effect.
The model keeps the shared event as two numbers, the ticks since it last ran
and the ticks until it runs next. `Elapse` advances time; an instruction can
overrun the event by `MaxLate`. Register accesses bring the counters up to date
first (`InvokeEarly`), the GPU's gate changes do so only in the cases the code
lists. `owed` is a history: the ticks each timer should still count, under the
gate and the mode in force while they passed.

### Dma and Mdec

`dma_transfer_channel` calls a device, which may call `dma_set_request` for any
channel before it returns, and so start a transfer inside a transfer. The model
makes the calls in progress explicit: `stack` is a sequence of frames, and each
action is the code of the top frame up to its next call or return. The CPU, the
scheduler and the host act when the stack is empty; invariants that talk of
rest start with `Resting`. `owed` is a history: the blocks each channel has been
told to move and has not moved. How many blocks fit into a slice of time
depends on settings and on how late events are, and is a choice; the first block
of a slice is always moved.

A device's call may also not return. At the end of a block the GPU executes
commands (`dma.c:842`) or brings the CRTC up to date, and a frame that ends there
leaves all calls in progress by `longjmp`. `FrameEnds` is that: it empties the stack,
from a device in `Exits`, and records in `abandoned` what is left undone: the transfers
whose progress was not stored and which move blocks again, the channels that a
call had still in hand and that nothing will start before the next request, and
whether a sweep had ticks of a halt left. A state may be written right there
(`SaveAndLoad`).

`Mdec` extends `Dma`: the decoder is the device of channels 0 and 1, its own
functions are frames of the same stack, and of the FIFOs only the sizes are
kept. `mdec_update_status` sets the request of both channels, which starts
transfers, which run the decoder, which updates the status. `nested` is a history:
such a request has started a transfer within another of the same channel, or
within the sweep of an unhalt event. `InBlock`, the size of a block of input, is
the program's choice, and need not be `Burst`, the space for which the decoder
asks. The program itself may write a word that the input FIFO has no room for,
and read from an empty output FIFO while a macroblock is to come: the code pushes
and pops all the same, and the sizes are wrong from then on. `misused` is that
history, until a reset.

### CdromController

The controller is one record and each function of the code a function of it, so
that a handler reads as the calls it makes, the first innermost. `active` is the
set of its events that are scheduled; times are left out, so any may be next.
Commands of the same shape stand for one another ("simple" is any that only
answers). `hasty` is a history: the program wrote a command over an interrupt or
a command in progress, or a state was loaded at such a moment; the code can then
get stuck, and the properties say that it cannot otherwise.

### MemoryCard and PadPort

A card is a record with one sector of `FrameSize` bytes, its file, the flag that
it was changed, and the delayed save event; `owed` says that the program was
answered for a written sector that is not in the file. `PadPort` has the
registers of the port, the transfer and acknowledge event, and the devices:
a controller and a card, or a multitap with controllers in every slot and the
card in the first. A kit is what a program sends: TLC checks each kit as a
separate behaviour.

`SaveState` and `LoadState` are `pad_do_state` with the devices. The state has
neither the active device nor the byte that waits, and the event is activated if
the loaded port is in a transfer and left alone if it is not. So an idle port may be
left with an event (`stray`), which then acknowledges a byte nobody sent, and a
loaded exchange may go on with the device that was active before (`mixed`). Both
are histories, until the event has run and the port is deselected or reset. Loads
are whole and into the same devices.

### GpuCommands and GpuCrtc

`GpuCommands` has the record `g` of the code. What a word of the FIFO is depends
on those before it, so `want` is a history: where a parser of the whole stream
would be after all the words sent; `ParseAll` is that parser, word by word.
Blocks of the DMA engine are pushed whole before anything is executed, and what
finds no room is dropped. `TickAssumption` gives a drawing command at least one
tick, as each has in the code: without it a register command, which costs one,
could follow when the event is already as far behind as it may be. `exits` says
that the operation is left by `longjmp` at the first point at which it can end a
frame. Kits again are programs.

`GpuCrtc` has the beam with the remainders of its conversions; the CRTC event is
two numbers, ticks since and ticks left. `Beam` moves a beam tick by tick from
where the event last left it, and counts what it passes on the way; `Now` is what
the event would do, with `DrawAll` for its loop over the lines. The properties
compare them in every state. Timers 0 and 1 are reduced to what the event asks of
them; `armed` is what they answered when the event was last scheduled.

### AudioRing

Two threads without a lock. Each operation is cut where a position is loaded or
stored. Rings are of any size from one chunk: the code makes them for a stretch
mode and keeps them when only the mode changes. `to_fill`, what ends the silence
after an underrun, is computed as in the code, a share of the ring rounded up to
chunks. `raced` is a history: the emulator stored a position during a callback
that stores it too, which happens on an overrun in time-stretching mode and in
`empty_buffer`; or an overrun discarded two chunks of a ring that held fewer frames,
which happens on rings of one and two chunks. `AudioQueue` is the queue that the
stream promises, with its losses; the ring implements it until `raced`. What makes
this hold without a lock is that each thread's knowledge stays true while the
other runs: the callback can only give the emulator more room, and the emulator
only give the callback more frames. The proofs make that an invariant (`Claims`).
Writes are of 1 to `Chunk` frames in either mode, since SoundTouch hands back
short chunks for TIME and for RESAMPLE.

## 3. The runs

| Run | Question | Bounds |
|---|---|---|
| `timing_events` | sorted and complete list, CPU budget, dispatch times, refinement of `EventClock`, the commit loop returns | 2 events, delays 1 and 3, interval 2, CPU steps of 1 and 2 ticks (so that a step can overshoot), no tick from time 2 on |
| `save_state` | saving and loading at any moment, in callbacks too, and loads that end before, in or after the events | 2 events, one state, delays and intervals of 1, CPU steps of 2 |
| `interrupts` | edges, latches, precision and taking an interrupt, with loads of both formats | 2 lines |
| `cdrom_reader` | exclusion, buffers, answers, termination of calls | 2 discs of 4 sectors with a bad one, ring of 2 |
| `timers` | gates, bulk counting, due times, one-shot | timers 0 and 2, overflow at 4, divider 2, 4 modes |
| `dma` | halts, block counts, DICR, no channel left behind, a ready transfer moves on, with ends of frames in a transfer | channel 2 in every mode and the OTC, 2 blocks, slices of 1 and 2, chopping delays 0 and 2, one value for DICR |
| `mdec` | the decoder inside nesting transfers, exact halts and counts, progress of a stream | FIFOs of 4 and 2, input requested and sent 2 halfwords at a time, macroblocks of 1 or 2, mono and colored |
| `cdrom` | events, interrupts and responses belong together, nothing sticks, answers arrive | 12 commands, disc changes, resets, loads into a machine with the delivery event as it was saved or descheduled |
| `port` | port, devices and card agree, also over loads; writes reach the file | 8 kits, frames of 2 bytes, multitap with 2 slots and 4 bytes; two of the kits write a state in the middle of an exchange |
| `gpu` | framing of words, flags and debt, commands are taken up | 7 kits, FIFO of 4 (6 with DMA), blocks of up to 4 words, polyline buffer of 4, run-ahead 1 tick |
| `crtc` | bulk beam, vertical blanks, event on time | 2 modes (5x4 and 4x3 ticks), 4 display ranges, 3:2 clocks, event up to 1 tick late |
| `audio` | copies apart, queue, sound comes back | rings of 4 and 2 chunks of 2 frames, `to_fill` of 1 and 2 chunks, requests of 1 and 3, 1 reconfiguration |

Why these bounds are enough to be interesting: two events give every relative
order, equal times, an event that moves past the other in both directions, and
a running event that is or is not the head; a CPU step of two ticks passes an
event's time. With four sectors and a ring of two the reader meets a hit, a
skip, a miss, a full ring, a wrapped ring, a bad sector and the end of the disc,
and a seek past that end with readahead allowed by a hit. With an overflow at 4 a
bulk addition passes target and overflow at once, and wraps. Two channels and two
blocks give a transfer that stops in the middle, one that starts inside another,
and a sweep that stops at the first. A FIFO of the MDEC that holds two bursts is
full, has room for one, and is empty. The blocks of the run are as large as the
space asked for: with larger ones (3 and 4 halfwords) the invariants hold, but
`StreamFlows` does not, since MDECin goes on asking for blocks it cannot take and
comes before MDECout after each halt; with a FIFO of 8, a space of 4 and blocks of
5 the calls nest without end, and the invariants were checked up to seven of them.
The GPU FIFO is filled by a block of three beside a command, and overflows with
one of four; three video ticks to
two system ticks leave every remainder; the displays are in the middle, at the
top, at the bottom, and empty. A ring of four chunks wraps, is full, and overruns;
one of two is too small for an overrun. The default ring has 552 chunks and a
`to_fill` of two; what matters of these numbers is that `to_fill` may be more than
a chunk and that an overrun leaves more than it, and a ring of four chunks has
both. The safety properties, the refinements among them, are also proved, for all
sizes, under the hypotheses that section 4 names.

Deadlock checking is off where a behaviour can end: where time is bounded
(`timing_events`, `save_state`), and where an Assert of the code stops the
program or a program of a kit has nothing left to do (`mdec`, `cdrom`, `port`,
`gpu`).

### Fairness

* `TimingEvents`: weak fairness of the scheduler's own loop. It is straight
  code; a callback that has been called returns. Nothing is assumed of devices
  or the host. A delay of zero is not in the run: a callback that schedules its
  event again without one keeps the loop busy for ever, in the code as well. The
  proofs of the invariants allow it.
* `Interrupts`: weak fairness of the end of the instruction loop and of
  `system_execute`, which the host calls again after each frame; strong
  fairness of the dispatch, because a frame can end just before it any number
  of times, but not for ever without one complete pass.
* `CdromAsyncReader`: weak fairness of the worker and of a call in progress,
  as the host's scheduler gives to runnable threads. No fairness for new calls.
* `Dma`: weak fairness of the calls in progress (straight code), strong fairness
  of a device's return or its end of the frame, whichever comes, and of the unhalt
  event, which the scheduler runs when it is due. Nothing says that a device ever
  returns rather than end the frame; `ReadyMovesOn` excepts a transfer that is cut
  off so. `Mdec` adds the copy out event, and a driver that starts its channels
  again when they are done: without one a stream has nothing to flow into.
* `CdromController`: the scheduler runs the command and delivery events (strong,
  because other operations put them off), time passes, and the program
  acknowledges its interrupts: without that the controller rightly waits.
* `PadPort`: the transfer events, and a save that succeeds if it is tried again
  and again; other writes put the save event off, hence strong.
* `GpuCommands`: time passes, and the event runs when it is due.
* `AudioRing`: both threads go on and the emulator keeps making sound.

### Disagreements with the documentation

Met while modelling. They do not have runs of their own: each is left out of a
run, or excused in a property by a named exception, as said here. The hazards of
`PROJECT.json` that are not covered for this reason refer to them.

Scheduler and timers:

1. `pad_do_state` (`pad.c:634`) activates its transfer event but never
   deactivates it. A state loaded during a transfer leaves an event before the
   loaded clock, which the assertion at `timing_event.c:82` excludes. Treatment
   `activate` of `EventSaveState`; `LoadedInTime` fails with it. In the port itself
   such an event finds an idle port and acknowledges a byte that was not sent,
   against the assertion in `pad_end_transfer` (`stray` in `PortAndDevicesAgree`). Nor
   are the active device and the waiting byte in the state (`pad.c:602-638`; `mixed`).
2. `timers_set_gate` (`timers.c:202`) reschedules the shared event from counters
   it has not brought up to date when the timer whose gate moved has an external
   clock, and at the start of a gate that resets at its end (`timers.c:183`; the
   comment at `timers.c:180`: "we need a correct counter value before we change
   modes"). `InterruptsAreDue` fails for the other timers; no mode of the run is of
   either kind, and the proof names them (`PromptMode`).
3. `timers_check_for_irq` tests the target before it wraps the counter
   (`timers.c:509` counts on the opposite). Excused in `BulkIsExact`.

CD-ROM:

4. A read queued over a pending miss is answered with the earlier request, or
   makes `buffer_count` wrap below zero (`cdrom_async_reader.c:205`; the header,
   line 107: "Blocks until the most recently queued sector read completes").
   `cdrom_begin_seeking` does this.
5. A second wait for a failed seek does not return (`cdrom_async_reader.c:297`).
   The comment on a failed seek says "Add the error result, and don't try to read
   ahead." (line 447), but `can_readahead` stays as a hit before it has set it. The
   worker then reads ahead from the old position, and the wait returns that
   sector's result for the one past the lead-out. `LatestReadAnswered` leaves
   sectors past the lead-out out.
6. `cancel_readahead` does not withdraw a queued seek (line 395, "Prevent it from
   doing any more when it re-acquires the lock."), so that the worker may use an
   image that is being removed.
7. `Assert(s_state.pending_async_interrupt == 0)` (`cdrom.c:1469`) can fail: a
   second response and a sector both come while the program has not acknowledged
   (GetID during a seek). In the model the record is then `failed` and stops.
8. A third response of the flagged kind clears the FIFO of the pending one
   (`cdrom.c:1464`). `ResponseIsPending` allows for an empty FIFO.
9. The async interrupt event is not restored by `cdrom_do_state`; an interrupt
   that was pending then sticks. Excused as `hasty`, as are commands written over
   an interrupt.

DMA and MDEC:

10. A request that `mdec_update_status` sets starts a transfer at once, also within
    a transfer of the same channel: for mono pictures and for commands shorter than
    a block MDECin starts again inside itself, each time one call deeper. The outer
    transfer then counts blocks that the inner one has moved. Within the sweep of
    an unhalt event (`dma_unhalt_transfer`), the halt of a transfer that was
    started this way does not end the sweep, is forgotten at its end, and the next
    halt is scheduled with no ticks, against the `DebugAssert(ticks > 0)` of
    `timing_event.c:630`. `ExactUnlessNested` says that these are the only ways.
11. Comments of `mdec.c` that the code does not follow: "Stall the CPU until the
    in-flight block lands" (line 503: the ticks are added, nothing has landed, and
    the pop of the empty FIFO makes its size wrap; as unguarded are the pushes of
    line 525; `misused` in `DecoderAndChannelsAgree`), "Eat junk halfwords as they
    come" (inverted test), "Mask off bit 1 to keep the count even" (lines 428-431:
    `~2u` clears the bit of value 2, not that of value 1, so that with an odd
    space an odd number of halfwords is taken, half a word; `Masked`).

Port and cards:

12. A soft reset clears INTR but not the line, also when the same write
    acknowledges; a byte that waits after one that was not acknowledged starts
    only with the next write. Both are in the model (`ShownIsSignalled`,
    `WaitingByteStarts` say what remains true).
13. A failed save clears the changed flag and is never retried
    (`memory_card.c:434`); a load restores the flag without the event (`:172`).
    `excused` in `WrittenIsKept`.
14. `multitap`'s transfer step can run past its 32-byte buffer; the port is then
    `failed`.

GPU:

15. A frame end in the middle of a command leaves `executing_commands` set; GP0
    writes then execute nothing until the event runs. `exited` in `OnlyExitsStick`.
16. GP1 commands, resets and loads leave vertices in the polyline buffer; an
    unshaded polyline pops its first words without looking for the terminator;
    GP0 writes and DMA beyond 4096 words are dropped, though a block of the DMA
    may have 65536. `derailed` in `WordsAreFramed`.
17. The vertical blank is not seen to end when the display starts on line 0, and
    is seen twice when it is empty (`gpu.c`, "Clear vblank if beam passes through
    display area."). Excused in `VblankEachFrame`.
18. With timer 1 synchronised the event skips the start of the display when it
    was last run above it ("Sync at vblank end (or vblank start if HBLANK timer
    sync is enabled)."). Excused in `GateIsOnTime`.
19. `crtc_to_sys_ticks` adds a remainder that it should take off: the event is up
    to `Slack` ticks late. The product of INT32_MAX and an even divider wraps to
    a delay of zero. Excused in `EventAdvances`, which names the case exactly.
20. A write to a timer on the GPU's clock does not move the CRTC event
    (`timers.c:415`). `AsArmed` in `InterruptsAreDue`.

Audio:

21. On an overrun the emulator stores the read position that the callback also
    stores, and `empty_buffer` the write position from it: dropped frames come back,
    or waiting ones are lost. `raced` in `ImplementsQueue`.
22. "Drop two chunks of older samples to give the stretcher headroom."
    (`core_audio_stream.c:747`): a ring of one or two chunks does not hold two, so that
    nothing is dropped and the write laps the callback (`raced`). A `buffer_ms` of 1
    to 4 gives rings of up to three chunks, which a change of the stretch mode
    keeps. In a ring of one chunk a whole one is never written; an overrun can leave
    one of two or three empty for each callback, which then waits for ever. Excused
    in `SoundComesBack`. A `buffer_ms` of 0 is a division by zero. The comment "SDL
    callback typ. <= 1024 frames; large enough" stands on a buffer of 512.

Loads that fail, and frames that end in a device:

23. A load that fails (`system.c:1437`) does not interrupt execution. Before the
    events it leaves the downcount of the saved machine beside the schedule of this
    one, so that instructions may run past the head event until the downcount is next
    computed; `CpuStopsAtHead` is not checked with loads for this reason. In the events
    (`timing_event.c:487-491`) it leaves loaded clocks, times of two machines and
    a list that is not sorted; after them (`system.c:1399-1424`), inside a frame,
    a commit loop that works on the loaded machine with the locals of the other.
    `torn` in `LoadedInTime` and `LoadedCaughtUp`.
24. A frame that ends in the GPU's part of a DMA block (`dma.c:842`, over
    `gpu.c:989` to the `longjmp` of `system.c:1951-1982`) skips the rest of
    `dma_transfer_channel` and of the sweep that called it: blocks or list entries
    that have been sent are sent again, later channels of the sweep wait for their
    next request, and halt ticks stay without an event. `abandoned` in
    `TransfersAddUp`, `NoLostTransfer` and `ReadyMovesOn`.

## 4. The proofs

All proofs hold for every value of the constants that satisfies the named
assumptions of the modules (a finite set of events that contains `Crtc`,
positive periods, and so on), and have no unproved step. Each has the same
shape: `Init => IndInv`, one lemma per action that it preserves `IndInv`, and
the properties as consequences.

* `TimingEvents_proofs`: `IndInv` adds to the listed properties that `Crtc` is
  active (so the list has a head), that the stashed time of the running event
  is not in the past and is what `next_run_time` becomes (`StashedTimeHolds`:
  without it a callback that returns could put its event before the clock), and
  that the clock is behind the end of the commit only while one is unfinished
  (`ClockBehindEnd`). Lemmas about the list come first: inserting, removing and
  moving an element keep it sorted, distinct and complete, and a sorted list's
  head is the earliest event. Theorems: `AlwaysSorted`, `LinkedExactlyOnce`,
  `NothingOverdue`, `DowncountIsSafe`, `CommitsFinish`, `CalledOnTime`,
  `TypeCorrect`. `IndInv` is `WellScheduled` and `CpuStopsAtHead`; every step of
  the scheduler keeps the first whatever the downcount (`StepKeeps`), so that
  the same lemmas serve `EventSaveState`, where a failed load breaks the second.
  With save states the invariant speaks of machines that are not `torn`, and adds
  that each state on disk that such a machine wrote is a schedule: no active event
  before its clock, the CRTC event active (`StatesWellScheduled`; writing the
  stashed time of the running event is what makes it hold of a state written in a
  callback). Theorems: `LoadedIsWell`, `LoadedNothingOverdue`, `LoadedCatchesUp`,
  under `OwnersRestore` (no owner has the treatment `activate`: with the pad's the
  first two are false, finding 1; what a load that ends in the events leaves is
  excepted, finding 23), and `DeadlinesAreSaved`, without it. The refinement is
  proved from the same invariant. Its mapping takes the stashed time for the
  running event and the run time for the others; `StashedTimeHolds` makes them
  equal whenever no callback runs (`DeadlineOutsideCallback`), so that requeueing
  an event, ending a commit and leaving one by `longjmp` change no deadline. Every
  device operation arranges one deadline (`OperationArranges`), a slice of a
  commit lets time elapse up to the head (`AdvanceElapses`), a dispatch is a call
  on the deadline (`DispatchCalls`), and all the rest stutters. Theorem:
  `SchedulerIsClock`.
* `Timers_proofs`: `Inv` is the conjunction of `TypeOK`, `FlagsFollowMode`,
  `NoTickLostAtGate` and `OneShotFiresOnce`, inductive only together: the ticks
  owed depend on the flags, the flags on the mode and the gate, the range of a
  counter on what one addition can add. Lemmas say what `CheckForIrq` and
  `AddTicks` do to one timer's record. Theorems: `TypeCorrect`, `FlagsAgree`,
  `EveryTickCounted`, `OneShot`.
  The two properties that compare with a count tick by tick need `Due` besides:
  the event is never after the next interrupt of a timer it drives (`Timely`),
  which holds for counters as they were when it was last put. `NextDue` shows that
  each operation moves the event or leaves alone what it depends on, if no mode
  written is one of finding 2. Then a single tick before the event makes no
  interrupt and leaves one tick less to go (`QuietTick`), and a tick after `k` ticks
  added at once does what the last of `k + 1` does (`LastTickHolds`, by where the
  counter is to its target and whether it is reset there). `Stepwise` unfolds into a
  row of counters (`StepwiseIs`), and from one tick to all of them the argument is
  by the smallest number that contradicts (`LeastNumber`, from the library's
  well-foundedness of `<`). Theorems: `NothingMissed`, `BulkCounts`.

  The last part of the module is about `Interrupts`, which it extends beside
  `Timers`; therefore the operators of `Interrupts` that would clash have `Irq` in
  their names. Its `IndInv` adds to the types where the downcount must be zero
  for a request that is pending. A load is of the machine's own state: registers
  that were saved together are restored together, and there are no states on
  disk in it. Theorems:
  `IrqTypeCorrect`, `RequestIsCurrent`, `Precise`; and `EdgesKept`, an action
  property that needs only the types: `LatchStep` goes through the actions.
* `CdromAsyncReader_proofs`: no two users of the disc at a time, over every
  interleaving of the 34 steps of the two threads, for any discs and sizes,
  for reads queued over each other and repeated waits, as long as the disc is not
  changed under a read. Mutual exclusion follows from the mutex only together with
  what the unlocked steps rely on, so `IndInv` has five parts. `Shapes`: the
  ranges. `Locks`: who holds the mutex at which point of its program, and that
  `is_reading` is up exactly while the worker has given the mutex up around a use
  of the disc, which is what an uncached read of the core thread waits for.
  `Stopped`: at a swap, a precache, and before the first read, the worker has
  nothing to do and does nothing. `FirstReads`: up to the second read there is no
  hit, the one thing that makes the worker read ahead without a seek; precaching
  relies on it. `Requests`: a seek the worker has not seen belongs to a read that
  is not answered, so an orderly change of discs finds none. Theorem:
  `DiscHasOneUser`, about the second part of `BuffersBelongToDisc`. On top of it,
  `Served` is about what is buffered and answered, for callers who also do not
  queue a read over an earlier one. `Ring`: the buffers in use go from the front
  to the back, the last being the one that is read into, whichever of the two
  unlocked stores of a hit has been made (`Buffered` counts them; `AtNext` and
  `AtDistinct` are the arithmetic of the ring). `Course`: the worker seeks only
  for a read that is not answered, and never while the core thread looks at the
  front. `Contents`: each buffer in use belongs to the disc, so does the one being
  read as soon as it has been. `Answers`: where the sector last queued is, from
  the request through the seek to the front buffer. A step that moves neither
  sectors nor requests keeps all of it (`Aside`, which serves 13 of the steps).
  Theorems: `BuffersBelong`, `LatestAnswered`; repeated waits are allowed.
* `AudioRing_proofs`: `IndInv` is the types, the ranges of the two program
  counters' locals (`Progress`), and, unless they raced, that what each thread
  found out still holds (`Claims`): without it the other thread's next store
  could make a copy overlap. Of the sizes nothing is assumed but that a ring has at
  least a chunk; the exceptions are in `raced`. Lemmas on `Content` say what the
  frames between two positions are after a copy into free cells, an advance of
  either position and a split, with the wrap at the end of the buffer. Theorems:
  `SharedSafely`, and `RingIsQueue`, in which each step of either thread is a
  write, a read or a loss of the queue, or a stutter.
* `CdromController_proofs`: the handlers are functions of the controller, so the
  lemmas are too: each says what one function keeps, and a handler's lemma is
  the composition of those of the functions it calls. `IndInv` is `Sound`, the
  ranges and what each of the four events says about the field it works for,
  and `Calm` unless the program was hasty: a command that waits has its event
  and no interrupt before it, and without a command an interrupt that is pending
  waits for an acknowledgement or has its delivery scheduled. `OnlyHasteSticks`
  is not inductive without `Calm`: that nothing sticks is the end of a chain of
  command, acknowledgement and delivery, each of which schedules the next. The
  hypothesis `"on" \notin Loads` is finding 9 from its other side: a machine that
  has the delivery event scheduled keeps it over a load, and then there may be
  nothing to deliver. The run makes the same assumption. Theorems:
  `TypeCorrect`, `Agreement`, `Unstuck`.
* `PadPort_proofs`: `IndInv` has the registers with their event (`Registers`,
  `Waits`), the devices (`DevicesOk`) and the card (`CardOk`), and each is proved
  about separately. With a multitap the state of the devices depends on the place
  in the exchange, since one exchange addresses all the slots, one after the
  other: `TapOk` says which controller's turn it is, and `TurnsAreTaken` that those
  after it are idle and those before it done. It is what keeps two controllers
  from being in the middle of an answer, and needs that an answer fits in a turn
  (`TapBytes >= 4` in `PortAssumption`; the code has 8). The state on disk has the
  same parts (`SavedOk`), and `LooseOk` says how far the registers and an event, or the
  active device, may differ after a load. For the card the event
  alone is not enough, because its callback saves only a card that is marked as
  changed: `SaveIsDue` has both. Theorems: `Agreement`, `Kept`.
* `Dma_proofs`: the properties speak of the empty stack, so `Ind` must say what
  each form of the stack owes them. With devices that only drop requests while
  they are called there are three forms: what transfers return to, which is
  nothing or the frame of one sweep or OTC write (`BaseOk`); one transfer on
  that (`InMove`); and a device called by it (`InDevice`). In them a channel may be
  ready that a frame still has in hand (`InHand`), the count of the channel on the
  move is in its frame, and a sweep after a halt runs with ticks of other
  halts left (`HaltOk`): it ends at the first channel that halts, so that those
  ticks are dropped only when there is no halt. The hypothesis on `Reenters`,
  that devices raise no request while called for a block, holds for the GPU and
  the SPU. A frame may end in a device: the invariant then owes nothing to the calls,
  but to the channels marked in `abandoned`, and the lemma of `FrameEnds` shows that
  those are all that lose something. Theorems: `AddUp`, `NoneLost`.

  The MDEC does raise one, so the second part of the module is about `SpecM`. There
  transfers nest without a bound and the stack has no list of forms; `IndM` says of
  each call in it what it will still do. A channel that is ready and not halted is
  one that some call `Reaches`; the output request is right unless a status update
  is pending (`RequestOutOk`), the decoder has nothing to do unless `mdec_execute` is
  (`Settled`), the input request is right where neither has the turn (`RequestInOk`),
  and a device is called only for a request that stands (`TopOk`), which is why
  its block fits. `IndE` is the rest, as long as nothing is `nested`: a channel has one
  transfer in the stack and a sweep is at its bottom (`Ordered`); what is left of a
  channel is in the frame of its transfer, and in the register if it has none
  (`Counted`); ticks without an event exist only in the sweep of an unhalt event,
  in which only the transfer on top of it runs (`HaltsMatch`). Lemmas say what
  a call and a return do to each, for any stack. Nothing is assumed of the
  sizes of FIFOs, blocks, tables and macroblocks, but that the program does not write
  to a full FIFO or read an empty one while a macroblock is to come (`misused`).
  Theorems: `StreamsAgree`, `StreamsAreExact`.

* `Gpu_proofs`, on the command side: for any sizes of the FIFO, the block of a DMA
  transfer and the polyline buffer, as long as this has room for three words and a
  drawing command costs a tick. Blocks may be longer than the FIFO. `IndInv`
  adds to `FlagsAndEventAgree` and the types that the event is never overdue by
  more than it can be late (`EventInReach`), which bounds the ticks of a command
  that is still to be paid for; that a block fits, if it is no longer than the
  FIFO leaves above its request level (`ShortBlock`), follows. `IndFramed` adds that,
  unless derailed, nothing was dropped and no vertices are left outside a polyline
  (`Clean`). One pass of `gpu_try_execute_commands` is `StepAdvances`, and the
  loop over them is by the first pass that would contradict it (`LoopRuns`,
  `TryAdvances`): the loop is a recursive function of the number of passes, so
  that no induction over data is needed. `ExecuteRuns` is `gpu_execute_commands`,
  `EventRuns` the event, `Acts`, `Keeps` and `Resets` the operations. That a word
  taken from the FIFO leaves the parser of the whole stream where it was needs
  three facts about `ParseAll`, by the smallest number again: a row of words may
  be split (`ParseSplit`), extended (`ParseAppended`) or begun later
  (`ParseDropped`). Theorems: `CommandStateAgrees`, `StreamIsFramed`.

  The second part of the module is about `GpuCrtc`, for any rates, modes, ranges and
  timers; the names that both sides have begin with `Crtc` there. The beam moved tick by
  tick and the loop over the lines drawn are both put in terms of whole numbers of
  lines and frames passed (`WalkedSo`, `DrawnSo`); the division in
  `gpu_crtc_tick_event` gives the same numbers, because there is but one quotient
  and remainder (`Quotient`). Both are recursive functions of a number of steps, so
  that the argument is again by the first that would contradict it (`UpTo`,
  `LoopGoes`; `LineWalks` and `PassDraws` are one step of each). `BeamInv` says that
  the beam is on the raster and that the event is put where
  `gpu_update_crtc_tick_event` puts it for the timers as they were then (`Good`).
  `LineReached` shows that no edge of the display comes before the line it picks
  (but the start of the display in finding 18), and `Arrives` that rounding up and the
  remainder that is added where it should be taken off cost at most `Slack`
  (finding 19). The assumptions are that a tick of the system is between one and two of
  the video clock, that a mode's active display ends before its line does, that ranges
  are in the frame, and that a timer's period is not zero. Theorems: `BulkIsTheBeam`,
  `NoEdgeWaits`.

Only model-checked: liveness (`CommitTerminates`, `InterruptIsTaken`,
`CallsReturn`, `ReadyMovesOn`, `StreamFlows`, `AnswersArrive`,
`SectorsReachFile`, `WaitingEnds`, `SoundComesBack`), which needs fairness and
`ENABLED`, out of the prover's reach. Every safety property of the runs is proved,
with the hypotheses named above where there are any.

## 5. Abstractions

* Time is a natural number; the code's 64-bit tick counter does not wrap in a
  session. Tick arguments are non-negative, as all callers' are.
* States of the format before version 43 (relative times) are not loaded.
* The CPU is not overclocked, and the timers are not loaded from a state.
  `BulkIsExact` leaves out one case: a counter already past its target that
  wraps in the same addition, with no interrupt at the overflow. There the
  code tests the target before it wraps the counter and single steps would
  reach the target again.
* The event leaves the carry of timer 2's divider out, so that its interrupt may
  be late by less than one divided tick; `InterruptsAreDue` allows for that.
* `gpu_synchronize_crtc` before an access to an external timer is a sequence of
  `GpuTicks` and `SetGate` steps before it.
* Reads of a disc are a seek and a read of one sector; sub-channel data, file
  formats and patches are left out.
* A save state is written as a whole. It is loaded as a whole or, in
  `EventSaveState`, up to any point; how the other modules' components fare in a
  load that fails is not modelled. Nor is how a `torn` machine goes on: its list
  may become anything until the host has control.
* `BulkIsExact` leaves out a timer with a target of zero. The reset of the scheduler
  takes it that every owner deactivates its events or schedules them again;
  the resets of the owners are not followed one by one.
* A state of the port is loaded into the devices it was written with: not into
  other controllers, and not into a slot without its card.
* A transfer moves blocks, not words; addresses, priorities of DPCR and the
  lengths of linked lists are left out or choices.
* The CD-ROM controller has no seek times, so any of its events may be next, a
  superset of what the clock allows. Acknowledgements are of the whole flag.
* One of the two ports, one card sector, digital controllers. An acknowledged
  byte's delay is not measured.
* Drawing, textures, the display picture and interlace do not appear; a drawing
  command is a number of ticks. The ticks of the GPU's clock are halved. The
  vertical ranges fit every mode; the code cuts them to the one that is set.
* The audio ring is sequentially consistent; the code loads positions relaxed,
  which on x86 is the same.

### Not modelled

SPU, code cache and recompilers, boot and disc swaps are candidates (see the
plan). The rest is out of reach or without a protocol: renderers, shader
generation, GTE, IDCT (arithmetic on wide data), file formats, archives,
settings, game database, input bindings, front end, utility libraries. The task
queue (`common/task_queue.c`) has no caller in the repository.

## 6. The plan

In order; each item is a module with its runs and, where marked (P), proofs.

1. `SpuTransfer`: FIFO, request and RAM interrupt, composed with `Dma`.
2. `CodeCache`: invalidation, links and page protection.
3. Compositions: `GpuCrtc` with `Timers` (gates in both directions),
   `CdromController` with `CdromAsyncReader` in place of `Calls`.
4. `SaveAndReset`: the order of component resets and loads, and what a load that
   fails half way leaves of each (`EventSaveState` has it for the scheduler).
