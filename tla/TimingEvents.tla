---------------------------- MODULE TimingEvents ----------------------------
(***************************************************************************)
(* The event scheduler of src/core/scheduler/timing_event.c, with the part *)
(* of the CPU (pending_ticks, downcount, a pending interrupt) and of the   *)
(* run loop (system_execute, cpu_execute_impl) that drives it.             *)
(*                                                                         *)
(* Everything runs on the core thread, so the interleavings are those of   *)
(* call chains: a device register written by the CPU, the callback of an   *)
(* event and the host between two frames all call the same operations, in  *)
(* any order, at any time.  `phase' says which of them has control.        *)
(*                                                                         *)
(* timing_event_invoke_early calls the event's callback as its last act;   *)
(* what that callback does is the sequence of operations that follow in    *)
(* the same context, so no call stack is kept.                             *)
(***************************************************************************)
EXTENDS Integers, Sequences, FiniteSets

CONSTANTS Event,      \* the timing_event_t objects
          Crtc,       \* the event that stays active while the machine exists
          Delays,     \* tick arguments of schedule and delay
          Intervals,  \* tick arguments of set_interval, set_period
          Steps,      \* ticks one CPU step or one DMA burst takes
          Period0,    \* the period and interval given to timing_event_init
          MaxTime,    \* bound: no CPU or DMA tick once this time is reached
          MaxDeadline \* bound: no event is delayed beyond this time

None == "none"

ASSUME EventAssumption == Crtc \in Event /\ None \notin Event /\ IsFiniteSet(Event)
ASSUME TickAssumption == /\ Delays \subseteq Nat
                         /\ Intervals \subseteq Nat \ {0}
                         /\ Steps \subseteq Nat \ {0}
                         /\ Period0 \in Nat \ {0}
ASSUME BoundAssumption == MaxTime \in Nat /\ MaxDeadline \in Nat

VARIABLES
  queue,          \* active_events_head .. active_events_tail
  active,         \* event->active
  next_run_time, last_run_time, period, interval,
  current_event, current_event_next_run_time,
  global_tick_counter,     \* time of the event being processed
  event_run_tick_counter,  \* time the commit loop runs up to
  pending_ticks, downcount,\* g_cpu_state
  irq,            \* cpu_has_pending_interrupt()
  phase           \* who has control

events == <<active, next_run_time, last_run_time, period, interval>>
current == <<current_event, current_event_next_run_time>>
clock == <<global_tick_counter, event_run_tick_counter>>
cpu == <<pending_ticks, downcount, irq>>
vars == <<queue, events, current, clock, cpu, phase>>

(***************************************************************************)
(* "cpu"      instructions run, and the register handlers they call;       *)
(* "run"      the top of the loop in timing_events_run_events;             *)
(* "outer", "inner"  the two loops of timing_events_commit_global_ticks;   *)
(* "callback" the callback of current_event runs;                          *)
(* "tail"     after the commit: interrupt dispatch, downcount;             *)
(* "out"      cpu_execute was left by longjmp, the host has control.       *)
(***************************************************************************)
Phases == {"cpu", "run", "outer", "inner", "callback", "tail", "out"}

(* Code that calls the timing_event_ operations has control.               *)
Calling == phase \in {"cpu", "callback", "out"}

Head_ == queue[1]

(* timing_events_get_timestamp_for_new_event                               *)
Timestamp == global_tick_counter + pending_ticks

(* The value timing_events_update_cpu_downcount stores.                    *)
DowncountFor(q, nr, g, i) == IF i THEN 0 ELSE nr[q[1]] - g

-----------------------------------------------------------------------------
(* The active list.                                                        *)

InsertAt(q, k, e) ==
  [i \in 1..(Len(q) + 1) |-> IF i < k THEN q[i] ELSE IF i = k THEN e ELSE q[i - 1]]

RemoveAt(q, p) ==
  [i \in 1..(Len(q) - 1) |-> IF i < p THEN q[i] ELSE q[i + 1]]

(* The element at p unlinked and linked again as the k-th.                 *)
MoveTo(q, p, k) ==
  [i \in 1..Len(q) |-> CASE i = k                -> q[p]
                         [] p <= i /\ i < k      -> q[i + 1]
                         [] k < i /\ i <= p      -> q[i - 1]
                         [] OTHER                -> q[i]]

Linked(q, e) == \E i \in 1..Len(q) : q[i] = e
Distinct(q) == \A i, j \in 1..Len(q) : i # j => q[i] # q[j]
Sorted(q, nr) == \A i, j \in 1..Len(q) : i < j => nr[q[i]] <= nr[q[j]]

(* timing_events_add_active: walk from the head while the walked event is  *)
(* earlier, link before the one that stopped the walk.                     *)
AddActive(q, e, nr, q2) ==
  \E k \in 1..(Len(q) + 1) :
    /\ \A i \in 1..(k - 1) : nr[e] > nr[q[i]]
    /\ k <= Len(q) => nr[e] <= nr[q[k]]
    /\ q2 = InsertAt(q, k, e)

(* Mutant: an event is only ever moved towards the head.                   *)
SortBackOnly(q, e, nr, q2) ==
  \E p, k \in 1..Len(q) :
    /\ q[p] = e
    /\ k <= p
    /\ \A i \in k..(p - 1) : nr[q[i]] > nr[e]
    /\ k > 1 => nr[q[k - 1]] <= nr[e]
    /\ q2 = MoveTo(q, p, k)

(* timing_events_sort_event: an event that is earlier than its predecessor *)
(* moves back behind the last one not later than it; one that is later     *)
(* than its successor moves forward before the first one not earlier.      *)
SortEvent(q, e, nr, q2) ==
  \E p \in 1..Len(q) :
    /\ q[p] = e
    /\ \/ /\ p > 1 /\ nr[q[p - 1]] > nr[e]
          /\ \E k \in 1..(p - 1) :
               /\ \A i \in k..(p - 1) : nr[q[i]] > nr[e]
               /\ k > 1 => nr[q[k - 1]] <= nr[e]
               /\ q2 = MoveTo(q, p, k)
       \/ /\ ~(p > 1 /\ nr[q[p - 1]] > nr[e])
          /\ p < Len(q) /\ nr[e] > nr[q[p + 1]]
          /\ \E k \in (p + 1)..Len(q) :
               /\ \A i \in (p + 1)..k : nr[e] > nr[q[i]]
               /\ k < Len(q) => nr[e] <= nr[q[k + 1]]
               /\ q2 = MoveTo(q, p, k)
       \/ /\ ~(p > 1 /\ nr[q[p - 1]] > nr[e])
          /\ ~(p < Len(q) /\ nr[e] > nr[q[p + 1]])
          /\ q2 = q

(* The downcount after a sort by an operation on e: a head that is         *)
(* unlinked refreshes it unless the commit loop runs; e as the head always *)
(* refreshes it.                                                           *)
SortedDowncount(e) ==
  downcount' = IF queue'[1] = e \/ (Head_ = e /\ current_event = None)
               THEN DowncountFor(queue', next_run_time', global_tick_counter, irq)
               ELSE downcount

(* Mutant: linking an event never refreshes the downcount.                 *)
AddedNoRefresh(e) == UNCHANGED downcount

(* A new head refreshes the downcount.                                     *)
AddedDowncount(e) ==
  downcount' = IF queue'[1] = e
               THEN DowncountFor(queue', next_run_time', global_tick_counter, irq)
               ELSE downcount

-----------------------------------------------------------------------------
(* timing_event_init for every event, then timing_event_activate of Crtc,  *)
(* by gpu_initialize: the machine as it is before the first system_execute.*)
Init ==
  /\ queue = <<Crtc>>
  /\ active = [e \in Event |-> e = Crtc]
  /\ next_run_time = [e \in Event |-> Period0]
  /\ last_run_time = [e \in Event |-> 0]
  /\ period = [e \in Event |-> Period0]
  /\ interval = [e \in Event |-> Period0]
  /\ current_event = None
  /\ current_event_next_run_time = 0
  /\ global_tick_counter = 0
  /\ event_run_tick_counter = 0
  /\ pending_ticks = 0
  /\ downcount = Period0
  /\ irq = FALSE
  /\ phase = "out"

-----------------------------------------------------------------------------
(* Operations on one event.                                                *)

(* The body of timing_event_schedule.                                      *)
ScheduleBody(e, ticks) ==
  LET next == Timestamp + ticks IN
  /\ current_event_next_run_time' =
       IF current_event = e THEN next ELSE current_event_next_run_time
  /\ \/ /\ ~active[e]
        /\ next_run_time' = [next_run_time EXCEPT ![e] = next]
        /\ last_run_time' = [last_run_time EXCEPT ![e] = Timestamp]
        /\ active' = [active EXCEPT ![e] = TRUE]
        /\ AddActive(queue, e, next_run_time', queue')
        /\ AddedDowncount(e)
     \/ /\ active[e] /\ current_event # e
        /\ next_run_time' = [next_run_time EXCEPT ![e] = next]
        /\ SortEvent(queue, e, next_run_time', queue')
        /\ SortedDowncount(e)
        /\ UNCHANGED <<active, last_run_time>>
     \/ /\ active[e] /\ current_event = e
        /\ UNCHANGED <<queue, active, next_run_time, last_run_time, downcount>>
  /\ UNCHANGED <<current_event, clock, pending_ticks, irq, phase>>

Schedule(e, ticks) ==
  /\ Calling
  /\ ScheduleBody(e, ticks)
  /\ UNCHANGED <<period, interval>>

(* timing_event_set_interval_and_schedule                                  *)
SetIntervalAndSchedule(e, ticks) ==
  /\ Calling
  /\ interval' = [interval EXCEPT ![e] = ticks]
  /\ ScheduleBody(e, ticks)
  /\ UNCHANGED period

(* timing_event_set_period_and_schedule                                    *)
SetPeriodAndSchedule(e, ticks) ==
  /\ Calling
  /\ period' = [period EXCEPT ![e] = ticks]
  /\ interval' = [interval EXCEPT ![e] = ticks]
  /\ ScheduleBody(e, ticks)

(* timing_event_delay; an inactive event panics, the running one asserts.  *)
Delay(e, ticks) ==
  /\ Calling
  /\ active[e] /\ current_event # e
  /\ next_run_time[e] + ticks <= MaxDeadline
  /\ next_run_time' = [next_run_time EXCEPT ![e] = @ + ticks]
  /\ SortEvent(queue, e, next_run_time', queue')
  /\ SortedDowncount(e)
  /\ UNCHANGED <<active, last_run_time, period, interval,
                 current, clock, pending_ticks, irq, phase>>

(* timing_event_invoke_early past its early returns (an inactive event, no *)
(* time since the last run, less than a period unless forced); invoking    *)
(* the running event asserts.                                              *)
InvokeEarly(e, force) ==
  /\ Calling
  /\ active[e] /\ current_event # e
  /\ Timestamp > last_run_time[e]
  /\ force \/ Timestamp - last_run_time[e] >= period[e]
  /\ next_run_time' = [next_run_time EXCEPT ![e] = Timestamp + interval[e]]
  /\ last_run_time' = [last_run_time EXCEPT ![e] = Timestamp]
  /\ SortEvent(queue, e, next_run_time', queue')
  /\ SortedDowncount(e)
  /\ UNCHANGED <<active, period, interval, current, clock, pending_ticks, irq, phase>>

(* timing_event_activate                                                   *)
Activate(e) ==
  LET next == Timestamp + interval[e] IN
  /\ Calling
  /\ ~active[e]
  /\ next_run_time' = [next_run_time EXCEPT ![e] = next]
  /\ last_run_time' = [last_run_time EXCEPT ![e] = Timestamp]
  /\ current_event_next_run_time' =
       IF current_event = e THEN next ELSE current_event_next_run_time
  /\ active' = [active EXCEPT ![e] = TRUE]
  /\ AddActive(queue, e, next_run_time', queue')
  /\ AddedDowncount(e)
  /\ UNCHANGED <<period, interval, current_event, clock, pending_ticks, irq, phase>>

(* Mutant: the flag is cleared, the event stays linked.                    *)
DeactivateKeepsLink(e) ==
  /\ Calling
  /\ active[e] /\ e # Crtc
  /\ active' = [active EXCEPT ![e] = FALSE]
  /\ UNCHANGED <<queue, next_run_time, last_run_time, period, interval,
                 current, clock, cpu, phase>>

(* timing_event_deactivate with timing_events_remove_active; the owner of  *)
(* Crtc deactivates it only in a reset that schedules it again.            *)
Deactivate(e) ==
  /\ Calling
  /\ active[e] /\ e # Crtc
  /\ active' = [active EXCEPT ![e] = FALSE]
  /\ \E p \in 1..Len(queue) : queue[p] = e /\ queue' = RemoveAt(queue, p)
  /\ downcount' = IF Head_ = e /\ current_event = None
                  THEN DowncountFor(queue', next_run_time, global_tick_counter, irq)
                  ELSE downcount
  /\ UNCHANGED <<next_run_time, last_run_time, period, interval,
                 current, clock, pending_ticks, irq, phase>>

-----------------------------------------------------------------------------
(* The CPU.                                                                *)

(* One pass of the instruction loop in cpu_execute_impl: it takes ticks    *)
(* and may go past the downcount, which is tested only afterwards.         *)
ExecuteInstruction(ticks) ==
  /\ phase = "cpu"
  /\ pending_ticks < downcount
  /\ event_run_tick_counter + pending_ticks < MaxTime
  /\ pending_ticks' = pending_ticks + ticks
  /\ UNCHANGED <<queue, events, current, clock, downcount, irq, phase>>

(* cpu_add_pending_ticks by a DMA burst, from a register write or from the *)
(* callback of the event that raised the request.                          *)
AddPendingTicks(ticks) ==
  /\ phase \in {"cpu", "callback"}
  /\ event_run_tick_counter + pending_ticks < MaxTime
  /\ pending_ticks' = pending_ticks + ticks
  /\ UNCHANGED <<queue, events, current, clock, downcount, irq, phase>>

(* An interrupt becomes pending (cpu_set_irq_request, or a write to SR or  *)
(* CAUSE): cpu_check_for_pending_interrupt clears the downcount.           *)
RaiseInterrupt ==
  /\ phase \in {"cpu", "callback"}
  /\ ~irq
  /\ irq' = TRUE
  /\ downcount' = 0
  /\ UNCHANGED <<queue, events, current, clock, pending_ticks, phase>>

(* It is acknowledged or masked before it was dispatched.                  *)
DropInterrupt ==
  /\ phase \in {"cpu", "callback"}
  /\ irq
  /\ irq' = FALSE
  /\ UNCHANGED <<queue, events, current, clock, pending_ticks, downcount, phase>>

(* The instruction loop ends, timing_events_run_events is called.          *)
EnterRunEvents ==
  /\ phase = "cpu"
  /\ pending_ticks >= downcount
  /\ phase' = "run"
  /\ UNCHANGED <<queue, events, current, clock, cpu>>

-----------------------------------------------------------------------------
(* timing_events_run_events and timing_events_commit_global_ticks          *)

(* The top of the do loop: commit if the head is due, otherwise only the   *)
(* tail runs.                                                              *)
RunEvents ==
  LET new == event_run_tick_counter + pending_ticks IN
  /\ phase = "run"
  /\ \/ /\ new >= next_run_time[Head_]
        /\ pending_ticks' = 0
        /\ event_run_tick_counter' = new
        /\ phase' = "outer"
     \/ /\ new < next_run_time[Head_]
        /\ phase' = "tail"
        /\ UNCHANGED <<pending_ticks, event_run_tick_counter>>
  /\ UNCHANGED <<queue, events, current, global_tick_counter, downcount, irq>>

(* Mutant: time moves to the end at once.                                  *)
AdvanceToEnd ==
  /\ phase = "outer"
  /\ global_tick_counter' = event_run_tick_counter
  /\ phase' = "inner"
  /\ UNCHANGED <<queue, events, current, event_run_tick_counter, cpu>>

(* The outer loop: time moves to the head event or to the end.             *)
AdvanceTime ==
  /\ phase = "outer"
  /\ global_tick_counter' = IF event_run_tick_counter < next_run_time[Head_]
                            THEN event_run_tick_counter
                            ELSE next_run_time[Head_]
  /\ phase' = "inner"
  /\ UNCHANGED <<queue, events, current, event_run_tick_counter, cpu>>

(* The inner loop: the head is due, its callback is called.                *)
Dispatch ==
  /\ phase = "inner"
  /\ global_tick_counter >= next_run_time[Head_]
  /\ current_event' = Head_
  /\ current_event_next_run_time' = next_run_time[Head_] + interval[Head_]
  /\ last_run_time' = [last_run_time EXCEPT ![Head_] = global_tick_counter]
  /\ phase' = "callback"
  /\ UNCHANGED <<queue, active, next_run_time, period, interval, clock, cpu>>

(* Mutant: the stashed time is forgotten.                                  *)
RequeueAsIs == UNCHANGED <<queue, next_run_time, downcount>>

(* A callback is over: the next time stashed meanwhile takes effect.       *)
Requeue ==
  \/ /\ active[current_event]
     /\ next_run_time' =
          [next_run_time EXCEPT ![current_event] = current_event_next_run_time]
     /\ SortEvent(queue, current_event, next_run_time', queue')
     /\ downcount' = IF Head_ # current_event /\ queue'[1] = current_event
                     THEN DowncountFor(queue', next_run_time', global_tick_counter, irq)
                     ELSE downcount
  \/ /\ ~active[current_event]
     /\ UNCHANGED <<queue, next_run_time, downcount>>

CallbackReturns ==
  /\ phase = "callback"
  /\ Requeue
  /\ phase' = "inner"
  /\ UNCHANGED <<active, last_run_time, period, interval, current, clock,
                 pending_ticks, irq>>

(* The inner loop ends; so does the outer one once time has caught up.     *)
EndInner ==
  /\ phase = "inner"
  /\ global_tick_counter < next_run_time[Head_]
  /\ \/ /\ event_run_tick_counter > global_tick_counter
        /\ phase' = "outer"
        /\ UNCHANGED current_event
     \/ /\ event_run_tick_counter <= global_tick_counter
        /\ phase' = "tail"
        /\ current_event' = None
  /\ UNCHANGED <<queue, events, current_event_next_run_time, clock, cpu>>

(* The end of timing_events_run_events and of                              *)
(* timing_events_commit_leftover_ticks: dispatching the interrupt clears   *)
(* SR.IEc, so none is pending when the downcount is computed.  The CPU     *)
(* runs when it has ticks left, otherwise the loop goes round again.       *)
RunTail ==
  /\ phase = "tail"
  /\ irq' = FALSE
  /\ downcount' = DowncountFor(queue, next_run_time, global_tick_counter, irq')
  /\ phase' = IF pending_ticks >= downcount' THEN "run" ELSE "cpu"
  /\ UNCHANGED <<queue, events, current, clock, pending_ticks>>

-----------------------------------------------------------------------------
(* The run loop around the CPU.                                            *)

(* system_check_for_and_exit_execution at the end of system_frame_done:    *)
(* timing_events_cancel_running_event, then the longjmp out of cpu_execute.*)
(* The vblank that ends a frame is reached from the Crtc callback, or from *)
(* an early invocation of it inside an instruction or another callback.    *)
ExitExecution ==
  /\ phase \in {"cpu", "callback"}
  /\ \/ /\ current_event # None
        /\ Requeue
     \/ /\ current_event = None
        /\ UNCHANGED <<queue, next_run_time, downcount>>
  /\ current_event' = None
  /\ phase' = "out"
  /\ UNCHANGED <<active, last_run_time, period, interval,
                 current_event_next_run_time, clock, pending_ticks, irq>>

(* Mutant: the CPU resumes without the rest of the commit.                 *)
SkipLeftoverTicks ==
  /\ phase = "out"
  /\ phase' = "tail"
  /\ UNCHANGED <<queue, events, current, clock, cpu>>

(* system_execute: timing_events_commit_leftover_ticks finishes the commit *)
(* that was cut short, then cpu_execute.                                   *)
CommitLeftoverTicks ==
  /\ phase = "out"
  /\ phase' = "outer"
  /\ UNCHANGED <<queue, events, current, clock, cpu>>

(* The sorted list that linking the events of S one by one builds.         *)
SortedList(S, nr, q) ==
  /\ Distinct(q) /\ Sorted(q, nr)
  /\ \A e \in Event : e \in S <=> Linked(q, e)

(* system_internal_reset: timing_events_reset clears the two counters,     *)
(* cpu_reset the pending ticks; the owners then deactivate every event,    *)
(* and the ones that are periodic schedule it again from time zero (see    *)
(* the end of spu_reset).  A reset requested inside system_frame_done is   *)
(* followed by ExitExecution; current_event is then still set and its      *)
(* stashed time is the one its owner's schedule has latched.               *)
Reset(S, t) ==
  /\ phase \in {"out", "cpu", "callback"}
  /\ Crtc \in S
  /\ global_tick_counter' = 0
  /\ event_run_tick_counter' = 0
  /\ pending_ticks' = 0
  /\ irq' = FALSE
  /\ active' = [e \in Event |-> e \in S]
  /\ next_run_time' = [e \in Event |-> IF e \in S THEN t[e] ELSE next_run_time[e]]
  /\ last_run_time' = [e \in Event |-> IF e \in S THEN 0 ELSE last_run_time[e]]
  /\ \E q \in [1..Cardinality(S) -> S] :
       SortedList(S, next_run_time', q) /\ queue' = q
  /\ downcount' = DowncountFor(queue', next_run_time', 0, FALSE)
  /\ current_event' = None
  /\ phase' = "out"
  /\ UNCHANGED <<period, interval, current_event_next_run_time>>

-----------------------------------------------------------------------------
Operation ==
  \E e \in Event :
    \/ \E ticks \in Delays : Schedule(e, ticks) \/ Delay(e, ticks)
    \/ \E ticks \in Intervals : \/ SetIntervalAndSchedule(e, ticks)
                                \/ SetPeriodAndSchedule(e, ticks)
    \/ \E force \in BOOLEAN : InvokeEarly(e, force)
    \/ Activate(e)
    \/ Deactivate(e)

Cpu ==
  \/ \E ticks \in Steps : ExecuteInstruction(ticks) \/ AddPendingTicks(ticks)
  \/ RaiseInterrupt
  \/ DropInterrupt
  \/ EnterRunEvents

Loop == RunEvents \/ AdvanceTime \/ Dispatch \/ CallbackReturns \/ EndInner \/ RunTail

Host ==
  \/ ExitExecution
  \/ CommitLeftoverTicks
  \/ \E S \in SUBSET Event : \E t \in [S -> Intervals] : Reset(S, t)

Next == Operation \/ Cpu \/ Loop \/ Host

Spec == Init /\ [][Next]_vars

(* The loops of timing_events_run_events and of the commit are straight    *)
(* code: as long as callbacks return, the loop goes on.                    *)
FairSpec == Spec /\ WF_vars(Loop)

-----------------------------------------------------------------------------
(* Properties *)

Time == Nat

(* Every variable keeps its type; the running event is set exactly while   *)
(* the commit loop is between its first dispatch and its end.              *)
TypeOK ==
  /\ queue \in Seq(Event)
  /\ active \in [Event -> BOOLEAN]
  /\ next_run_time \in [Event -> Time]
  /\ last_run_time \in [Event -> Time]
  /\ period \in [Event -> Nat \ {0}]
  /\ interval \in [Event -> Nat \ {0}]
  /\ current_event \in Event \cup {None}
  /\ current_event_next_run_time \in Time
  /\ global_tick_counter \in Time
  /\ event_run_tick_counter \in Time
  /\ pending_ticks \in Nat
  /\ downcount \in Nat
  /\ irq \in BOOLEAN
  /\ phase \in Phases
  /\ phase \in {"cpu", "run", "tail", "out"} => current_event = None
  /\ phase = "callback" => current_event # None

(* The list is sorted by run time after every operation, in particular     *)
(* while a callback runs and the time of its own event is stale: the one   *)
(* direction sort_event moves an event in is always the right one.         *)
QueueSorted == Sorted(queue, next_run_time)

(* An event is linked, once, exactly when its active flag is set, whatever *)
(* a callback does to its own event (deactivate, schedule again, cancel).  *)
QueueIsActiveSet ==
  /\ Distinct(queue)
  /\ \A e \in Event : active[e] <=> Linked(queue, e)

(* The DebugAssert of timing_events_update_cpu_downcount at every moment:  *)
(* no active event is left behind by the clock.                            *)
NoEventInThePast ==
  \A e \in Event : active[e] => next_run_time[e] >= global_tick_counter

(* While instructions run, the downcount stops them no later than the head *)
(* event, and at once when an interrupt is pending, whatever register      *)
(* handlers scheduled, delayed or removed meanwhile.                       *)
CpuStopsAtHead ==
  phase = "cpu" => /\ downcount <= next_run_time[Head_] - global_tick_counter
                   /\ irq => downcount = 0

(* Instructions run only when the clock has reached the time the commit    *)
(* loop was to run up to, also after a frame ended inside the loop and its *)
(* rest was left to timing_events_commit_leftover_ticks.                   *)
CaughtUp ==
  phase \in {"cpu", "run"} => global_tick_counter = event_run_tick_counter

(* The inductive invariant.  Beyond the properties above: Crtc keeps the   *)
(* list from being empty; the clock is behind the end of the commit only   *)
(* while one is unfinished; and the stashed time of the running event, in  *)
(* force already once its callback has returned, is not in the past.       *)
StashedTimeHolds ==
  current_event # None /\ active[current_event] =>
    /\ current_event_next_run_time >= global_tick_counter
    /\ phase # "callback" =>
         next_run_time[current_event] = current_event_next_run_time

ClockBehindEnd ==
  /\ global_tick_counter <= event_run_tick_counter
  /\ phase \in {"cpu", "run", "tail"} => global_tick_counter = event_run_tick_counter

WellScheduled ==
  /\ TypeOK
  /\ QueueSorted
  /\ QueueIsActiveSet
  /\ active[Crtc]
  /\ NoEventInThePast
  /\ StashedTimeHolds
  /\ ClockBehindEnd

IndInv ==
  /\ WellScheduled
  /\ CpuStopsAtHead

(* A callback is called exactly at the time its event was scheduled for    *)
(* (ticks_late is 0), and only when no active event is earlier.            *)
DispatchOnTime ==
  [][phase = "inner" /\ phase' = "callback" =>
       /\ next_run_time[current_event'] = global_tick_counter
       /\ \A e \in Event : active[e] => next_run_time[e] >= global_tick_counter]_vars

(* The deadline a device has arranged for e: the stashed time is the one   *)
(* that counts while the callback of e runs.                               *)
NoDeadline == -1
Deadline(e) == CASE ~active[e]        -> NoDeadline
                 [] active[e] /\ e = current_event -> current_event_next_run_time
                 [] OTHER             -> next_run_time[e]

Clock == INSTANCE EventClock WITH
           NoEvent <- None,
           now <- global_tick_counter,
           deadline <- [e \in Event |-> Deadline(e)],
           running <- current_event

(* The list, the stashed time of the running event and the catching up     *)
(* after a cancelled callback implement the abstract clock.                *)
ImplementsClock == Clock!Spec

(* When callbacks schedule at least one tick ahead, the commit loop always *)
(* ends, however many events are due at once.                              *)
CommitTerminates == phase \in {"run", "outer"} ~> phase \in {"cpu", "out"}
=============================================================================
