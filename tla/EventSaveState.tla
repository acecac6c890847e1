--------------------------- MODULE EventSaveState ---------------------------
(***************************************************************************)
(* The scheduler together with save states: timing_events_do_state of      *)
(* src/core/scheduler/timing_event.c, and the way the owners of the events *)
(* prepare for it when system_do_state loads them first.                   *)
(*                                                                         *)
(* A state holds the active events; loading looks each of them up among    *)
(* the events that are active by then, so what an owner's do_state makes   *)
(* of the active flag decides what is restored.  Owner gives, per event,   *)
(* the ways its owner may treat it:                                        *)
(*   "exact"    active exactly when the saved machine had it active (GPU,  *)
(*              timers, SPU, DMA, MDEC and the CD-ROM drive);              *)
(*   "flushed"  never active after a load (the memory card host flush,     *)
(*              which is performed instead);                               *)
(*   "activate" activated when the saved machine had it active and left    *)
(*              alone otherwise (the pad transfer, pad_do_state).          *)
(***************************************************************************)
EXTENDS TimingEvents

CONSTANTS Owner,
          MaxStates    \* bound: save states written in a behaviour

Treatments == {"exact", "flushed", "activate"}

ASSUME OwnerAssumption ==
  Owner \in [Event -> SUBSET Treatments] /\ Owner[Crtc] = {"exact"}

VARIABLES states,  \* the save states on disk, records
          torn     \* history: the clocks, times and list are of two machines

allVars == <<vars, states, torn>>

InitS == Init /\ states = {} /\ torn = FALSE

(* Mutant: the time the running event was called for.                      *)
SavedStaleTime(e) == next_run_time[e]

SavedTime(e) ==
  IF e = current_event THEN current_event_next_run_time ELSE next_run_time[e]

(* States are written and loaded by the host between frames and from       *)
(* system_frame_done, which runs in the CRTC callback or in an early       *)
(* invocation of it.                                                       *)
AtHost == phase \in {"out", "callback", "cpu"}

(* timing_events_do_state, writing: the running event is written with its  *)
(* stashed time.                                                           *)
SaveState ==
  /\ AtHost
  /\ Cardinality(states) < MaxStates
  /\ states' = states \cup {[active |-> active,
                            next |-> [e \in Event |-> SavedTime(e)],
                            last |-> last_run_time,
                            period |-> period,
                            interval |-> interval,
                            global |-> global_tick_counter,
                            run |-> event_run_tick_counter,
                            pending |-> pending_ticks,
                            irq |-> irq,
                            torn |-> torn]}
  /\ UNCHANGED <<vars, torn>>

(* Mutant: an event that is active stays active.                           *)
RestoredOrLeft(saved, how, e) == saved.active[e] \/ active[e]

(* The active flag of e once its owner has loaded its own state.           *)
Restored(saved, how, e) ==
  CASE how[e] = "exact"    -> saved.active[e]
    [] how[e] = "flushed"  -> FALSE
    [] how[e] = "activate" -> saved.active[e] \/ active[e]

(* An owner that activates an inactive event does so with the counters of  *)
(* the outgoing machine; the loaded times replace it.                      *)
Found(saved, how, e) == Restored(saved, how, e) /\ saved.active[e]

Linkable(saved, how) == {e \in Event : Restored(saved, how, e)}

(* The owners have loaded, and so has timing_events_do_state, with         *)
(* timing_events_sort_events and the downcount.                            *)
EventsLoaded(saved, how) ==
  /\ AtHost
  /\ active' = [e \in Event |-> Restored(saved, how, e)]
  /\ next_run_time' = [e \in Event |-> IF Found(saved, how, e) THEN saved.next[e] ELSE next_run_time[e]]
  /\ last_run_time' = [e \in Event |-> IF Found(saved, how, e) THEN saved.last[e] ELSE last_run_time[e]]
  /\ period' = [e \in Event |-> IF Found(saved, how, e) THEN saved.period[e] ELSE period[e]]
  /\ interval' = [e \in Event |-> IF Found(saved, how, e) THEN saved.interval[e] ELSE interval[e]]
  /\ LET S == Linkable(saved, how) IN
       \E q \in [1..Cardinality(S) -> S] :
         SortedList(S, next_run_time', q) /\ queue' = q
  /\ global_tick_counter' = saved.global
  /\ event_run_tick_counter' = saved.run
  /\ pending_ticks' = saved.pending
  /\ irq' = saved.irq
  /\ downcount' = DowncountFor(queue', next_run_time', saved.global, saved.irq)
  /\ current_event' = None
  /\ UNCHANGED <<current_event_next_run_time, states>>

(* system_do_state, reading, to its end.  system_interrupt_execution then  *)
(* has a load inside system_frame_done followed by the exit from execution.*)
LoadState(saved, how) ==
  /\ EventsLoaded(saved, how)
  /\ phase' = "out"
  /\ torn' = saved.torn

-----------------------------------------------------------------------------
(* Loads of a state that ends too soon: system_do_state returns at the     *)
(* first part that cannot be read, and execution is not interrupted.  What *)
(* a part reads past the end of the stream is zero.                        *)

(* It ends before the events, in the CPU's part or with some of the owners *)
(* loaded; what these did to their events are operations on them, which    *)
(* may follow.  The downcount and the interrupt request are those of the   *)
(* saved machine, as far as they were read, whatever they were.            *)
FailsBeforeEvents(saved) ==
  /\ AtHost /\ ~torn
  /\ pending_ticks' \in {saved.pending, 0}
  /\ event_run_tick_counter + pending_ticks' <= MaxTime     \* bound
  /\ downcount' \in 0..MaxDeadline
  /\ irq' \in BOOLEAN
  /\ UNCHANGED <<queue, events, current, clock, phase, states, torn>>

(* It ends within the events, with the owners loaded.  Up to the number of *)
(* events nothing is found to be wrong: the events keep their times and    *)
(* are sorted.  After it the error return leaves the times overwritten so  *)
(* far, an unsorted list and current_event.  From here on the downcount is *)
(* not followed.                                                           *)
FailsInEvents(saved, how) ==
  /\ AtHost /\ ~torn
  /\ active' = [e \in Event |-> Restored(saved, how, e)]
  /\ \E done \in SUBSET {e \in Event : Found(saved, how, e)},
        d \in [Event -> Delays] :    \* of the events the owners have activated
       /\ next_run_time' = [e \in Event |-> CASE e \in done              -> saved.next[e]
                                              [] active'[e] /\ ~active[e] -> global_tick_counter + saved.pending + d[e]
                                              [] OTHER -> next_run_time[e]]
       /\ last_run_time' = [e \in Event |-> IF e \in done THEN saved.last[e] ELSE last_run_time[e]]
       /\ period' = [e \in Event |-> IF e \in done THEN saved.period[e] ELSE period[e]]
       /\ interval' = [e \in Event |-> IF e \in done THEN saved.interval[e] ELSE interval[e]]
       /\ \E q \in LET S == Linkable(saved, how) IN [1..Cardinality(S) -> S] :
            /\ queue' = q
            /\ \/ /\ done = {}
                  /\ SortedList(Linkable(saved, how), next_run_time', q)
                  /\ \/ global_tick_counter' = 0 /\ event_run_tick_counter' = 0
                     \/ /\ global_tick_counter' = saved.global
                        /\ event_run_tick_counter' \in {0, saved.run}
                  /\ current_event' = None
               \/ /\ Distinct(q)
                  /\ global_tick_counter' = saved.global
                  /\ event_run_tick_counter' = saved.run
                  /\ UNCHANGED current_event
  /\ pending_ticks' = saved.pending
  /\ irq' = saved.irq
  /\ torn' = TRUE
  /\ UNCHANGED <<current_event_next_run_time, downcount, phase, states>>

(* It ends after the events.  Between two frames nothing is missing; in a  *)
(* frame the CPU, or the commit loop with its locals, goes on with the     *)
(* loaded machine as if it were the one it was running.                    *)
FailsAfterEvents(saved, how) ==
  /\ torn => phase = "out"
  /\ EventsLoaded(saved, how)
  /\ UNCHANGED phase
  /\ torn' = (saved.torn \/ phase # "out")

(* How a torn machine goes on is left open until the host has control      *)
(* again; its clocks and times are not followed.  Whatever it does, resets *)
(* and more failed loads included, the list is that of the active events.  *)
TornStep ==
  /\ torn
  /\ phase' = "out"
  /\ current_event' = None
  /\ active' \in [Event -> BOOLEAN] /\ active'[Crtc]
  /\ \E q \in LET S == {e \in Event : active'[e]} IN [1..Cardinality(S) -> S] :
       Distinct(q) /\ queue' = q
  /\ UNCHANGED <<next_run_time, last_run_time, period, interval,
                 current_event_next_run_time, clock, cpu, states, torn>>

-----------------------------------------------------------------------------
Load ==
  \E saved \in states :
    \/ FailsBeforeEvents(saved)
    \/ \E how \in [Event -> Treatments] :
         /\ \A e \in Event : how[e] \in Owner[e]
         /\ \/ LoadState(saved, how)
            \/ FailsInEvents(saved, how)
            \/ FailsAfterEvents(saved, how)

NextS == \/ ~torn /\ Next /\ UNCHANGED <<states, torn>>
         \/ SaveState
         \/ Load
         \/ TornStep

SpecS == InitS /\ [][NextS]_allVars

-----------------------------------------------------------------------------
(* A machine that is loaded, or half loaded up to the events, has no event *)
(* before its clock, so the commit loop does not find a deadline it can no *)
(* longer meet; and so has a torn one once a state is loaded into it to    *)
(* the end.                                                                *)
LoadedInTime == ~torn => NoEventInThePast

(* Such a machine also finishes the commit in which it was saved before    *)
(* its CPU runs.                                                           *)
LoadedCaughtUp == ~torn => CaughtUp

(* A state written while a callback runs holds the deadline its event will *)
(* have when the callback is over, not the one it is being called for, so  *)
(* a machine that is loaded does not call it a second time.                *)
SaveKeepsDeadlines ==
  [][~torn => \A s \in states' \ states : \A e \in Event :
                s.active[e] => s.next[e] = Deadline(e)]_allVars

=============================================================================
