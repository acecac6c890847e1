----------------------------- MODULE EventClock -----------------------------
(***************************************************************************)
(* What the scheduler promises the devices, without lists, stashed times   *)
(* or CPU budgets: every event has a deadline or none, the clock never     *)
(* passes a deadline, and a callback is called only when the clock stands  *)
(* exactly on the deadline of its event.                                   *)
(***************************************************************************)
EXTENDS Integers

CONSTANTS Event, NoEvent, NoDeadline

VARIABLES now,      \* the clock
          deadline, \* per event, a time or NoDeadline
          running   \* the event whose callback was called last, or NoEvent

Init ==
  /\ now = 0
  /\ deadline \in [Event -> Nat \cup {NoDeadline}]
  /\ running = NoEvent

(* No deadline lies before t.                                              *)
NotBefore(t) == \A e \in Event : deadline[e] # NoDeadline => deadline[e] >= t

Elapse ==
  /\ now' \in Nat /\ now' > now /\ NotBefore(now')
  /\ UNCHANGED <<deadline, running>>

Call(e) ==
  /\ deadline[e] = now
  /\ running' = e
  /\ deadline' = [deadline EXCEPT ![e] = deadline'[e]]
  /\ deadline'[e] \in Nat /\ deadline'[e] > now
  /\ UNCHANGED now

(* A device schedules, delays or cancels one event.                        *)
Arrange(e) ==
  /\ deadline' = [deadline EXCEPT ![e] = deadline'[e]]
  /\ \/ deadline'[e] = NoDeadline
     \/ deadline'[e] \in Nat /\ deadline'[e] >= now
  /\ UNCHANGED <<now, running>>

Finish ==
  /\ running' = NoEvent
  /\ UNCHANGED <<now, deadline>>

(* The machine is reset: every device arranges its events anew.            *)
Restart ==
  /\ now' = 0
  /\ deadline' \in [Event -> Nat \cup {NoDeadline}]
  /\ running' = NoEvent

Next ==
  \/ Elapse
  \/ \E e \in Event : Call(e) \/ Arrange(e)
  \/ Finish
  \/ Restart

Spec == Init /\ [][Next]_<<now, deadline, running>>
=============================================================================
