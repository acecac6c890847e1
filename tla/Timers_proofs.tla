---------------------------- MODULE Timers_proofs ----------------------------
(***************************************************************************)
(* Proofs about Timers, for any timers, widths and inputs.  Those about    *)
(* interrupts (NothingMissed) and about adding ticks in bulk (BulkCounts)  *)
(* need modes whose gates find the counters up to date (PromptMode), and   *)
(* go tick by tick: a statement about n ticks is proved from the smallest  *)
(* n that would contradict it.  At the end the interrupt controller, to    *)
(* which the lines of the timers lead: proofs about Interrupts.            *)
(***************************************************************************)
EXTENDS Timers, Interrupts, WellFoundedInduction, TLAPS

(* A counter before timers_check_for_irq has wrapped it.                   *)
Unwrapped == [mode : Mode, counter : Nat, target : 0..Overflow,
              gate : BOOLEAN, use_external : BOOLEAN, external : BOOLEAN,
              counting : BOOLEAN, irq_done : BOOLEAN, irq_n : BOOLEAN,
              reached_target : BOOLEAN, reached_overflow : BOOLEAN,
              line : BOOLEAN, edges : 0..2]

(* What counting never changes.                                            *)
SameControl(t, u) ==
  /\ u.mode = t.mode /\ u.target = t.target /\ u.gate = t.gate
  /\ u.use_external = t.use_external
  /\ u.external = t.external /\ u.counting = t.counting

(* A rising edge is counted, once more than none at least.                 *)
LEMMA RiseKeeps ==
  ASSUME NEW t \in Counter
  PROVE  /\ Rise(t) \in Counter
         /\ SameControl(t, Rise(t))
         /\ Rise(t).edges > 0
         /\ t.edges = 0 => Rise(t).edges = 1
<1> DEFINE e == IF t.edges < 2 THEN t.edges + 1 ELSE t.edges
<1>1. t.edges \in 0..2
  BY DEF Counter
<1>2. e \in 1..2 /\ (t.edges = 0 => e = 1)
  BY <1>1
<1>3. Rise(t) = [t EXCEPT !.line = TRUE, !.edges = e]
  BY DEF Rise
<1> HIDE DEF e
<1>4. e \in 0..2 /\ e > 0
  BY <1>2
<1>5. Rise(t) \in Counter /\ SameControl(t, Rise(t)) /\ Rise(t).edges = e
  BY <1>3, <1>4 DEF Counter, SameControl
<1> QED
  BY <1>2, <1>4, <1>5

(* An interrupt changes the line and its bookkeeping, and a timer that     *)
(* fires once stays one that fires once.                                   *)
LEMMA RequestKeeps ==
  ASSUME NEW t \in Counter
  PROVE  /\ Request(t) \in Counter
         /\ SameControl(t, Request(t))
         /\ FiresOnce(t) => FiresOnce(Request(t))
<1>1. CASE t.mode.toggle
  <2>1. CASE t.irq_n
    <3> DEFINE r == IF t.line THEN t ELSE Rise(t)
    <3>1. r \in Counter /\ SameControl(t, r)
      BY RiseKeeps DEF SameControl
    <3>2. Request(t) = [r EXCEPT !.irq_n = FALSE]
      BY <1>1, <2>1 DEF Request, Toggle
    <3> HIDE DEF r
    <3> QED
      BY <1>1, <3>1, <3>2 DEF Counter, SameControl, FiresOnce
  <2>2. CASE ~t.irq_n
    BY <1>1, <2>2 DEF Request, Toggle, Rise, Counter, Mode, SameControl, FiresOnce
  <2> QED
    BY <2>1, <2>2
<1>2. CASE ~t.mode.toggle
  <2>1. CASE ~t.irq_done \/ t.mode.irq_repeat
    <3> DEFINE r == Rise(t)
    <3>1. /\ r \in Counter /\ SameControl(t, r)
          /\ r.edges > 0 /\ (t.edges = 0 => r.edges = 1)
      BY RiseKeeps
    <3>2. Request(t) = [r EXCEPT !.irq_done = TRUE, !.irq_n = TRUE]
      BY <1>2, <2>1 DEF Request, Pulse
    <3>3. r.mode = t.mode /\ t.edges \in 0..2
      BY <3>1 DEF Counter, SameControl
    <3> HIDE DEF r
    <3>4. Request(t) \in Counter /\ SameControl(r, Request(t))
      BY <3>1, <3>2 DEF Counter, SameControl
    <3>5. Request(t).edges = r.edges /\ Request(t).irq_done
      BY <3>1, <3>2 DEF Counter
    <3>6. ASSUME FiresOnce(t), ~t.mode.irq_repeat PROVE r.edges <= 1
      <4>1. ~t.irq_done /\ (t.irq_done <=> t.edges > 0)
        BY <1>2, <2>1, <3>6 DEF FiresOnce
      <4>a. ~(t.edges > 0)
        BY <4>1, Zenon
      <4>2. t.edges = 0
        BY <4>a, <3>3
      <4> QED
        BY <4>2, <3>1
    <3> QED
      BY <3>1, <3>3, <3>4, <3>5, <3>6 DEF SameControl, FiresOnce
  <2>2. CASE ~(~t.irq_done \/ t.mode.irq_repeat)
    BY <1>2, <2>2 DEF Request, Pulse, Rise, Counter, Mode, SameControl, FiresOnce
  <2> QED
    BY <2>1, <2>2
<1> QED
  BY <1>1, <1>2

(* A remainder is below its divisor.                                       *)
LEMMA Remainder ==
  ASSUME NEW a \in Nat, NEW b \in Nat \ {0}
  PROVE  a % b \in 0..(b - 1) /\ a \div b \in Nat
OBVIOUS

(* timers_check_for_irq leaves a counter below 0xFFFF and its control      *)
(* alone.                                                                  *)
LEMMA CheckKeeps ==
  ASSUME NEW t \in Unwrapped, NEW old
  PROVE  /\ CheckForIrq(t, old) \in Counter
         /\ SameControl(t, CheckForIrq(t, old))
         /\ FiresOnce(t) => FiresOnce(CheckForIrq(t, old))
<1> DEFINE hit == Hits(t, old)
           c == IF hit /\ t.mode.reset_at_target /\ t.target > 0
                THEN t.counter % t.target ELSE t.counter
           u == [t EXCEPT !.counter = Wrap(c),
                          !.reached_target = @ \/ hit,
                          !.reached_overflow = @ \/ c >= Overflow]
<1>1. c \in Nat
  <2>1. t.counter \in Nat /\ t.target \in Nat
    BY WidthAssumption DEF Unwrapped
  <2>2. t.target > 0 => t.counter % t.target \in Nat
    BY <2>1, Remainder
  <2> QED
    BY <2>1, <2>2
<1> HIDE DEF c, hit
<1>2. Wrap(c) \in 0..(Overflow - 1)
  BY <1>1, WidthAssumption, Remainder DEF Wrap
<1>a. (t.reached_target \/ hit) \in BOOLEAN /\ (t.reached_overflow \/ c >= Overflow) \in BOOLEAN
  OBVIOUS
<1>3. u \in Counter /\ SameControl(t, u) /\ (FiresOnce(t) => FiresOnce(u))
  BY <1>2, <1>a DEF Unwrapped, Counter, SameControl, FiresOnce
<1>4. CheckForIrq(t, old) = u \/ CheckForIrq(t, old) = Request(u)
  BY DEF CheckForIrq, c, hit
<1>5. /\ Request(u) \in Counter
      /\ SameControl(u, Request(u))
      /\ FiresOnce(u) => FiresOnce(Request(u))
  BY <1>3, RequestKeeps
<1> HIDE DEF u
<1> QED
  BY <1>3, <1>4, <1>5 DEF SameControl

(* Adding ticks keeps a counter in its range.                              *)
LEMMA AddKeeps ==
  ASSUME NEW t \in Counter, NEW n \in Nat
  PROVE  /\ AddTicks(t, n) \in Counter
         /\ SameControl(t, AddTicks(t, n))
         /\ FiresOnce(t) => FiresOnce(AddTicks(t, n))
<1> DEFINE u == [t EXCEPT !.counter = @ + n]
<1>1. t.counter + n \in Nat
  BY WidthAssumption DEF Counter
<1>2. u \in Unwrapped /\ SameControl(t, u) /\ (FiresOnce(t) => FiresOnce(u))
  BY <1>1 DEF Counter, Unwrapped, SameControl, FiresOnce
<1>3. AddTicks(t, n) = CheckForIrq(u, t.counter)
  BY DEF AddTicks
<1> HIDE DEF u
<1> QED
  BY <1>2, <1>3, CheckKeeps DEF SameControl

(* The flags follow from what counting never changes.                      *)
LEMMA ControlDecides ==
  ASSUME NEW t, NEW u, SameControl(t, u)
  PROVE  /\ FollowsMode(t) => FollowsMode(u)
         /\ \A i \in 0..2 : OnSysclk(i, u) = OnSysclk(i, t)
BY DEF SameControl, FollowsMode, OnSysclk

(* What a timer may wait for is a number of ticks.                         *)
LEMMA DueInIsInt ==
  ASSUME NEW cs \in [Timer -> Counter], NEW i \in 0..2
  PROVE  DueIn(i, cs) \in Int
<1>1. CASE i \in Timer
  <2> DEFINE t == cs[i]
             per == IF t.external THEN Div ELSE 1
  <2>1. t \in Counter
    BY <1>1
  <2>2. per \in Nat /\ t.counter \in Nat /\ t.target \in Nat /\ Overflow \in Nat /\ MaxSlice \in Nat
    BY <2>1, WidthAssumption DEF Counter
  <2>3. TicksToTarget(t) \in Int
    BY <2>2 DEF TicksToTarget
  <2> DEFINE x == TicksToTarget(t) * per
             y == (Overflow - t.counter) * per
  <2>4. x \in Int /\ y \in Int
    BY <2>2, <2>3
  <2> HIDE DEF per, x, y
  <2>5. DueIn(i, cs) \in {x, y, MaxSlice}
    BY DEF DueIn, Least, x, y, per
  <2> QED
    BY <2>2, <2>4, <2>5
<1>2. CASE i \notin Timer
  BY <1>2, WidthAssumption DEF DueIn
<1> QED
  BY <1>1, <1>2

(* The event is always put a tick ahead at least.                          *)
LEMMA TicksPositive ==
  ASSUME NEW cs \in [Timer -> Counter]
  PROVE  TicksUntilNextInterrupt(cs) \in Nat \ {0}
<1>1. DueIn(0, cs) \in Int /\ DueIn(1, cs) \in Int /\ DueIn(2, cs) \in Int
  BY DueInIsInt
<1> QED
  BY <1>1, WidthAssumption DEF TicksUntilNextInterrupt, Least

-----------------------------------------------------------------------------
(* The inductive invariant: the properties, and an event that is never     *)
(* due before it has ticks to execute.                                     *)
Inv == /\ TypeOK /\ FlagsFollowMode /\ NoTickLostAtGate /\ OneShotFiresOnce
       /\ since + left >= 1

(* Timers that are in order.                                               *)
InOrder(cs) == /\ cs \in [Timer -> Counter]
               /\ \A i \in Timer : FollowsMode(cs[i]) /\ FiresOnce(cs[i])

(* n ticks of the system clock leave the timers in order and counting what *)
(* they counted.                                                           *)
LEMMA TickedKeeps ==
  ASSUME Inv, NEW n \in Nat
  PROVE  /\ InOrder(Ticked(n))
         /\ \A i \in Timer : SameControl(tm[i], Ticked(n)[i])
         /\ CarryAfter(n) \in 0..(Div - 1)
<1>1. tm \in [Timer -> Counter] /\ carry \in 0..(Div - 1) /\ Div \in Nat \ {0}
  BY WidthAssumption DEF Inv, TypeOK
<1>2. (n + carry) \div Div \in Nat /\ (n + carry) % Div \in 0..(Div - 1)
  <2>1. n + carry \in Nat
    BY <1>1
  <2> QED
    BY <1>1, <2>1, Remainder
<1>3. ASSUME NEW i \in Timer
      PROVE  /\ Ticked(n)[i] \in Counter /\ SameControl(tm[i], Ticked(n)[i])
             /\ FollowsMode(Ticked(n)[i]) /\ FiresOnce(Ticked(n)[i])
  <2>1. tm[i] \in Counter /\ FollowsMode(tm[i]) /\ FiresOnce(tm[i])
    BY <1>1 DEF Inv, FlagsFollowMode, OneShotFiresOnce
  <2>2. Scaled(i, tm[i], n) \in Nat
    BY <1>2 DEF Scaled
  <2>3. Ticked(n)[i] = tm[i] \/ Ticked(n)[i] = AddTicks(tm[i], Scaled(i, tm[i], n))
    BY DEF Ticked
  <2>4. CASE Ticked(n)[i] = tm[i]
    BY <2>1, <2>4 DEF SameControl
  <2>5. CASE Ticked(n)[i] = AddTicks(tm[i], Scaled(i, tm[i], n))
    <3>1. /\ Ticked(n)[i] \in Counter /\ SameControl(tm[i], Ticked(n)[i])
          /\ FiresOnce(Ticked(n)[i])
      BY <2>1, <2>2, <2>5, AddKeeps
    <3> QED
      BY <2>1, <3>1, ControlDecides
  <2> QED
    BY <2>3, <2>4, <2>5
<1>4. Ticked(n) = [i \in Timer |-> Ticked(n)[i]]
  BY DEF Ticked
<1>5. Ticked(n) \in [Timer -> Counter]
  BY <1>3, <1>4
<1>6. CarryAfter(n) \in 0..(Div - 1)
  BY <1>1, <1>2 DEF CarryAfter
<1> QED
  BY <1>3, <1>5, <1>6 DEF InOrder

(* So does bringing them up to date.                                       *)
LEMMA SyncedKeeps ==
  ASSUME Inv, InvokeEarly
  PROVE  /\ InOrder(Synced)
         /\ \A i \in Timer : SameControl(tm[i], Synced[i])
         /\ since' = 0 /\ carry' \in 0..(Div - 1) /\ owed' = [i \in Timer |-> 0]
         /\ SyncedLeft \in Int /\ SyncedLeft >= 1
<1>1. since \in Nat /\ left \in Int /\ carry \in 0..(Div - 1) /\ since + left >= 1
  BY DEF Inv, TypeOK
<1>2. CASE since > 0
  <2>1. /\ InOrder(Ticked(since)) /\ CarryAfter(since) \in 0..(Div - 1)
        /\ \A i \in Timer : SameControl(tm[i], Ticked(since)[i])
    BY <1>1, TickedKeeps
  <2>2. TicksUntilNextInterrupt(Ticked(since)) \in Nat \ {0}
    BY <2>1, TicksPositive DEF InOrder
  <2> QED
    BY <1>2, <2>1, <2>2 DEF InvokeEarly, Synced, SyncedLeft
<1>3. CASE since = 0
  <2>1. InOrder(tm) /\ \A i \in Timer : SameControl(tm[i], tm[i])
    BY DEF Inv, TypeOK, FlagsFollowMode, OneShotFiresOnce, InOrder, SameControl
  <2>2. Synced = tm /\ SyncedLeft = left /\ carry' = carry
    BY <1>3 DEF InvokeEarly, Synced, SyncedLeft
  <2> QED
    BY <1>1, <1>3, <2>1, <2>2 DEF InvokeEarly
<1> QED
  BY <1>1, <1>2, <1>3

(* An event a tick ahead of now.                                           *)
LEMMA PositiveSum ==
  ASSUME NEW x, NEW y, x = 0, y \in Int, y >= 1
  PROVE  x + y >= 1
OBVIOUS

(* Timers in order and up to date satisfy the invariant.                   *)
LEMMA UpToDate ==
  ASSUME InOrder(tm'), since' = 0, left' \in Int, left' >= 1,
         carry' \in 0..(Div - 1), owed' = [i \in Timer |-> 0]
  PROVE  Inv'
<1>1. TypeOK'
  BY DEF InOrder, TypeOK
<1>2. FlagsFollowMode' /\ OneShotFiresOnce'
  BY DEF InOrder, FlagsFollowMode, OneShotFiresOnce
<1>3. NoTickLostAtGate'
  BY DEF NoTickLostAtGate
<1>4. since' = 0 /\ left' \in Int /\ left' >= 1
  OBVIOUS
<1>5. since' + left' >= 1
  BY <1>4, PositiveSum
<1> QED
  BY <1>1, <1>2, <1>3, <1>5 DEF Inv

(* An access that puts one timer in order after the timers were brought up *)
(* to date, and leaves or moves the event.                                 *)
LEMMA AccessKeeps ==
  ASSUME Inv, InvokeEarly, NEW i \in Timer, NEW u \in Counter,
         FollowsMode(u), FiresOnce(u),
         tm' = [Synced EXCEPT ![i] = u],
         left' = SyncedLeft \/ UpdateSysclkEvent
  PROVE  Inv'
<1>1. /\ InOrder(Synced) /\ SyncedLeft \in Int /\ SyncedLeft >= 1
      /\ since' = 0 /\ carry' \in 0..(Div - 1) /\ owed' = [j \in Timer |-> 0]
  BY SyncedKeeps
<1>2. InOrder(tm')
  BY <1>1 DEF InOrder
<1>3. TicksUntilNextInterrupt(tm') \in Nat \ {0}
  BY <1>2, TicksPositive DEF InOrder
<1>4. left' \in Int /\ left' >= 1
  BY <1>1, <1>3 DEF UpdateSysclkEvent
<1> QED
  BY <1>1, <1>2, <1>4, UpToDate

-----------------------------------------------------------------------------
(* What the operations do to a timer.                                      *)

(* A mode write leaves a timer in order, whatever it was before.           *)
LEMMA ModeKeeps ==
  ASSUME NEW t \in Counter, NEW m \in Mode
  PROVE  /\ ModeWritten(t, m) \in Counter
         /\ FollowsMode(ModeWritten(t, m)) /\ FiresOnce(ModeWritten(t, m))
<1> DEFINE a == [t EXCEPT !.mode = m, !.use_external = m.ext, !.counter = 0,
                          !.irq_done = FALSE, !.line = FALSE, !.edges = 0]
           c == CountingEnabled(a.mode, a.gate)
           u == UpdateCountingEnabled(a)
<1>1. /\ a \in Unwrapped /\ a.mode = m /\ a.use_external = m.ext /\ a.gate = t.gate
      /\ a.irq_done = FALSE /\ a.edges = 0
  <2> DEFINE b == [t EXCEPT !.mode = m, !.use_external = m.ext, !.counter = 0]
  <2>1. m.ext \in BOOLEAN
    BY DEF Mode
  <2>2. b \in Unwrapped
    BY <2>1 DEF Counter, Unwrapped
  <2>a. b.mode = m /\ b.use_external = m.ext /\ b.gate = t.gate
    BY DEF Counter
  <2> PICK z \in 0..2 : z = 0
    OBVIOUS
  <2> DEFINE b1 == [b EXCEPT !.irq_done = FALSE, !.line = FALSE]
  <2>3. a = [b1 EXCEPT !.edges = z]
    OBVIOUS
  <2>b. b1 \in Unwrapped /\ b1.mode = b.mode /\ b1.use_external = b.use_external
        /\ b1.gate = b.gate /\ b1.irq_done = FALSE
    BY <2>2 DEF Unwrapped
  <2> HIDE DEF b, b1, a
  <2>4. a \in Unwrapped
    BY <2>b, <2>3 DEF Unwrapped
  <2>5. /\ a.mode = b.mode /\ a.use_external = b.use_external /\ a.gate = b.gate
        /\ a.irq_done = FALSE /\ a.edges = 0
    BY <2>b, <2>3 DEF Unwrapped
  <2> QED
    BY <2>a, <2>4, <2>5
<1>2. c \in BOOLEAN
  BY <1>1 DEF CountingEnabled, Unwrapped, Mode
<1>3. u = [a EXCEPT !.counting = c, !.external = a.use_external /\ c]
  BY DEF UpdateCountingEnabled
<1> HIDE DEF a
<1>4. /\ u \in Unwrapped /\ u.mode = m /\ u.use_external = m.ext /\ u.gate = a.gate
      /\ u.counting = c /\ u.external = (m.ext /\ c) /\ u.irq_done = FALSE /\ u.edges = 0
  BY <1>1, <1>2, <1>3 DEF Unwrapped
<1>5. FollowsMode(u)
  BY <1>1, <1>4 DEF FollowsMode
<1>6. FiresOnce(u)
  <2>1. ~(u.edges > 0) /\ u.edges <= 1
    BY <1>4
  <2>2. ~u.irq_done
    BY <1>4
  <2> QED
    BY <2>1, <2>2, Zenon DEF FiresOnce
<1>7. ModeWritten(t, m) = CheckForIrq(u, 0)
  BY DEF ModeWritten, a
<1> HIDE DEF u
<1> QED
  BY <1>4, <1>5, <1>6, <1>7, CheckKeeps, ControlDecides

(* So does a gate, and where the ticks are not counted before it, it does  *)
(* not change whether the timer counts the system clock.                   *)
LEMMA GateKeeps ==
  ASSUME NEW t \in Counter, FollowsMode(t), FiresOnce(t), t.mode.sync, NEW state \in BOOLEAN
  PROVE  /\ Gated(t, state) \in Counter
         /\ FollowsMode(Gated(t, state)) /\ FiresOnce(Gated(t, state))
         /\ ~CountsBeforeGate(t, state) =>
              \A i \in {0, 1} : OnSysclk(i, Gated(t, state)) = OnSysclk(i, t)
<1> DEFINE zero == \/ t.mode.sync_mode = ResetOnGateEnd /\ ~state
                   \/ t.mode.sync_mode = ResetAndRunOnStart /\ state
           stay == t.mode.sync /\ ~(t.mode.sync_mode = FreeRunOnGateEnd /\ ~state)
           a == [t EXCEPT !.gate = state,
                          !.counter = IF zero THEN 0 ELSE @, !.mode.sync = stay]
           c == CountingEnabled(a.mode, a.gate)
           u == UpdateCountingEnabled(a)
<1>1. stay \in BOOLEAN /\ (IF zero THEN 0 ELSE t.counter) \in 0..(Overflow - 1)
  BY WidthAssumption DEF Counter
<1>2. /\ a \in Counter /\ a.mode = [t.mode EXCEPT !.sync = stay] /\ a.gate = state
      /\ a.use_external = t.use_external /\ a.irq_done = t.irq_done /\ a.edges = t.edges
  <2> DEFINE mode == [t.mode EXCEPT !.sync = stay]
             k == IF zero THEN 0 ELSE t.counter
  <2>1. mode \in Mode
    BY <1>1 DEF Counter, Mode
  <2>2. k \in 0..(Overflow - 1)
    BY <1>1
  <2>3. a = [t EXCEPT !.gate = state, !.counter = k, !.mode = mode]
    BY DEF Counter, Mode
  <2> HIDE DEF mode, k, a
  <2>4. /\ a \in Counter /\ a.mode = mode /\ a.gate = state
        /\ a.use_external = t.use_external /\ a.irq_done = t.irq_done /\ a.edges = t.edges
    BY <2>1, <2>2, <2>3 DEF Counter
  <2> QED
    BY <2>4 DEF mode
<1>3. /\ a.mode \in Mode /\ a.mode.sync = stay /\ a.mode.sync_mode = t.mode.sync_mode
      /\ a.mode.ext = t.mode.ext /\ a.mode.toggle = t.mode.toggle
      /\ a.mode.irq_repeat = t.mode.irq_repeat
  BY <1>1, <1>2 DEF Counter, Mode
<1>4. c \in BOOLEAN
  BY <1>2, <1>3 DEF CountingEnabled, Mode
<1>5. u = [a EXCEPT !.counting = c, !.external = a.use_external /\ c]
  BY DEF UpdateCountingEnabled
<1>6. Gated(t, state) = u
  BY DEF Gated
<1> HIDE DEF a, stay, zero
<1>7. /\ u \in Counter /\ u.mode = a.mode /\ u.gate = state /\ u.counting = c
      /\ u.use_external = t.use_external /\ u.external = (t.use_external /\ c)
      /\ u.irq_done = t.irq_done /\ u.edges = t.edges
  BY <1>2, <1>4, <1>5 DEF Counter
<1>8. t.use_external = t.mode.ext
  BY DEF FollowsMode
<1>9. FollowsMode(u)
  BY <1>2, <1>3, <1>7, <1>8 DEF FollowsMode
<1>10. FiresOnce(u)
  BY <1>3, <1>7 DEF FiresOnce
<1>11. ASSUME ~CountsBeforeGate(t, state), NEW i \in {0, 1}
       PROVE  OnSysclk(i, u) = OnSysclk(i, t)
  <2>1. CASE t.use_external
    <3>1. t.external = t.counting /\ u.external = u.counting
      BY <1>7, <1>8, <2>1 DEF FollowsMode, Counter
    <3> QED
      BY <3>1 DEF OnSysclk
  <2>2. CASE ~t.use_external
    <3>1. t.mode.sync_mode = ResetOnGateEnd /\ state
      BY <1>11, <2>2 DEF CountsBeforeGate
    <3>2. t.counting /\ c
      BY <1>2, <1>3, <3>1 DEF FollowsMode, CountingEnabled, ResetOnGateEnd, PauseWhileGateActive
    <3>3. ~t.external /\ ~u.external /\ u.counting
      BY <1>7, <1>8, <2>2, <3>2 DEF FollowsMode
    <3> QED
      BY <3>2, <3>3 DEF OnSysclk
  <2> QED
    BY <2>1, <2>2
<1> HIDE DEF u
<1> QED
  BY <1>6, <1>7, <1>9, <1>10, <1>11

(* So does the reset, which leaves use_external_clock behind.              *)
LEMMA ClearedInOrder ==
  ASSUME NEW b \in BOOLEAN
  PROVE  Cleared(b) \in Counter /\ FollowsMode(Cleared(b)) /\ FiresOnce(Cleared(b))
<1>1. Cleared(b) \in Counter
  BY WidthAssumption DEF Cleared, Counter, Mode
<1>2. FollowsMode(Cleared(b)) /\ FiresOnce(Cleared(b))
  <2> DEFINE t == Cleared(b)
  <2>1. /\ t.counting = TRUE /\ t.external = FALSE /\ t.mode.ext = FALSE /\ t.mode.sync = FALSE
        /\ t.irq_done = FALSE /\ t.edges = 0
    BY DEF Cleared
  <2>2. ~(t.edges > 0) /\ t.edges <= 1
    BY <2>1
  <2> HIDE DEF t
  <2>3. FollowsMode(t)
    BY <2>1 DEF FollowsMode, CountingEnabled
  <2>4. FiresOnce(t)
    BY <2>1, <2>2, Zenon DEF FiresOnce
  <2> QED
    BY <2>3, <2>4 DEF t
<1> QED
  BY <1>1, <1>2

-----------------------------------------------------------------------------
(* The timers start in order.                                              *)
LEMMA InitInv == Init => Inv
<1> SUFFICES ASSUME Init PROVE Inv
  OBVIOUS
<1>1. FALSE \in BOOLEAN /\ 0 \in Nat /\ 0 \in 0..(Div - 1) /\ MaxSlice \in Int /\ 0 + MaxSlice >= 1
  BY WidthAssumption
<1>2. InOrder(tm)
  BY <1>1, ClearedInOrder DEF Init, InOrder
<1>3. TypeOK /\ FlagsFollowMode /\ OneShotFiresOnce
  BY <1>1, <1>2 DEF Init, InOrder, TypeOK, FlagsFollowMode, OneShotFiresOnce
<1>4. NoTickLostAtGate
  BY DEF Init, NoTickLostAtGate
<1> QED
  BY <1>1, <1>3, <1>4 DEF Init, Inv

(* Every step keeps the invariant.                                         *)
LEMMA NextInv == Inv /\ [Next]_vars => Inv'
<1> SUFFICES ASSUME Inv, [Next]_vars PROVE Inv'
  OBVIOUS
<1> USE DEF Inv
<1>a. /\ tm \in [Timer -> Counter] /\ since \in Nat /\ left \in Int
      /\ carry \in 0..(Div - 1) /\ owed \in [Timer -> Nat] /\ since + left >= 1
      /\ InOrder(tm)
  BY DEF TypeOK, FlagsFollowMode, OneShotFiresOnce, InOrder
<1>b. \A i \in Timer : owed[i] = IF OnSysclk(i, tm[i]) THEN since ELSE 0
  BY DEF NoTickLostAtGate
<1>1. CASE Elapse
  <2>1. /\ tm' = tm /\ carry' = carry /\ since' = since + 1 /\ left' = left - 1
        /\ owed' = [i \in Timer |-> owed[i] + IF OnSysclk(i, tm[i]) THEN 1 ELSE 0]
    BY <1>1 DEF Elapse
  <2>2. since + 1 \in Nat /\ left - 1 \in Int /\ (since + 1) + (left - 1) >= 1
    BY <1>a
  <2>3. \A i \in Timer : /\ owed'[i] \in Nat
                         /\ owed'[i] = IF OnSysclk(i, tm[i]) THEN since + 1 ELSE 0
    BY <1>a, <1>b, <2>1
  <2>4. TypeOK'
    BY <1>a, <2>1, <2>2, <2>3 DEF TypeOK
  <2>5. FlagsFollowMode' /\ OneShotFiresOnce'
    BY <1>a, <2>1 DEF FlagsFollowMode, OneShotFiresOnce, InOrder
  <2>6. NoTickLostAtGate'
    BY <2>1, <2>3 DEF NoTickLostAtGate
  <2> QED
    BY <2>1, <2>2, <2>4, <2>5, <2>6
<1>2. CASE SysclkEvent
  <2> DEFINE n == since + left
             x == TicksUntilNextInterrupt(tm')
  <2>1. /\ left <= 0 /\ tm' = Ticked(n) /\ carry' = CarryAfter(n)
        /\ since' = -left /\ left' = left + x
        /\ owed' = [i \in Timer |-> IF OnSysclk(i, tm[i]) THEN -left ELSE 0]
    BY <1>2 DEF SysclkEvent
  <2>2. n \in Nat /\ -left \in Nat
    BY <1>a, <2>1
  <2> HIDE DEF n
  <2>3. /\ InOrder(tm') /\ carry' \in 0..(Div - 1)
        /\ \A i \in Timer : SameControl(tm[i], tm'[i])
    BY <2>1, <2>2, TickedKeeps
  <2>4. x \in Nat \ {0}
    BY <2>3, TicksPositive DEF InOrder
  <2> HIDE DEF x
  <2>5. left + x \in Int /\ (-left) + (left + x) >= 1
    BY <1>a, <2>4
  <2>6. \A i \in Timer : OnSysclk(i, tm'[i]) = OnSysclk(i, tm[i])
    BY <2>3 DEF SameControl, OnSysclk
  <2>7. TypeOK'
    BY <2>1, <2>2, <2>3, <2>5 DEF TypeOK, InOrder
  <2>8. FlagsFollowMode' /\ OneShotFiresOnce'
    BY <2>3 DEF InOrder, FlagsFollowMode, OneShotFiresOnce
  <2>9. NoTickLostAtGate'
    BY <2>1, <2>6 DEF NoTickLostAtGate
  <2> QED
    BY <2>1, <2>5, <2>7, <2>8, <2>9
<1>3. CASE Reset
  <2>1. /\ tm' = [i \in Timer |-> Cleared(tm[i].use_external)]
        /\ since' = 0 /\ carry' = 0 /\ owed' = [i \in Timer |-> 0]
        /\ left' = TicksUntilNextInterrupt(tm')
    BY <1>3 DEF Reset, UpdateSysclkEvent
  <2>2. \A i \in Timer : tm[i].use_external \in BOOLEAN
    BY <1>a DEF Counter
  <2>3. InOrder(tm')
    BY <2>1, <2>2, ClearedInOrder DEF InOrder
  <2>4. left' \in Int /\ left' >= 1
    BY <2>1, <2>3, TicksPositive DEF InOrder
  <2>5. carry' \in 0..(Div - 1)
    BY <2>1, WidthAssumption
  <2> QED
    BY <2>1, <2>3, <2>4, <2>5, UpToDate
<1>4. ASSUME NEW i \in Timer, ReadCounter(i) PROVE Inv'
  <2>1. tm' = Synced /\ left' = SyncedLeft /\ InvokeEarly
    BY <1>4 DEF ReadCounter
  <2>2. /\ InOrder(tm') /\ left' \in Int /\ left' >= 1
        /\ since' = 0 /\ carry' \in 0..(Div - 1) /\ owed' = [j \in Timer |-> 0]
    BY <2>1, SyncedKeeps
  <2> QED
    BY <2>2, UpToDate
<1>5. ASSUME NEW i \in Timer, ReadMode(i) PROVE Inv'
  <2> DEFINE t == Synced[i]
             u == [t EXCEPT !.reached_target = FALSE, !.reached_overflow = FALSE]
  <2>1. /\ tm' = [Synced EXCEPT ![i].reached_target = FALSE, ![i].reached_overflow = FALSE]
        /\ left' = SyncedLeft /\ InvokeEarly
    BY <1>5 DEF ReadMode
  <2>2. InOrder(Synced)
    BY <2>1, SyncedKeeps
  <2>3. t \in Counter /\ FollowsMode(t) /\ FiresOnce(t)
    BY <2>2 DEF InOrder
  <2>4. tm' = [Synced EXCEPT ![i] = u]
    BY <2>1, <2>2 DEF InOrder
  <2> HIDE DEF t
  <2>5. u \in Counter /\ FollowsMode(u) /\ FiresOnce(u)
    BY <2>3 DEF Counter, FollowsMode, FiresOnce
  <2> HIDE DEF u
  <2> QED
    BY <2>1, <2>4, <2>5, AccessKeeps
<1>6. ASSUME NEW i \in Timer, NEW v \in Values, WriteCounter(i, v) PROVE Inv'
  <2> DEFINE t == Synced[i]
             a == [t EXCEPT !.counter = v]
             u == CheckForIrq(a, t.counter)
  <2>1. InvokeEarly /\ Reschedule(i) /\ tm' = [Synced EXCEPT ![i] = u]
    BY <1>6 DEF WriteCounter
  <2>2. t \in Counter /\ FollowsMode(t) /\ FiresOnce(t)
    BY <2>1, SyncedKeeps DEF InOrder
  <2>3. v \in Nat
    BY InputAssumption, WidthAssumption
  <2>4. a \in Unwrapped /\ FollowsMode(a) /\ FiresOnce(a)
    BY <2>2, <2>3 DEF Counter, Unwrapped, FollowsMode, FiresOnce
  <2> HIDE DEF a, t
  <2>5. u \in Counter /\ FollowsMode(u) /\ FiresOnce(u)
    BY <2>4, CheckKeeps, ControlDecides
  <2> HIDE DEF u
  <2>6. left' = SyncedLeft \/ UpdateSysclkEvent
    BY <2>1 DEF Reschedule
  <2> QED
    BY <2>1, <2>5, <2>6, AccessKeeps
<1>7. ASSUME NEW i \in Timer, NEW v \in Values, WriteTarget(i, v) PROVE Inv'
  <2> DEFINE t == Synced[i]
             a == [t EXCEPT !.target = v]
             u == CheckForIrq(a, t.counter)
  <2>1. InvokeEarly /\ Reschedule(i) /\ tm' = [Synced EXCEPT ![i] = u]
    BY <1>7 DEF WriteTarget
  <2>2. t \in Counter /\ FollowsMode(t) /\ FiresOnce(t)
    BY <2>1, SyncedKeeps DEF InOrder
  <2>3. v \in 0..Overflow /\ t.counter \in Nat
    BY <2>2, InputAssumption, WidthAssumption DEF Counter
  <2>4. a \in Unwrapped /\ FollowsMode(a) /\ FiresOnce(a)
    BY <2>2, <2>3 DEF Counter, Unwrapped, FollowsMode, FiresOnce
  <2> HIDE DEF a, t
  <2>5. u \in Counter /\ FollowsMode(u) /\ FiresOnce(u)
    BY <2>4, CheckKeeps, ControlDecides
  <2> HIDE DEF u
  <2>6. left' = SyncedLeft \/ UpdateSysclkEvent
    BY <2>1 DEF Reschedule
  <2> QED
    BY <2>1, <2>5, <2>6, AccessKeeps
<1>8. ASSUME NEW i \in Timer, NEW m \in Modes[i], WriteMode(i, m) PROVE Inv'
  <2> DEFINE t == Synced[i]
             u == ModeWritten(t, m)
  <2>1. InvokeEarly /\ UpdateSysclkEvent /\ tm' = [Synced EXCEPT ![i] = u]
    BY <1>8 DEF WriteMode
  <2>2. t \in Counter
    BY <2>1, SyncedKeeps DEF InOrder
  <2>3. m \in Mode
    BY InputAssumption
  <2> HIDE DEF t
  <2>4. u \in Counter /\ FollowsMode(u) /\ FiresOnce(u)
    BY <2>2, <2>3, ModeKeeps
  <2> HIDE DEF u
  <2> QED
    BY <2>1, <2>4, AccessKeeps
<1>9. ASSUME NEW i \in Timer, NEW n \in 1..MaxGpuTicks, GpuTicks(i, n) PROVE Inv'
  <2> DEFINE u == AddTicks(tm[i], n)
  <2>1. /\ tm' = [tm EXCEPT ![i] = u]
        /\ since' = since /\ left' = left /\ carry' = carry /\ owed' = owed
    BY <1>9 DEF GpuTicks
  <2>2. tm[i] \in Counter /\ FollowsMode(tm[i]) /\ FiresOnce(tm[i]) /\ n \in Nat
    BY <1>a DEF InOrder
  <2>3. u \in Counter /\ SameControl(tm[i], u) /\ FiresOnce(u)
    BY <2>2, AddKeeps
  <2>4. FollowsMode(u)
    BY <2>2, <2>3, ControlDecides
  <2>5. OnSysclk(i, u) = OnSysclk(i, tm[i])
    BY <2>3 DEF SameControl, OnSysclk
  <2> HIDE DEF u
  <2> QED
    BY <1>a, <1>b, <2>1, <2>3, <2>4, <2>5
    DEF InOrder, TypeOK, FlagsFollowMode, OneShotFiresOnce, NoTickLostAtGate
<1>10. ASSUME NEW i \in Timer, i # 2, NEW state \in BOOLEAN, SetGate(i, state) PROVE Inv'
  <2> DEFINE g == [tm[i] EXCEPT !.gate = state]
             u == Gated(tm[i], state)
  <2>1. tm[i] \in Counter /\ FollowsMode(tm[i]) /\ FiresOnce(tm[i]) /\ i \in {0, 1}
    BY <1>a, <1>10, TimerAssumption DEF InOrder
  <2>2. CASE ~tm[i].mode.sync
    <3>1. /\ tm' = [tm EXCEPT ![i] = g]
          /\ since' = since /\ left' = left /\ carry' = carry /\ owed' = owed
      BY <1>10, <2>2 DEF SetGate
    <3>2. g \in Counter /\ FiresOnce(g) /\ g.mode = tm[i].mode
          /\ g.external = tm[i].external /\ g.counting = tm[i].counting
      BY <2>1 DEF Counter, FiresOnce
    <3>3. FollowsMode(g) /\ OnSysclk(i, g) = OnSysclk(i, tm[i])
      BY <2>1, <2>2, <3>2 DEF FollowsMode, CountingEnabled, OnSysclk
    <3> HIDE DEF g
    <3> QED
      BY <1>a, <1>b, <3>1, <3>2, <3>3
      DEF InOrder, TypeOK, FlagsFollowMode, OneShotFiresOnce, NoTickLostAtGate
  <2>3. CASE tm[i].mode.sync /\ CountsBeforeGate(tm[i], state)
    <3> DEFINE t == Synced[i]
               w == Gated(t, state)
    <3>1. InvokeEarly /\ UpdateSysclkEvent /\ tm' = [Synced EXCEPT ![i] = w]
      BY <1>10, <2>3 DEF SetGate
    <3>2. /\ t \in Counter /\ FollowsMode(t) /\ FiresOnce(t) /\ SameControl(tm[i], t)
      BY <3>1, SyncedKeeps DEF InOrder
    <3>3. t.mode.sync
      BY <2>3, <3>2 DEF SameControl
    <3> HIDE DEF t
    <3>4. w \in Counter /\ FollowsMode(w) /\ FiresOnce(w)
      BY <3>2, <3>3, GateKeeps
    <3> HIDE DEF w
    <3> QED
      BY <3>1, <3>4, AccessKeeps
  <2>4. CASE tm[i].mode.sync /\ ~CountsBeforeGate(tm[i], state)
    <3>1. /\ tm' = [tm EXCEPT ![i] = u] /\ left' = TicksUntilNextInterrupt(tm')
          /\ since' = since /\ carry' = carry /\ owed' = owed
      BY <1>10, <2>4 DEF SetGate, UpdateSysclkEvent
    <3>2. /\ u \in Counter /\ FollowsMode(u) /\ FiresOnce(u)
          /\ OnSysclk(i, u) = OnSysclk(i, tm[i])
      BY <2>1, <2>4, GateKeeps
    <3> HIDE DEF u
    <3>3. InOrder(tm')
      BY <1>a, <3>1, <3>2 DEF InOrder
    <3>4. left' \in Nat \ {0}
      BY <3>1, <3>3, TicksPositive DEF InOrder
    <3>5. \A x \in Nat, y \in Nat \ {0} : x + y >= 1
      OBVIOUS
    <3>6. since' + left' >= 1
      BY <1>a, <3>1, <3>4, <3>5
    <3> QED
      BY <1>a, <1>b, <3>1, <3>2, <3>3, <3>4, <3>6
      DEF InOrder, TypeOK, FlagsFollowMode, OneShotFiresOnce, NoTickLostAtGate
  <2> QED
    BY <2>2, <2>3, <2>4
<1>11. CASE UNCHANGED vars
  BY <1>11 DEF vars, TypeOK, FlagsFollowMode, OneShotFiresOnce, NoTickLostAtGate
<1> QED
  BY <1>1, <1>2, <1>3, <1>4, <1>5, <1>6, <1>7, <1>8, <1>9, <1>10, <1>11 DEF Next

-----------------------------------------------------------------------------
(* The timers stay in order through every operation.                       *)
THEOREM Invariant == Spec => []Inv
BY InitInv, NextInv, PTL DEF Spec

(* Whatever is added to a counter or written to it at once, it stays below *)
(* 0xFFFF between operations (timers_check_for_irq).                       *)
THEOREM TypeCorrect == Spec => []TypeOK
<1>1. Inv => TypeOK
  BY DEF Inv
<1> QED
  BY Invariant, <1>1, PTL

(* No sequence of gate changes, mode writes and resets leaves a stale      *)
(* counting flag (timers_set_gate, timers_update_counting_enabled).        *)
THEOREM FlagsAgree == Spec => []FlagsFollowMode
<1>1. Inv => FlagsFollowMode
  BY DEF Inv
<1> QED
  BY Invariant, <1>1, PTL

(* Every addition gives a timer the ticks it was counting for, gates and   *)
(* early invocations notwithstanding (timers_set_gate).                    *)
THEOREM EveryTickCounted == Spec => []NoTickLostAtGate
<1>1. Inv => NoTickLostAtGate
  BY DEF Inv
<1> QED
  BY Invariant, <1>1, PTL

(* A timer that does not repeat pulses once per mode write                 *)
(* (timers_check_for_irq, timers_write_register).                          *)
THEOREM OneShot == Spec => []OneShotFiresOnce
<1>1. Inv => OneShotFiresOnce
  BY DEF Inv
<1> QED
  BY Invariant, <1>1, PTL

-----------------------------------------------------------------------------
(* Numbers.                                                                *)

(* Less than b periods hold less than b ticks of the divider.              *)
LEMMA DivisionBound ==
  ASSUME NEW a \in Nat, NEW m \in Nat \ {0}, NEW b \in Nat, a < b * m
  PROVE  a \div m < b
OBVIOUS

(* A number is its quotient and its remainder.                             *)
LEMMA Division ==
  ASSUME NEW a \in Nat, NEW m \in Nat \ {0}
  PROVE  \E q \in Nat, r \in 0..(m - 1) : a = q * m + r /\ a % m = r
OBVIOUS

(* Whole multiples do not count for a remainder.                           *)
LEMMA Multiple ==
  ASSUME NEW q \in Nat, NEW m \in Nat \ {0}, NEW r \in 0..(m - 1)
  PROVE  (q * m + r) % m = r
OBVIOUS

(* A number below the divisor is its own remainder.                        *)
LEMMA SmallRemainder ==
  ASSUME NEW m \in Nat \ {0}, NEW a \in 0..(m - 1)
  PROVE  a % m = a
OBVIOUS

(* A counter that wraps at each step is where one that wraps at the end    *)
(* is.                                                                     *)
LEMMA NextRemainder ==
  ASSUME NEW a \in Nat, NEW m \in Nat \ {0}
  PROVE  ((a % m) + 1) % m = (a + 1) % m
<1>1. PICK q \in Nat, r \in 0..(m - 1) : a = q * m + r /\ a % m = r
  BY Division
<1>2. CASE r + 1 < m
  <2>1. r + 1 \in 0..(m - 1) /\ a + 1 = q * m + (r + 1)
    BY <1>1, <1>2
  <2>2. (a + 1) % m = r + 1
    BY <2>1, Multiple
  <2>3. (r + 1) % m = r + 1
    BY <2>1, SmallRemainder
  <2> QED
    BY <1>1, <2>2, <2>3
<1>3. CASE ~(r + 1 < m)
  <2>1. r + 1 = m
    BY <1>3
  <2>2. a + 1 = (q + 1) * m + 0 /\ q + 1 \in Nat /\ 0 \in 0..(m - 1)
    BY <1>1, <2>1
  <2>3. (a + 1) % m = 0
    BY <2>2, Multiple
  <2>4. m = 1 * m + 0 /\ 1 \in Nat /\ 0 \in 0..(m - 1)
    OBVIOUS
  <2>5. (r + 1) % m = 0
    BY <2>1, <2>4, Multiple
  <2> QED
    BY <1>1, <2>3, <2>5
<1> QED
  BY <1>2, <1>3

(* At most b periods and a carry hold at most b ticks of the divider.      *)
LEMMA DivisionWithin ==
  ASSUME NEW a \in Nat, NEW m \in Nat \ {0}, NEW b \in Nat, NEW c \in 0..(m - 1), a <= b * m
  PROVE  (a + c) \div m <= b
OBVIOUS

(* What is true of some natural number is true of a first.                 *)
LEMMA LeastNumber ==
  ASSUME NEW T \in SUBSET Nat, T # {}
  PROVE  \E n \in T : \A m \in T : n <= m
<1> DEFINE R == OpToRel(<, Nat)
<1>1. IsWellFoundedOn(R, Nat)
  BY NatLessThanWellFounded
<1>2. R = {ss \in Nat \X Nat : ss[1] < ss[2]}
  BY DEF OpToRel
<1> HIDE DEF R
<1>3. PICK n \in T : \A m \in T : ~(<<m, n>> \in R)
  BY <1>1, WFMin
<1>4. \A m \in T : ~(m < n)
  BY <1>2, <1>3
<1> QED
  BY <1>4

-----------------------------------------------------------------------------
(* Ticks one by one.                                                       *)

(* f is a history of n additions of one tick to t.                         *)
StepsOf(f, t, n) ==
  f = [k \in 0..n |-> IF k = 0 THEN [t EXCEPT !.edges = 0] ELSE AddTicks(f[k - 1], 1)]

(* There is such a history for every n: a shortest one missing would       *)
(* follow from the one before it.                                          *)
LEMMA StepsExist ==
  ASSUME NEW t, NEW n \in Nat
  PROVE  \E f : StepsOf(f, t, n)
<1> DEFINE T == {k \in Nat : ~\E f : StepsOf(f, t, k)}
<1>1. SUFFICES ASSUME T # {} PROVE FALSE
  OBVIOUS
<1>2. PICK k \in T : \A m \in T : k <= m
  <2>1. T \in SUBSET Nat
    OBVIOUS
  <2> QED
    BY <1>1, <2>1, LeastNumber
<1>3. ASSUME k = 0 PROVE FALSE
  <2>1. StepsOf([j \in 0..0 |-> [t EXCEPT !.edges = 0]], t, 0)
    BY DEF StepsOf
  <2> QED
    BY <1>2, <1>3, <2>1
<1>4. ASSUME k # 0 PROVE FALSE
  <2>1. k - 1 \in Nat /\ k \in Nat /\ ~(k <= k - 1)
    BY <1>2, <1>4
  <2>2. k - 1 \notin T
    BY <1>2, <2>1
  <2>3. PICK f : StepsOf(f, t, k - 1)
    BY <2>1, <2>2
  <2> DEFINE g == [j \in 0..k |-> IF j = k THEN AddTicks(f[k - 1], 1) ELSE f[j]]
  <2>4. ASSUME NEW j \in 0..k
        PROVE  g[j] = IF j = 0 THEN [t EXCEPT !.edges = 0] ELSE AddTicks(g[j - 1], 1)
    <3>1. CASE j = k
      <4>1. k - 1 \in 0..k /\ k - 1 # k
        BY <2>1
      <4>2. g[k - 1] = f[k - 1]
        BY <4>1
      <4> QED
        BY <1>4, <3>1, <4>2
    <3>2. CASE j # k
      <4>1. j \in 0..(k - 1)
        BY <2>1, <3>2
      <4>2. f[j] = IF j = 0 THEN [t EXCEPT !.edges = 0] ELSE AddTicks(f[j - 1], 1)
        BY <2>3, <4>1 DEF StepsOf
      <4>3. j # 0 => j - 1 \in 0..k /\ j - 1 # k
        BY <2>1, <4>1
      <4>4. g[j] = f[j] /\ (j # 0 => g[j - 1] = f[j - 1])
        BY <3>2, <4>3
      <4> QED
        BY <4>2, <4>4
    <3> QED
      BY <3>1, <3>2
  <2>5. g = [j \in 0..k |-> g[j]]
    OBVIOUS
  <2> HIDE DEF g
  <2>6. g = [j \in 0..k |-> IF j = 0 THEN [t EXCEPT !.edges = 0] ELSE AddTicks(g[j - 1], 1)]
    BY <2>4, <2>5, Zenon
  <2>7. StepsOf(g, t, k)
    BY <2>6 DEF StepsOf
  <2> QED
    BY <1>2, <2>7
<1> QED
  BY <1>3, <1>4

(* The counter after n single ticks is the last of a row of counters, each *)
(* a tick after the one before it.                                         *)
LEMMA StepwiseIs ==
  ASSUME NEW t, NEW n \in Nat
  PROVE  \E f : /\ Stepwise(t, n) = f[n]
                /\ f[0] = [t EXCEPT !.edges = 0]
                /\ \A k \in 1..n : f[k] = AddTicks(f[k - 1], 1)
<1> DEFINE f == CHOOSE f : StepsOf(f, t, n)
<1>1. StepsOf(f, t, n)
  BY StepsExist
<1>2. Stepwise(t, n) = f[n]
  BY DEF Stepwise, StepsOf
<1> HIDE DEF f
<1>3. f[0] = [t EXCEPT !.edges = 0]
  <2>1. 0 \in 0..n
    OBVIOUS
  <2> QED
    BY <1>1, <2>1 DEF StepsOf
<1>4. ASSUME NEW k \in 1..n PROVE f[k] = AddTicks(f[k - 1], 1)
  <2>1. k \in 0..n /\ k # 0
    OBVIOUS
  <2> QED
    BY <1>1, <2>1 DEF StepsOf
<1> QED
  BY <1>2, <1>3, <1>4

-----------------------------------------------------------------------------
(* An addition in parts: where the counter lands, the flags it raises and  *)
(* whether it makes an interrupt.                                          *)
Passes(t, n) == t.counter + n >= t.target /\ (t.counter < t.target \/ t.target = 0)
Landing(t, n) ==
  IF Passes(t, n) /\ t.mode.reset_at_target /\ t.target > 0
  THEN (t.counter + n) % t.target ELSE t.counter + n
Fires(t, n) == \/ Passes(t, n) /\ t.mode.irq_at_target
               \/ Landing(t, n) >= Overflow /\ t.mode.irq_on_overflow
Put(t, c, r, o) ==
  [t EXCEPT !.counter = c, !.reached_target = r, !.reached_overflow = o]
Moved(t, n) == Put(t, Wrap(Landing(t, n)), t.reached_target \/ Passes(t, n),
                   t.reached_overflow \/ Landing(t, n) >= Overflow)

(* Putting values into a counter.                                          *)
LEMMA PutFacts ==
  ASSUME NEW t \in Counter, NEW c \in 0..(Overflow - 1), NEW r \in BOOLEAN, NEW o \in BOOLEAN
  PROVE  /\ Put(t, c, r, o) \in Counter
         /\ SameControl(t, Put(t, c, r, o))
         /\ Put(t, c, r, o).edges = t.edges
         /\ Put(t, c, r, o).counter = c
         /\ Put(t, c, r, o).reached_target = r
         /\ Put(t, c, r, o).reached_overflow = o
BY DEF Put, Counter, SameControl

(* The last values put are the ones that count.                            *)
LEMMA PutTwice ==
  ASSUME NEW t \in Counter, NEW c, NEW r, NEW o, NEW d, NEW s, NEW p
  PROVE  Put(Put(t, c, r, o), d, s, p) = Put(t, d, s, p)
BY Zenon DEF Put, Counter

(* Putting what is there changes nothing.                                  *)
LEMMA PutSame ==
  ASSUME NEW t \in Counter
  PROVE  Put(t, t.counter, t.reached_target, t.reached_overflow) = t
BY Zenon DEF Put, Counter

(* timers_check_for_irq of an addition is its parts put together.          *)
LEMMA AddIs ==
  ASSUME NEW t \in Counter, NEW n \in Nat
  PROVE  AddTicks(t, n) = IF Fires(t, n) THEN Request(Moved(t, n)) ELSE Moved(t, n)
<1> DEFINE a == [t EXCEPT !.counter = @ + n]
           u == [a EXCEPT !.counter = Wrap(Landing(t, n)),
                          !.reached_target = @ \/ Passes(t, n),
                          !.reached_overflow = @ \/ Landing(t, n) >= Overflow]
<1>1. /\ a.counter = t.counter + n /\ a.target = t.target /\ a.mode = t.mode
      /\ a.reached_target = t.reached_target /\ a.reached_overflow = t.reached_overflow
  BY DEF Counter
<1>2. Hits(a, t.counter) = Passes(t, n)
  BY <1>1 DEF Hits, Passes
<1>3. AddTicks(t, n) = CheckForIrq(a, t.counter)
  BY DEF AddTicks
<1>4. u = Moved(t, n)
  BY <1>1, Zenon DEF Moved, Put, Counter
<1> HIDE DEF a
<1>5. CheckForIrq(a, t.counter) = IF Fires(t, n) THEN Request(u) ELSE u
  BY <1>1, <1>2 DEF CheckForIrq, Landing, Fires
<1> QED
  BY <1>3, <1>4, <1>5

(* A counter that was moved is in its range, its control as it was.        *)
LEMMA MovedFacts ==
  ASSUME NEW t \in Counter, NEW n \in Nat
  PROVE  /\ Landing(t, n) \in Nat /\ Wrap(Landing(t, n)) \in 0..(Overflow - 1)
         /\ Moved(t, n) \in Counter
         /\ SameControl(t, Moved(t, n)) /\ Moved(t, n).edges = t.edges
         /\ Moved(t, n).counter = Wrap(Landing(t, n))
<1>1. t.counter \in Nat /\ t.target \in Nat /\ t.counter + n \in Nat
  BY WidthAssumption DEF Counter
<1>2. Landing(t, n) \in Nat
  BY <1>1, Remainder DEF Landing
<1>3. Wrap(Landing(t, n)) \in 0..(Overflow - 1)
  BY <1>2, WidthAssumption, Remainder DEF Wrap
<1>4. /\ (t.reached_target \/ Passes(t, n)) \in BOOLEAN
      /\ (t.reached_overflow \/ Landing(t, n) >= Overflow) \in BOOLEAN
  OBVIOUS
<1> QED
  BY <1>2, <1>3, <1>4, PutFacts DEF Moved

-----------------------------------------------------------------------------
(* The event and the interrupts.                                           *)

(* n more ticks and timer t has no interrupt to make.                      *)
Quiet(t, n) ==
  n > 0 => /\ t.mode.irq_at_target => n < TicksToTarget(t)
           /\ t.mode.irq_on_overflow => n < Overflow - t.counter

(* A tick of them makes none, and leaves one less.                         *)
LEMMA QuietTick ==
  ASSUME NEW t \in Counter, NEW n \in Nat \ {0}, t.target > 0, Quiet(t, n)
  PROVE  /\ AddTicks(t, 1) \in Counter
         /\ SameControl(t, AddTicks(t, 1))
         /\ AddTicks(t, 1).edges = t.edges
         /\ Quiet(AddTicks(t, 1), n - 1)
<1> DEFINE u == Moved(t, 1)
<1>1. /\ Overflow \in Nat \ {0} /\ t.target \in 1..Overflow
      /\ t.counter \in 0..(Overflow - 1)
  BY WidthAssumption DEF Counter
<1>2. /\ t.mode.irq_at_target => n < TicksToTarget(t)
      /\ t.mode.irq_on_overflow => n < Overflow - t.counter
  BY DEF Quiet
<1>3. t.mode.irq_at_target => ~Passes(t, 1)
  BY <1>1, <1>2 DEF TicksToTarget, Passes
<1>a. t.target % t.target = 0
  BY <1>1
<1>b. Overflow % Overflow = 0
  BY <1>1
<1>4. \/ ~Passes(t, 1) /\ Landing(t, 1) = t.counter + 1
      \/ Passes(t, 1) /\ t.counter + 1 = t.target /\ Landing(t, 1) \in {0, t.target}
  BY <1>1, <1>a DEF Landing, Passes
<1>5. Landing(t, 1) <= t.counter + 1
  BY <1>1, <1>4
<1>6. ~Fires(t, 1)
  <2>1. Landing(t, 1) \in Int
    BY <1>1, <1>4
  <2>2. t.mode.irq_on_overflow => ~(Landing(t, 1) >= Overflow)
    BY <1>1, <1>2, <1>5, <2>1
  <2> QED
    BY <1>3, <2>2 DEF Fires
<1>7. AddTicks(t, 1) = u
  BY <1>6, AddIs
<1>8. /\ u \in Counter /\ SameControl(t, u) /\ u.edges = t.edges
      /\ u.counter = Wrap(Landing(t, 1))
  BY MovedFacts
<1> HIDE DEF u
<1>9. u.counter = IF Landing(t, 1) = Overflow THEN 0 ELSE Landing(t, 1)
  BY <1>1, <1>5, <1>8, <1>b, <1>4 DEF Wrap
<1>10. u.mode = t.mode /\ u.target = t.target
  BY <1>8 DEF SameControl
<1>11. Quiet(u, n - 1)
  <2>1. ASSUME n > 1, t.mode.irq_at_target PROVE n - 1 < TicksToTarget(u)
    <3>1. Landing(t, 1) = t.counter + 1
      BY <1>3, <1>4, <2>1
    <3> QED
      BY <1>1, <1>2, <1>9, <1>10, <2>1, <3>1 DEF TicksToTarget
  <2>2. ASSUME n > 1, t.mode.irq_on_overflow PROVE n - 1 < Overflow - u.counter
    <3>1. u.counter <= t.counter + 1
      BY <1>1, <1>5, <1>9
    <3>2. u.counter \in Int
      BY <1>1, <1>4, <1>9
    <3> QED
      BY <1>1, <1>2, <2>2, <3>1, <3>2
  <2> QED
    BY <1>10, <2>1, <2>2 DEF Quiet
<1> QED
  BY <1>7, <1>8, <1>11

(* Nor do all of them.                                                     *)
LEMMA QuietTicks ==
  ASSUME NEW t \in Counter, NEW n \in Nat, t.target > 0, Quiet(t, n)
  PROVE  Stepwise(t, n).edges = 0
<1>1. PICK f : /\ Stepwise(t, n) = f[n]
               /\ f[0] = [t EXCEPT !.edges = 0]
               /\ \A k \in 1..n : f[k] = AddTicks(f[k - 1], 1)
  BY StepwiseIs
<1> DEFINE Good(k) == /\ f[k] \in Counter /\ f[k].target > 0 /\ f[k].edges = 0
                      /\ Quiet(f[k], n - k)
           T == {k \in 0..n : ~Good(k)}
<1>2. Good(0)
  <2> DEFINE z == [t EXCEPT !.edges = 0]
  <2>1. z \in Counter /\ z.edges = 0 /\ z.mode = t.mode /\ z.target = t.target
        /\ z.counter = t.counter
    BY DEF Counter
  <2> HIDE DEF z
  <2>2. Quiet(z, n)
    BY <2>1 DEF Quiet, TicksToTarget
  <2>3. n - 0 = n
    OBVIOUS
  <2>4. f[0] = z
    BY <1>1 DEF z
  <2> QED
    BY <2>1, <2>2, <2>3, <2>4
<1>3. ASSUME NEW k \in 1..n, Good(k - 1) PROVE Good(k)
  <2>1. n - (k - 1) \in Nat \ {0} /\ (n - (k - 1)) - 1 = n - k
    OBVIOUS
  <2>2. f[k] = AddTicks(f[k - 1], 1)
    BY <1>1
  <2> DEFINE s == f[k - 1]
             m == n - (k - 1)
  <2>3. s \in Counter /\ s.target > 0 /\ s.edges = 0 /\ Quiet(s, m) /\ m \in Nat \ {0}
    BY <1>3, <2>1
  <2>4. /\ AddTicks(s, 1) \in Counter /\ SameControl(s, AddTicks(s, 1))
        /\ AddTicks(s, 1).edges = s.edges /\ Quiet(AddTicks(s, 1), m - 1)
    BY <2>3, QuietTick
  <2>5. m - 1 = n - k
    BY <2>1
  <2> HIDE DEF s, m
  <2>6. f[k] = AddTicks(s, 1)
    BY <2>2 DEF s
  <2> QED
    BY <2>3, <2>4, <2>5, <2>6 DEF SameControl
<1> HIDE DEF Good
<1>4. T = {}
  <2> SUFFICES ASSUME T # {} PROVE FALSE
    OBVIOUS
  <2>1. T \in SUBSET Nat
    OBVIOUS
  <2>2. PICK k \in T : \A j \in T : k <= j
    BY <2>1, LeastNumber
  <2>3. k \in 0..n /\ ~Good(k)
    OBVIOUS
  <2>4. k \in 1..n
    BY <1>2, <2>3
  <2>5. k - 1 \in 0..n /\ ~(k <= k - 1)
    BY <2>4
  <2>6. k - 1 \notin T
    BY <2>2, <2>5
  <2> QED
    BY <1>3, <2>3, <2>4, <2>5, <2>6
<1>5. n \in 0..n
  OBVIOUS
<1>6. Good(n)
  BY <1>4, <1>5
<1> QED
  BY <1>1, <1>6 DEF Good

(* System ticks for a tick of timer t.                                     *)
Per(t) == IF t.external THEN Div ELSE 1

AtLeastOne(n) == IF n < 1 THEN 1 ELSE n

(* An event k ticks away is not after the next interrupt of timer t.  One  *)
(* that is due at once waits a tick.                                       *)
Timely(t, k) ==
  /\ t.mode.irq_at_target => k <= AtLeastOne(TicksToTarget(t) * Per(t))
  /\ t.mode.irq_on_overflow => k <= (Overflow - t.counter) * Per(t)

(* A mode in which the gate of timer i moves the event only from counters  *)
(* that are up to date (timers_set_gate).                                  *)
PromptMode(i, m) == i # 2 /\ m.sync => ~m.ext /\ m.sync_mode # ResetOnGateEnd

Due == /\ \A i \in Timer : PromptMode(i, tm[i].mode)
       /\ \A i \in Timer : OnSysclk(i, tm[i]) => Timely(tm[i], since + left)

(* What is timely depends on the counter and on its control.               *)
LEMMA TimelySame ==
  ASSUME NEW t, NEW u, NEW k, Timely(t, k), SameControl(t, u), u.counter = t.counter
  PROVE  Timely(u, k)
BY DEF Timely, SameControl, TicksToTarget, Per

(* The event is put no later than the next interrupt of any timer.         *)
LEMMA TicksTimely ==
  ASSUME NEW cs \in [Timer -> Counter], NEW i \in Timer, OnSysclk(i, cs[i])
  PROVE  Timely(cs[i], TicksUntilNextInterrupt(cs))
<1> DEFINE t == cs[i]
           x == TicksToTarget(t) * Per(t)
           y == (Overflow - t.counter) * Per(t)
           target == IF t.mode.irq_at_target THEN x ELSE MaxSlice
           overflow == IF t.mode.irq_on_overflow THEN y ELSE MaxSlice
<1>1. /\ i \in 0..2 /\ t.counter \in 0..(Overflow - 1) /\ t.target \in 0..Overflow
      /\ Overflow \in Nat \ {0} /\ MaxSlice \in Nat \ {0} /\ Per(t) \in Nat \ {0}
  BY TimerAssumption, WidthAssumption DEF Counter, Per
<1>2. x \in Int
  <2>1. TicksToTarget(t) \in Int
    BY <1>1 DEF TicksToTarget
  <2> QED
    BY <1>1, <2>1
<1>3. y \in Int /\ y >= 1
  <2>1. \A a \in Nat \ {0}, b \in Nat \ {0} : a * b \in Int /\ a * b >= 1
    OBVIOUS
  <2>2. Overflow - t.counter \in Nat \ {0}
    BY <1>1
  <2> QED
    BY <1>1, <2>1, <2>2
<1>4. DueIn(i, cs) = Least(target, overflow)
  BY DEF DueIn, Per
<1>5. \A j \in 0..2 : DueIn(j, cs) \in Int
  BY DueInIsInt
<1> DEFINE k == TicksUntilNextInterrupt(cs)
<1>6. k \in Int /\ k <= AtLeastOne(DueIn(i, cs))
  <2>1. DueIn(0, cs) \in Int /\ DueIn(1, cs) \in Int /\ DueIn(2, cs) \in Int
    BY <1>5
  <2>2. i = 0 \/ i = 1 \/ i = 2
    BY <1>1
  <2> QED
    BY <1>1, <2>1, <2>2 DEF TicksUntilNextInterrupt, Least, AtLeastOne
<1> HIDE DEF x, y, t, k
<1>7. t.mode.irq_at_target => k <= AtLeastOne(x)
  BY <1>1, <1>2, <1>3, <1>4, <1>6 DEF Least, AtLeastOne
<1>8. t.mode.irq_on_overflow => k <= y
  BY <1>1, <1>2, <1>3, <1>4, <1>6 DEF Least, AtLeastOne
<1>9. Timely(t, k)
  BY <1>7, <1>8 DEF Timely, x, y
<1> QED
  BY <1>9 DEF t, k

(* The event right after the last run.                                     *)
LEMMA ZeroPlus ==
  ASSUME NEW x, NEW y, x = 0, y \in Int
  PROVE  x + y = y
OBVIOUS

(* The counters and the event after bringing the timers up to date.        *)
LEMMA SyncedDue ==
  ASSUME Inv, Due, InvokeEarly
  PROVE  /\ \A i \in Timer : PromptMode(i, Synced[i].mode)
         /\ \A i \in Timer : OnSysclk(i, Synced[i]) => Timely(Synced[i], SyncedLeft)
<1>1. /\ Synced \in [Timer -> Counter]
      /\ \A i \in Timer : SameControl(tm[i], Synced[i])
  BY SyncedKeeps DEF InOrder
<1>2. \A i \in Timer : PromptMode(i, Synced[i].mode)
  BY <1>1 DEF Due, SameControl
<1>3. since \in Nat /\ left \in Int
  BY DEF Inv, TypeOK
<1>4. CASE since > 0
  <2>1. SyncedLeft = TicksUntilNextInterrupt(Synced)
    BY <1>4 DEF SyncedLeft
  <2> QED
    BY <1>1, <1>2, <2>1, TicksTimely
<1>5. CASE ~(since > 0)
  <2>1. Synced = tm /\ SyncedLeft = left
    BY <1>5 DEF Synced, SyncedLeft
  <2>2. since + left = left
    BY <1>3, <1>5
  <2> QED
    BY <1>2, <2>1, <2>2 DEF Due
<1> QED
  BY <1>2, <1>4, <1>5

(* The timers start with no interrupt to make.                             *)
LEMMA InitDue == Init => Due
<1> SUFFICES ASSUME Init PROVE Due
  OBVIOUS
<1>1. \A i \in Timer : tm[i] = Cleared(FALSE)
  BY DEF Init
<1>2. ~Cleared(FALSE).mode.sync /\ ~Cleared(FALSE).mode.irq_at_target
      /\ ~Cleared(FALSE).mode.irq_on_overflow
  BY DEF Cleared
<1> QED
  BY <1>1, <1>2 DEF Due, PromptMode, Timely

(* The register takes the mode that is written.                            *)
LEMMA ModeIsWritten ==
  ASSUME NEW t \in Counter, NEW m \in Mode
  PROVE  ModeWritten(t, m).mode = m
<1> DEFINE b == [t EXCEPT !.mode = m, !.use_external = m.ext, !.counter = 0]
           z == [t EXCEPT !.mode = m, !.use_external = m.ext, !.counter = 0,
                          !.irq_done = FALSE, !.line = FALSE, !.edges = 0]
           c == CountingEnabled(z.mode, z.gate)
           u == [z EXCEPT !.counting = c, !.external = z.use_external /\ c]
<1>1. m.ext \in BOOLEAN /\ m.sync \in BOOLEAN /\ m.sync_mode \in 0..3
  BY DEF Mode
<1>2. b \in Unwrapped /\ b.mode = m
  BY <1>1 DEF Counter, Unwrapped
<1> PICK e \in 0..2 : e = 0
  OBVIOUS
<1>3. z = [b EXCEPT !.irq_done = FALSE, !.line = FALSE, !.edges = e]
  OBVIOUS
<1> HIDE DEF b, z
<1>4. z \in Unwrapped /\ z.mode = m
  BY <1>2, <1>3 DEF Unwrapped
<1>5. c \in BOOLEAN /\ z.use_external \in BOOLEAN
  BY <1>1, <1>4 DEF CountingEnabled, Unwrapped
<1> HIDE DEF c
<1>6. u \in Unwrapped /\ u.mode = m
  BY <1>4, <1>5 DEF Unwrapped
<1>7. ModeWritten(t, m) = CheckForIrq(u, 0)
  BY DEF ModeWritten, UpdateCountingEnabled, z, u, c
<1> HIDE DEF u
<1> QED
  BY <1>6, <1>7, CheckKeeps DEF SameControl

(* A gate may set its timer free and changes nothing else of the mode.     *)
LEMMA GateMode ==
  ASSUME NEW t \in Counter, NEW state \in BOOLEAN
  PROVE  LET m == Gated(t, state).mode
         IN  /\ m.sync => t.mode.sync
             /\ m.ext = t.mode.ext /\ m.sync_mode = t.mode.sync_mode
<1> DEFINE stay == t.mode.sync /\ ~(t.mode.sync_mode = FreeRunOnGateEnd /\ ~state)
           mode == [t.mode EXCEPT !.sync = stay]
<1>1. mode.sync = stay /\ mode.ext = t.mode.ext /\ mode.sync_mode = t.mode.sync_mode
  BY DEF Counter, Mode
<1>2. Gated(t, state).mode = mode
  BY DEF Gated, UpdateCountingEnabled, Counter, Mode
<1> HIDE DEF mode
<1> QED
  BY <1>1, <1>2

(* With modes that let the gate find the counters up to date, every step   *)
(* puts the event in time.                                                 *)
LEMMA NextDue ==
  ASSUME \A i \in Timer : \A m \in Modes[i] : PromptMode(i, m),
         Inv, Due, [Next]_vars, Inv'
  PROVE  Due'
<1>a. /\ tm \in [Timer -> Counter] /\ since \in Nat /\ left \in Int
      /\ tm' \in [Timer -> Counter] /\ since' \in Nat /\ left' \in Int
  BY DEF Inv, TypeOK
<1>b. /\ \A i \in Timer : PromptMode(i, tm[i].mode)
      /\ \A i \in Timer : OnSysclk(i, tm[i]) => Timely(tm[i], since + left)
  BY DEF Due
(* Scheduling for the counters as they are restores the invariant.         *)
<1>c. ASSUME since' + left' = TicksUntilNextInterrupt(tm'),
             \A i \in Timer : PromptMode(i, tm'[i].mode)
      PROVE  Due'
  <2> PICK cs : cs = tm'
    OBVIOUS
  <2> PICK s : s = since'
    OBVIOUS
  <2> PICK l : l = left'
    OBVIOUS
  <2>1. TicksUntilNextInterrupt(tm') = TicksUntilNextInterrupt(cs)
    OBVIOUS
  <2>2. \A i \in Timer : OnSysclk(i, cs[i]) => Timely(cs[i], s + l)
    BY <1>a, <1>c, TicksTimely
  <2> QED
    BY <1>c, <2>2 DEF Due
(* An access to timer i that changes nothing the event depends on, or      *)
(* moves the event.                                                        *)
<1>d. ASSUME InvokeEarly, NEW i \in Timer, NEW u, tm' = [Synced EXCEPT ![i] = u],
             PromptMode(i, u.mode),
             \/ UpdateSysclkEvent
             \/ left' = SyncedLeft /\ (OnSysclk(i, u) =>
                  OnSysclk(i, Synced[i]) /\ (Timely(Synced[i], SyncedLeft) => Timely(u, SyncedLeft)))
      PROVE  Due'
  <2>1. /\ \A j \in Timer : PromptMode(j, Synced[j].mode)
        /\ \A j \in Timer : OnSysclk(j, Synced[j]) => Timely(Synced[j], SyncedLeft)
    BY <1>d, SyncedDue
  <2>2. Synced \in [Timer -> Counter] /\ since' = 0
    BY <1>d, SyncedKeeps DEF InOrder
  <2>3. \A j \in Timer : tm'[j] = IF j = i THEN u ELSE Synced[j]
    BY <1>d, <2>2
  <2>4. \A j \in Timer : PromptMode(j, tm'[j].mode)
    BY <1>d, <2>1, <2>3
  <2>5. since' + left' = left'
    <3>1. since' = 0 /\ left' \in Int
      BY <1>a, <2>2
    <3> QED
      BY <3>1, ZeroPlus
  <2>6. CASE UpdateSysclkEvent
    BY <1>c, <2>4, <2>5, <2>6 DEF UpdateSysclkEvent
  <2>7. CASE left' = SyncedLeft /\ (OnSysclk(i, u) =>
               OnSysclk(i, Synced[i]) /\ (Timely(Synced[i], SyncedLeft) => Timely(u, SyncedLeft)))
    <3>1. \A j \in Timer : OnSysclk(j, tm'[j]) => Timely(tm'[j], since' + left')
      BY <2>1, <2>3, <2>5, <2>7
    <3> QED
      BY <2>4, <3>1 DEF Due
  <2> QED
    BY <1>d, <2>6, <2>7
<1>1. CASE Elapse
  <2>1. tm' = tm /\ since' = since + 1 /\ left' = left - 1
    BY <1>1 DEF Elapse
  <2>2. since' + left' = since + left
    BY <1>a, <2>1
  <2> QED
    BY <1>b, <2>1, <2>2 DEF Due
<1>2. CASE SysclkEvent
  <2>1. /\ tm' = Ticked(since + left) /\ since' = -left /\ left <= 0
        /\ left' = left + TicksUntilNextInterrupt(tm')
    BY <1>2 DEF SysclkEvent
  <2>2. since + left \in Nat
    BY <1>a DEF Inv
  <2>3. \A i \in Timer : SameControl(tm[i], tm'[i])
    BY <2>1, <2>2, TickedKeeps
  <2>4. \A i \in Timer : PromptMode(i, tm'[i].mode)
    BY <1>b, <2>3 DEF SameControl
  <2> DEFINE x == TicksUntilNextInterrupt(tm')
  <2>5. x \in Int
    BY <1>a, TicksPositive
  <2> HIDE DEF x
  <2>6. since' + left' = x
    BY <1>a, <2>1, <2>5 DEF x
  <2> QED
    BY <1>c, <2>4, <2>6 DEF x
<1>3. CASE Reset
  <2>1. /\ tm' = [i \in Timer |-> Cleared(tm[i].use_external)]
        /\ since' = 0 /\ left' = TicksUntilNextInterrupt(tm')
    BY <1>3 DEF Reset, UpdateSysclkEvent
  <2>2. \A i \in Timer : ~tm'[i].mode.sync
    BY <2>1 DEF Cleared
  <2>3. \A i \in Timer : PromptMode(i, tm'[i].mode)
    BY <2>2 DEF PromptMode
  <2>4. since' + left' = left'
    BY <1>a, <2>1
  <2> QED
    BY <1>c, <2>1, <2>3, <2>4
<1>4. ASSUME NEW i \in Timer, ReadCounter(i) PROVE Due'
  <2>1. tm' = Synced /\ left' = SyncedLeft /\ InvokeEarly
    BY <1>4 DEF ReadCounter
  <2>2. Synced \in [Timer -> Counter]
    BY <2>1, SyncedKeeps DEF InOrder
  <2>3. tm' = [Synced EXCEPT ![i] = Synced[i]]
    BY <2>1, <2>2
  <2>4. PromptMode(i, Synced[i].mode)
    BY <2>1, SyncedDue
  <2> QED
    BY <1>d, <2>1, <2>3, <2>4
<1>5. ASSUME NEW i \in Timer, ReadMode(i) PROVE Due'
  <2> DEFINE t == Synced[i]
             u == [t EXCEPT !.reached_target = FALSE, !.reached_overflow = FALSE]
  <2>1. /\ tm' = [Synced EXCEPT ![i].reached_target = FALSE, ![i].reached_overflow = FALSE]
        /\ left' = SyncedLeft /\ InvokeEarly
    BY <1>5 DEF ReadMode
  <2>2. Synced \in [Timer -> Counter] /\ PromptMode(i, t.mode)
    BY <2>1, SyncedKeeps, SyncedDue DEF InOrder
  <2>3. tm' = [Synced EXCEPT ![i] = u]
    BY <2>1, <2>2
  <2>4. t \in Counter
    BY <2>2
  <2> HIDE DEF t
  <2>5. SameControl(t, u) /\ u.counter = t.counter
    BY <2>4 DEF Counter, SameControl
  <2> HIDE DEF u
  <2>6. OnSysclk(i, u) => OnSysclk(i, t)
    BY <2>5 DEF SameControl, OnSysclk
  <2>7. Timely(t, SyncedLeft) => Timely(u, SyncedLeft)
    BY <2>5, TimelySame
  <2>8. PromptMode(i, u.mode)
    BY <2>2, <2>5 DEF SameControl
  <2> QED
    BY <1>d, <2>1, <2>3, <2>6, <2>7, <2>8 DEF t
<1>6. ASSUME NEW i \in Timer, NEW a \in Unwrapped,
             a.mode = Synced[i].mode, a.external = Synced[i].external,
             tm' = [Synced EXCEPT ![i] = CheckForIrq(a, Synced[i].counter)],
             InvokeEarly, Reschedule(i)
      PROVE  Due'
  <2> DEFINE t == Synced[i]
             u == CheckForIrq(a, t.counter)
  <2>1. SameControl(a, u)
    BY <1>6, CheckKeeps
  <2> HIDE DEF u
  <2>2. PromptMode(i, t.mode)
    BY <1>6, SyncedDue
  <2>3. PromptMode(i, u.mode)
    BY <1>6, <2>1, <2>2 DEF SameControl
  <2>4. CASE UpdateSysclkEvent
    BY <1>6, <1>d, <2>3, <2>4 DEF u
  <2>5. CASE left' = SyncedLeft /\ i # 2 /\ t.external
    <3>1. ~OnSysclk(i, u)
      BY <1>6, <2>1, <2>5 DEF SameControl, OnSysclk
    <3> QED
      BY <1>6, <1>d, <2>3, <2>5, <3>1 DEF u
  <2> QED
    BY <1>6, <2>4, <2>5 DEF Reschedule
<1>7. ASSUME NEW i \in Timer, NEW v \in Values, WriteCounter(i, v) PROVE Due'
  <2> DEFINE t == Synced[i]
             a == [t EXCEPT !.counter = v]
  <2>1. InvokeEarly /\ Reschedule(i) /\ tm' = [Synced EXCEPT ![i] = CheckForIrq(a, t.counter)]
    BY <1>7 DEF WriteCounter
  <2>2. t \in Counter
    BY <2>1, SyncedKeeps DEF InOrder
  <2>3. v \in Nat
    BY InputAssumption, WidthAssumption
  <2> HIDE DEF t
  <2>4. a \in Unwrapped /\ a.mode = t.mode /\ a.external = t.external
    BY <2>2, <2>3 DEF Counter, Unwrapped
  <2> QED
    BY <1>6, <2>1, <2>4 DEF t
<1>8. ASSUME NEW i \in Timer, NEW v \in Values, WriteTarget(i, v) PROVE Due'
  <2> DEFINE t == Synced[i]
             a == [t EXCEPT !.target = v]
  <2>1. InvokeEarly /\ Reschedule(i) /\ tm' = [Synced EXCEPT ![i] = CheckForIrq(a, t.counter)]
    BY <1>8 DEF WriteTarget
  <2>2. t \in Counter
    BY <2>1, SyncedKeeps DEF InOrder
  <2>3. v \in 0..Overflow /\ t.counter \in Nat
    BY <2>2, InputAssumption, WidthAssumption DEF Counter
  <2> HIDE DEF t
  <2>4. a \in Unwrapped /\ a.mode = t.mode /\ a.external = t.external
    BY <2>2, <2>3 DEF Counter, Unwrapped
  <2> QED
    BY <1>6, <2>1, <2>4 DEF t
<1>9. ASSUME NEW i \in Timer, NEW m \in Modes[i], WriteMode(i, m) PROVE Due'
  <2> DEFINE u == ModeWritten(Synced[i], m)
  <2>1. InvokeEarly /\ UpdateSysclkEvent /\ tm' = [Synced EXCEPT ![i] = u]
    BY <1>9 DEF WriteMode
  <2>2. Synced[i] \in Counter /\ m \in Mode
    BY <2>1, SyncedKeeps, InputAssumption DEF InOrder
  <2>3. u.mode = m
    BY <2>2, ModeIsWritten
  <2>4. PromptMode(i, u.mode)
    BY <2>3
  <2> HIDE DEF u
  <2> QED
    BY <1>d, <2>1, <2>4
<1>10. ASSUME NEW i \in Timer, NEW n \in 1..MaxGpuTicks, GpuTicks(i, n) PROVE Due'
  <2> DEFINE u == AddTicks(tm[i], n)
  <2>1. i # 2 /\ tm[i].external /\ tm' = [tm EXCEPT ![i] = u] /\ since' = since /\ left' = left
    BY <1>10 DEF GpuTicks
  <2>2. SameControl(tm[i], u)
    BY <1>a, AddKeeps
  <2> HIDE DEF u
  <2>3. ~OnSysclk(i, u) /\ u.mode = tm[i].mode
    BY <2>1, <2>2 DEF SameControl, OnSysclk
  <2> QED
    BY <1>a, <1>b, <2>1, <2>3 DEF Due
<1>11. ASSUME NEW i \in Timer, i # 2, NEW state \in BOOLEAN, SetGate(i, state) PROVE Due'
  <2> DEFINE g == [tm[i] EXCEPT !.gate = state]
  <2>1. tm[i] \in Counter /\ FollowsMode(tm[i]) /\ PromptMode(i, tm[i].mode)
    BY <1>a, <1>b DEF Inv, FlagsFollowMode
  <2>2. CASE ~tm[i].mode.sync
    <3>1. tm' = [tm EXCEPT ![i] = g] /\ since' = since /\ left' = left
      BY <1>11, <2>2 DEF SetGate
    <3>2. /\ g.mode = tm[i].mode /\ g.external = tm[i].external /\ g.counting = tm[i].counting
          /\ g.counter = tm[i].counter /\ g.target = tm[i].target
      BY <2>1 DEF Counter
    <3> HIDE DEF g
    <3>3. OnSysclk(i, g) = OnSysclk(i, tm[i])
      BY <3>2 DEF OnSysclk
    <3>4. Timely(tm[i], since + left) => Timely(g, since + left)
      BY <3>2 DEF Timely, TicksToTarget, Per
    <3> QED
      BY <1>a, <1>b, <3>1, <3>2, <3>3, <3>4 DEF Due
  <2>3. CASE tm[i].mode.sync
    <3> DEFINE t == Synced[i]
               w == Gated(t, state)
    <3>1. CountsBeforeGate(tm[i], state)
      BY <1>11, <2>1, <2>3 DEF FollowsMode, PromptMode, CountsBeforeGate
    <3>2. InvokeEarly /\ UpdateSysclkEvent /\ tm' = [Synced EXCEPT ![i] = w]
      BY <1>11, <2>3, <3>1 DEF SetGate
    <3>3. t \in Counter /\ PromptMode(i, t.mode)
      BY <3>2, SyncedKeeps, SyncedDue DEF InOrder
    <3> HIDE DEF t
    <3>4. PromptMode(i, w.mode)
      BY <3>3, GateMode DEF PromptMode
    <3> HIDE DEF w
    <3> QED
      BY <1>d, <3>2, <3>4
  <2> QED
    BY <2>2, <2>3
<1>12. CASE UNCHANGED vars
  BY <1>12 DEF vars, Due
<1> QED
  BY <1>1, <1>2, <1>3, <1>4, <1>5, <1>7, <1>8, <1>9, <1>10, <1>11, <1>12 DEF Next

(* Until the event is due, its timers are quiet.                           *)
LEMMA DueQuiet ==
  ASSUME NEW t \in Counter, NEW s \in Nat, NEW l \in Nat \ {0}, Timely(t, s + l)
  PROVE  Quiet(t, IF t.external THEN s \div Div ELSE s)
<1> DEFINE n == IF t.external THEN s \div Div ELSE s
<1>1. /\ t.counter \in 0..(Overflow - 1) /\ t.target \in 0..Overflow
      /\ Overflow \in Nat \ {0} /\ Div \in Nat \ {0} /\ Per(t) \in Nat \ {0}
  BY WidthAssumption DEF Counter, Per
<1>2. n \in Nat /\ (s = 0 => n = 0)
  BY <1>1 DEF n
<1>3. \A b \in Nat : s < b * Per(t) => n < b
  <2>1. CASE t.external
    BY <1>1, <2>1, DivisionBound DEF Per
  <2>2. CASE ~t.external
    <3>1. \A b \in Nat : b * 1 = b
      OBVIOUS
    <3> QED
      BY <2>2, <3>1 DEF Per
  <2> QED
    BY <2>1, <2>2
<1>4. TicksToTarget(t) \in Nat /\ Overflow - t.counter \in Nat
  BY <1>1 DEF TicksToTarget
<1>5. ASSUME n > 0, t.mode.irq_at_target PROVE n < TicksToTarget(t)
  <2> DEFINE x == TicksToTarget(t) * Per(t)
  <2>1. s + l <= AtLeastOne(x) /\ s > 0
    BY <1>2, <1>5 DEF Timely
  <2>2. x \in Nat
    BY <1>1, <1>4
  <2> HIDE DEF x
  <2>3. s < x
    BY <2>1, <2>2 DEF AtLeastOne
  <2> QED
    BY <1>3, <1>4, <2>3 DEF x
<1>6. ASSUME n > 0, t.mode.irq_on_overflow PROVE n < Overflow - t.counter
  <2> DEFINE y == (Overflow - t.counter) * Per(t)
  <2>1. s + l <= y /\ y \in Nat
    BY <1>1, <1>4, <1>6 DEF Timely
  <2> HIDE DEF y
  <2>2. s < y
    BY <2>1
  <2> QED
    BY <1>3, <1>4, <2>2 DEF y
<1> HIDE DEF n
<1>7. Quiet(t, n)
  BY <1>5, <1>6 DEF Quiet
<1> QED
  BY <1>7 DEF n

(* Events in time miss no interrupt.                                       *)
LEMMA DueMeans == Inv /\ Due => InterruptsAreDue
<1> SUFFICES ASSUME Inv, Due, left > 0, NEW i \in Timer,
                    OnSysclk(i, [tm[i] EXCEPT !.irq_done = FALSE, !.mode.toggle = FALSE]),
                    [tm[i] EXCEPT !.irq_done = FALSE, !.mode.toggle = FALSE].target > 0
             PROVE  LET t == [tm[i] EXCEPT !.irq_done = FALSE, !.mode.toggle = FALSE]
                        n == IF t.external THEN since \div Div ELSE since
                    IN Stepwise(t, n).edges = 0
  BY DEF InterruptsAreDue
<1> DEFINE t == [tm[i] EXCEPT !.irq_done = FALSE, !.mode.toggle = FALSE]
           n == IF t.external THEN since \div Div ELSE since
<1>1. tm[i] \in Counter /\ since \in Nat /\ left \in Int /\ Div \in Nat \ {0}
  BY WidthAssumption DEF Inv, TypeOK
<1>2. /\ t \in Counter /\ t.counter = tm[i].counter /\ t.target = tm[i].target
      /\ t.external = tm[i].external /\ t.counting = tm[i].counting
      /\ t.mode.irq_at_target = tm[i].mode.irq_at_target
      /\ t.mode.irq_on_overflow = tm[i].mode.irq_on_overflow
  <2> DEFINE m == [tm[i].mode EXCEPT !.toggle = FALSE]
  <2>1. /\ m \in Mode /\ m.irq_at_target = tm[i].mode.irq_at_target
        /\ m.irq_on_overflow = tm[i].mode.irq_on_overflow
    BY <1>1 DEF Counter, Mode
  <2>2. t = [tm[i] EXCEPT !.irq_done = FALSE, !.mode = m]
    BY <1>1 DEF Counter
  <2> HIDE DEF m, t
  <2>3. /\ t \in Counter /\ t.mode = m /\ t.counter = tm[i].counter /\ t.target = tm[i].target
        /\ t.external = tm[i].external /\ t.counting = tm[i].counting
    BY <1>1, <2>1, <2>2 DEF Counter
  <2> QED
    BY <2>1, <2>3
<1>3. OnSysclk(i, t) /\ t.target > 0
  OBVIOUS
<1> HIDE DEF t
<1>4. OnSysclk(i, tm[i])
  BY <1>2, <1>3 DEF OnSysclk
<1>5. Timely(t, since + left)
  <2>1. Timely(tm[i], since + left)
    BY <1>4 DEF Due
  <2> QED
    BY <1>2, <2>1 DEF Timely, TicksToTarget, Per
<1>6. left \in Nat \ {0}
  BY <1>1
<1>7. Quiet(t, n)
  BY <1>1, <1>2, <1>5, <1>6, DueQuiet
<1>8. n \in Nat
  BY <1>1
<1> HIDE DEF n
<1>9. Stepwise(t, n).edges = 0
  BY <1>2, <1>3, <1>7, <1>8, QuietTicks
<1> QED
  BY <1>9 DEF t, n

(* While every mode written lets the gate find the counters up to date, no *)
(* timer makes an interrupt before the event is due                        *)
(* (timers_get_ticks_until_next_interrupt, timers_set_gate).               *)
THEOREM NothingMissed ==
  ASSUME \A i \in Timer : \A m \in Modes[i] : PromptMode(i, m)
  PROVE  Spec => []InterruptsAreDue
<1>1. Init => Inv /\ Due
  BY InitInv, InitDue
<1>2. (Inv /\ Due) /\ [Next]_vars => (Inv /\ Due)'
  BY NextInv, NextDue
<1>3. Inv /\ Due => InterruptsAreDue
  BY DueMeans
<1> QED
  BY <1>1, <1>2, <1>3, PTL DEF Spec

-----------------------------------------------------------------------------
(* One addition and many.                                                  *)

(* n ticks do not pass the next interrupt of t.                            *)
Within(t, n) ==
  /\ t.mode.irq_at_target => n <= AtLeastOne(TicksToTarget(t))
  /\ t.mode.irq_on_overflow => n <= Overflow - t.counter

(* The counter is not carried over 0 to its target.                        *)
Direct(t, n) == t.counter < t.target \/ t.mode.irq_on_overflow \/ t.counter + n < Overflow

(* What a tick after k ticks does is what the last of k + 1 ticks does.    *)
LastTick(t, k, s) ==
  /\ ~Fires(t, k)
  /\ Wrap(Landing(s, 1)) = Wrap(Landing(t, k + 1))
  /\ Passes(t, k) \/ Passes(s, 1) <=> Passes(t, k + 1)
  /\ Landing(t, k) >= Overflow \/ Landing(s, 1) >= Overflow <=> Landing(t, k + 1) >= Overflow
  /\ Fires(s, 1) <=> Fires(t, k + 1)

(* This is so while no interrupt is passed and the counter is not carried  *)
(* over 0 to its target: at or past the target, before it with and without *)
(* the reset at it.                                                        *)
LEMMA LastTickHolds ==
  ASSUME NEW t \in Counter, NEW k \in Nat, NEW s, t.target > 0,
         Within(t, k + 1), Direct(t, k + 1),
         s.counter = Wrap(Landing(t, k)), s.target = t.target, s.mode = t.mode
  PROVE  LastTick(t, k, s)
<1> DEFINE c == t.counter
           m == t.target
<1>1. /\ Overflow \in Nat \ {0} /\ m \in 1..Overflow /\ c \in 0..(Overflow - 1)
      /\ m \in Nat \ {0} /\ c + k \in Nat /\ c + (k + 1) = (c + k) + 1
  BY WidthAssumption DEF Counter
<1>2. /\ t.mode.irq_at_target /\ c < m => c + k < m
      /\ t.mode.irq_on_overflow => c + k < Overflow
  BY <1>1 DEF Within, TicksToTarget, AtLeastOne
<1>3. CASE c >= m
  <2>1. ~Passes(t, k) /\ ~Passes(t, k + 1)
    BY <1>1, <1>3 DEF Passes
  <2>2. Landing(t, k) = c + k /\ Landing(t, k + 1) = (c + k) + 1
    BY <1>1, <2>1 DEF Landing
  <2>3. c + k < Overflow
    BY <1>1, <1>2, <1>3 DEF Direct
  <2>4. s.counter = c + k
    BY <1>1, <2>2, <2>3 DEF Wrap
  <2>5. ~Passes(s, 1)
    BY <1>1, <1>3, <2>4 DEF Passes
  <2>6. Landing(s, 1) = (c + k) + 1
    BY <2>4, <2>5 DEF Landing
  <2>7. ~(Landing(t, k) >= Overflow)
    BY <1>1, <2>2, <2>3
  <2> QED
    BY <2>1, <2>2, <2>5, <2>6, <2>7 DEF LastTick, Fires
<1>4. CASE c < m /\ ~t.mode.reset_at_target
  <2>1. Landing(t, k) = c + k /\ Landing(t, k + 1) = (c + k) + 1
    BY <1>1, <1>4 DEF Landing
  <2>2. Landing(s, 1) = s.counter + 1
    BY <1>4 DEF Landing
  <2>3. CASE c + k < Overflow
    <3>1. s.counter = c + k /\ ~(Landing(t, k) >= Overflow)
      BY <1>1, <2>1, <2>3 DEF Wrap
    <3>2. /\ Passes(s, 1) <=> (c + k) + 1 >= m /\ c + k < m
          /\ Passes(t, k) <=> c + k >= m
          /\ Passes(t, k + 1) <=> (c + k) + 1 >= m
      BY <1>1, <1>4, <3>1 DEF Passes
    <3>3. Passes(t, k) \/ Passes(s, 1) <=> Passes(t, k + 1)
      BY <1>1, <3>2
    <3>4. t.mode.irq_at_target => ~Passes(t, k)
      BY <1>1, <1>2, <1>4, <3>2
    <3>5. Landing(s, 1) = Landing(t, k + 1)
      BY <2>1, <2>2, <3>1
    <3> QED
      BY <3>1, <3>3, <3>4, <3>5 DEF LastTick, Fires
  <2>4. CASE ~(c + k < Overflow)
    <3>1. ~t.mode.irq_on_overflow /\ ~t.mode.irq_at_target
      BY <1>1, <1>2, <1>4, <2>4
    <3>2. Passes(t, k) /\ Passes(t, k + 1)
      BY <1>1, <1>4, <2>4 DEF Passes
    <3>3. Landing(t, k) >= Overflow /\ Landing(t, k + 1) >= Overflow
      BY <1>1, <2>1, <2>4
    <3>4. s.counter = (c + k) % Overflow /\ Wrap(Landing(t, k + 1)) = ((c + k) + 1) % Overflow
      BY <2>1, <3>3 DEF Wrap
    <3>5. s.counter \in 0..(Overflow - 1)
      BY <1>1, <3>4, Remainder
    <3>6. Wrap(s.counter + 1) = (s.counter + 1) % Overflow
      BY <1>1, <3>5, SmallRemainder DEF Wrap
    <3>7. (s.counter + 1) % Overflow = ((c + k) + 1) % Overflow
      BY <1>1, <3>4, NextRemainder
    <3> QED
      BY <2>2, <3>1, <3>2, <3>3, <3>4, <3>6, <3>7 DEF LastTick, Fires
  <2> QED
    BY <2>3, <2>4
<1>5. CASE c < m /\ t.mode.reset_at_target
  <2>1. ASSUME NEW x \in Nat, ~(x >= m) PROVE x = x % m
    <3>1. x \in 0..(m - 1)
      BY <1>1, <2>1
    <3> QED
      BY <1>1, <3>1, SmallRemainder
  <2>2. /\ Passes(t, k) <=> c + k >= m
        /\ Passes(t, k + 1) <=> (c + k) + 1 >= m
    BY <1>1, <1>5 DEF Passes
  <2>3. Landing(t, k) = (c + k) % m /\ Landing(t, k + 1) = ((c + k) + 1) % m
    <3>1. (c + k) + 1 \in Nat
      BY <1>1
    <3>2. Landing(t, k) = IF c + k >= m THEN (c + k) % m ELSE c + k
      BY <1>5, <2>2 DEF Landing
    <3>3. Landing(t, k + 1) = IF (c + k) + 1 >= m THEN ((c + k) + 1) % m ELSE (c + k) + 1
      BY <1>1, <1>5, <2>2 DEF Landing
    <3> QED
      BY <1>1, <2>1, <3>1, <3>2, <3>3
  <2>4. (c + k) % m \in 0..(m - 1) /\ ((c + k) + 1) % m \in 0..(m - 1)
    <3>1. (c + k) + 1 \in Nat
      BY <1>1
    <3>2. \A x \in Nat : x % m \in 0..(m - 1)
      BY <1>1, Remainder
    <3> QED
      BY <1>1, <3>1, <3>2
  <2>5. s.counter = (c + k) % m
    BY <1>1, <2>3, <2>4 DEF Wrap
  <2>6. s.counter \in 0..(m - 1)
    BY <2>4, <2>5
  <2>7. Passes(s, 1) <=> s.counter + 1 >= m
    BY <1>1, <2>6 DEF Passes
  <2>8. Landing(s, 1) = (s.counter + 1) % m
    <3>1. s.counter + 1 \in Nat
      BY <1>1, <2>6
    <3> QED
      BY <1>1, <1>5, <2>1, <2>7, <3>1 DEF Landing
  <2>9. Landing(s, 1) = Landing(t, k + 1)
    BY <1>1, <2>3, <2>5, <2>8, NextRemainder
  <2>10. ~(Landing(t, k) >= Overflow) /\ ~(Landing(t, k + 1) >= Overflow)
    BY <1>1, <2>3, <2>4
  <2>11. CASE c + k < m
    <3>1. s.counter = c + k
      BY <1>1, <2>5, <2>11, SmallRemainder
    <3>2. ~Passes(t, k) /\ (Passes(s, 1) <=> Passes(t, k + 1))
      BY <1>1, <2>2, <2>7, <2>11, <3>1
    <3> QED
      BY <2>9, <2>10, <3>2 DEF LastTick, Fires
  <2>12. CASE ~(c + k < m)
    <3>1. ~t.mode.irq_at_target
      BY <1>2, <1>5, <2>12
    <3>2. Passes(t, k) /\ Passes(t, k + 1)
      BY <1>1, <2>2, <2>12
    <3> QED
      BY <2>9, <2>10, <3>1, <3>2 DEF LastTick, Fires
  <2> QED
    BY <2>11, <2>12
<1> QED
  BY <1>1, <1>3, <1>4, <1>5

(* k ticks and one more are k + 1 ticks.                                   *)
LEMMA OneMore ==
  ASSUME NEW t \in Counter, NEW k \in Nat, t.target > 0,
         Within(t, k + 1), Direct(t, k + 1)
  PROVE  AddTicks(AddTicks(t, k), 1) = AddTicks(t, k + 1)
<1> DEFINE s == Moved(t, k)
           u == Moved(t, k + 1)
<1>1. k + 1 \in Nat /\ 1 \in Nat
  OBVIOUS
<1>2. /\ s \in Counter /\ s.counter = Wrap(Landing(t, k))
      /\ s.target = t.target /\ s.mode = t.mode
  BY MovedFacts DEF SameControl
<1>3. s.reached_target = (t.reached_target \/ Passes(t, k))
      /\ s.reached_overflow = (t.reached_overflow \/ Landing(t, k) >= Overflow)
  BY DEF Moved, Put, Counter
<1> HIDE DEF s
<1>4. LastTick(t, k, s)
  BY <1>2, LastTickHolds
<1>5. AddTicks(t, k) = s
  BY <1>4, AddIs DEF LastTick, s
<1>6. Moved(s, 1) = u
  <2> DEFINE d == Wrap(Landing(s, 1))
             r == s.reached_target \/ Passes(s, 1)
             o == s.reached_overflow \/ Landing(s, 1) >= Overflow
  <2>1. Moved(s, 1) = Put(s, d, r, o)
    BY DEF Moved
  <2>2. s = Put(t, Wrap(Landing(t, k)), t.reached_target \/ Passes(t, k),
                t.reached_overflow \/ Landing(t, k) >= Overflow)
    BY DEF s, Moved
  <2>3. Moved(s, 1) = Put(t, d, r, o)
    <3> HIDE DEF d, r, o
    <3> QED
      BY <2>1, <2>2, PutTwice
  <2>4. d = Wrap(Landing(t, k + 1))
    BY <1>4 DEF LastTick
  <2>5. r = (t.reached_target \/ Passes(t, k + 1))
    BY <1>3, <1>4 DEF LastTick
  <2>6. o = (t.reached_overflow \/ Landing(t, k + 1) >= Overflow)
    BY <1>3, <1>4 DEF LastTick
  <2> HIDE DEF d, r, o
  <2> QED
    BY <2>3, <2>4, <2>5, <2>6, Zenon DEF Moved
<1>7. AddTicks(s, 1) = IF Fires(s, 1) THEN Request(u) ELSE u
  BY <1>1, <1>2, <1>6, AddIs
<1>8. AddTicks(t, k + 1) = IF Fires(t, k + 1) THEN Request(u) ELSE u
  BY <1>1, AddIs
<1> QED
  BY <1>4, <1>5, <1>7, <1>8 DEF LastTick

(* An addition of nothing changes nothing.                                 *)
LEMMA NoTicks ==
  ASSUME NEW t \in Counter, t.target > 0
  PROVE  AddTicks(t, 0) = t
<1>1. /\ Overflow \in Nat \ {0} /\ t.target \in Nat /\ t.counter \in 0..(Overflow - 1)
      /\ t.counter + 0 = t.counter
  BY WidthAssumption DEF Counter
<1>2. ~Passes(t, 0)
  BY <1>1 DEF Passes
<1>3. Landing(t, 0) = t.counter /\ ~(Landing(t, 0) >= Overflow)
  BY <1>1, <1>2 DEF Landing
<1>4. Wrap(Landing(t, 0)) = t.counter
  BY <1>3 DEF Wrap
<1>5. /\ (t.reached_target \/ Passes(t, 0)) = t.reached_target
      /\ (t.reached_overflow \/ Landing(t, 0) >= Overflow) = t.reached_overflow
  BY <1>2, <1>3 DEF Counter
<1>6. Moved(t, 0) = t
  BY <1>4, <1>5, PutSame, Zenon DEF Moved
<1>7. ~Fires(t, 0)
  BY <1>2, <1>3 DEF Fires
<1> QED
  BY <1>6, <1>7, AddIs

(* One addition is as good as one addition per tick.                       *)
LEMMA BulkSteps ==
  ASSUME NEW t \in Counter, NEW n \in Nat, t.target > 0, Within(t, n), Direct(t, n)
  PROVE  AddTicks([t EXCEPT !.edges = 0], n) = Stepwise(t, n)
<1> DEFINE z == [t EXCEPT !.edges = 0]
<1>1. PICK f : /\ Stepwise(t, n) = f[n]
               /\ f[0] = z
               /\ \A k \in 1..n : f[k] = AddTicks(f[k - 1], 1)
  BY StepwiseIs
<1>2. /\ z \in Counter /\ z.target = t.target /\ z.counter = t.counter
      /\ z.mode = t.mode
  BY DEF Counter
<1> HIDE DEF z
<1>3. ASSUME NEW j \in 0..n PROVE Within(z, j) /\ Direct(z, j)
  <2>1. /\ t.counter \in Nat /\ t.target \in Nat /\ Overflow \in Nat
    BY WidthAssumption DEF Counter
  <2>2. Within(z, j)
    BY <1>2, <2>1 DEF Within, TicksToTarget, AtLeastOne
  <2>3. Direct(z, j)
    BY <1>2, <2>1 DEF Direct
  <2> QED
    BY <2>2, <2>3
<1> DEFINE T == {k \in 0..n : f[k] # AddTicks(z, k)}
<1>4. 0 \notin T
  BY <1>1, <1>2, NoTicks
<1>5. ASSUME NEW k \in 1..n, f[k - 1] = AddTicks(z, k - 1) PROVE f[k] = AddTicks(z, k)
  <2>1. k - 1 \in Nat /\ (k - 1) + 1 = k /\ k \in 0..n
    OBVIOUS
  <2>2. AddTicks(AddTicks(z, k - 1), 1) = AddTicks(z, (k - 1) + 1)
    BY <1>2, <1>3, <2>1, OneMore
  <2> QED
    BY <1>1, <1>5, <2>1, <2>2
<1>6. T = {}
  <2> SUFFICES ASSUME T # {} PROVE FALSE
    OBVIOUS
  <2>1. T \in SUBSET Nat
    OBVIOUS
  <2>2. PICK k \in T : \A j \in T : k <= j
    BY <2>1, LeastNumber
  <2>3. k \in 0..n /\ f[k] # AddTicks(z, k)
    OBVIOUS
  <2>4. k \in 1..n
    BY <1>4, <2>2, <2>3
  <2>5. k - 1 \in 0..n /\ ~(k <= k - 1)
    BY <2>4
  <2>6. f[k - 1] = AddTicks(z, k - 1)
    BY <2>2, <2>5
  <2> QED
    BY <1>5, <2>3, <2>4, <2>6
<1>7. n \in 0..n
  OBVIOUS
<1>8. f[n] = AddTicks(z, n)
  BY <1>6, <1>7
<1> QED
  BY <1>1, <1>8 DEF z

(* The ticks since the last addition do not pass the next interrupt.       *)
LEMMA DueWithin ==
  ASSUME Inv, NEW i \in Timer, NEW l \in Nat, OnSysclk(i, tm[i]),
         Timely(tm[i], since + l)
  PROVE  Within(tm[i], Scaled(i, tm[i], since))
<1> DEFINE t == tm[i]
           n == Scaled(i, t, since)
<1>1. /\ t \in Counter /\ since \in Nat /\ carry \in 0..(Div - 1)
      /\ Overflow \in Nat \ {0} /\ Div \in Nat \ {0} /\ Per(t) \in Nat \ {0}
      /\ t.counter \in 0..(Overflow - 1) /\ t.target \in 0..Overflow
  BY WidthAssumption DEF Inv, TypeOK, Counter, Per
<1>2. \A b \in Nat : since <= b * Per(t) => n <= b
  <2>1. CASE t.external
    <3>1. i = 2
      BY <2>1 DEF OnSysclk
    <3>2. n = (since + carry) \div Div /\ Per(t) = Div
      BY <2>1, <3>1 DEF Scaled, Per
    <3> QED
      BY <1>1, <3>2, DivisionWithin
  <2>2. CASE ~t.external
    <3>1. n = since /\ Per(t) = 1
      BY <2>2 DEF Scaled, Per
    <3>2. \A b \in Nat : b * 1 = b
      OBVIOUS
    <3> QED
      BY <3>1, <3>2
  <2> QED
    BY <2>1, <2>2
<1>3. TicksToTarget(t) \in Nat /\ Overflow - t.counter \in Nat
  BY <1>1 DEF TicksToTarget
<1>4. ASSUME t.mode.irq_at_target PROVE n <= AtLeastOne(TicksToTarget(t))
  <2> DEFINE x == TicksToTarget(t)
             p == Per(t)
  <2>1. since + l <= AtLeastOne(x * p)
    BY <1>4 DEF Timely
  <2> HIDE DEF t, x, p
  <2>2. x \in Nat /\ p \in Nat \ {0}
    BY <1>1, <1>3 DEF x, p
  <2>3. CASE x = 0
    <3>1. x * p = 0
      BY <2>2, <2>3
    <3>2. since <= 1
      BY <1>1, <2>1, <3>1 DEF AtLeastOne
    <3>3. 1 * p = p /\ p >= 1
      BY <2>2
    <3>4. since <= 1 * p
      BY <1>1, <2>2, <3>2, <3>3
    <3>5. n <= 1
      BY <1>2, <3>4 DEF p
    <3> QED
      BY <2>3, <3>5 DEF AtLeastOne, x
  <2>4. CASE x # 0
    <3>1. x * p \in Nat /\ x * p >= 1
      <4>1. \A a \in Nat \ {0}, b \in Nat \ {0} : a * b \in Nat /\ a * b >= 1
        OBVIOUS
      <4> QED
        BY <2>2, <2>4, <4>1
    <3> DEFINE y == x * p
    <3>a. y \in Nat /\ y >= 1 /\ since + l <= AtLeastOne(y)
      BY <2>1, <3>1
    <3> HIDE DEF y
    <3>2. since <= y
      BY <1>1, <3>a DEF AtLeastOne
    <3>3. n <= x
      BY <1>2, <2>2, <3>2 DEF p, y
    <3>4. AtLeastOne(x) = x
      BY <2>2, <2>4 DEF AtLeastOne
    <3> QED
      BY <3>3, <3>4 DEF x
  <2> QED
    BY <2>3, <2>4
<1>5. ASSUME t.mode.irq_on_overflow PROVE n <= Overflow - t.counter
  <2> DEFINE y == (Overflow - t.counter) * Per(t)
  <2>1. since + l <= y /\ y \in Nat
    BY <1>1, <1>3, <1>5 DEF Timely
  <2> HIDE DEF y
  <2>2. since <= y
    BY <1>1, <2>1
  <2> QED
    BY <1>2, <1>3, <2>2 DEF y
<1> QED
  BY <1>4, <1>5 DEF Within

(* Events in time pass no interrupt, so that one addition will do.         *)
LEMMA DueExact == Inv /\ Due => BulkIsExact
<1> SUFFICES ASSUME Inv, Due, left >= 0, NEW i \in Timer, OnSysclk(i, tm[i]),
                    tm[i].target > 0,
                    \/ tm[i].counter < tm[i].target
                    \/ tm[i].mode.irq_on_overflow
                    \/ tm[i].counter + Scaled(i, tm[i], since) < Overflow
             PROVE  AddTicks([tm[i] EXCEPT !.edges = 0], Scaled(i, tm[i], since))
                      = Stepwise(tm[i], Scaled(i, tm[i], since))
  BY DEF BulkIsExact
<1> DEFINE n == Scaled(i, tm[i], since)
<1>1. tm[i] \in Counter /\ since \in Nat /\ left \in Nat
  BY DEF Inv, TypeOK
<1>2. n \in Nat
  <2>1. carry \in Nat /\ Div \in Nat \ {0} /\ since + carry \in Nat
    BY WidthAssumption DEF Inv, TypeOK
  <2> QED
    BY <1>1, <2>1, Remainder DEF Scaled
<1>3. Timely(tm[i], since + left)
  BY DEF Due
<1>4. Within(tm[i], n)
  BY <1>1, <1>3, DueWithin
<1>5. Direct(tm[i], n)
  BY DEF Direct
<1> HIDE DEF n
<1>6. AddTicks([tm[i] EXCEPT !.edges = 0], n) = Stepwise(tm[i], n)
  BY <1>1, <1>2, <1>4, <1>5, BulkSteps
<1> QED
  BY <1>6 DEF n

(* With the same modes, the ticks since the last addition may be added at  *)
(* once: the counter, the flags and the interrupts are those of the        *)
(* additions of single ticks (timers_check_for_irq).                       *)
THEOREM BulkCounts ==
  ASSUME \A i \in Timer : \A m \in Modes[i] : PromptMode(i, m)
  PROVE  Spec => []BulkIsExact
<1>1. Init => Inv /\ Due
  BY InitInv, InitDue
<1>2. (Inv /\ Due) /\ [Next]_vars => (Inv /\ Due)'
  BY NextInv, NextDue
<1>3. Inv /\ Due => BulkIsExact
  BY DueExact
<1> QED
  BY <1>1, <1>2, <1>3, PTL DEF Spec

-----------------------------------------------------------------------------
(* The interrupt controller, with the CPU's side of it, for any lines.     *)

(* The controller starts in it.                                            *)
LEMMA IrqInitIndInv == IrqInit => IndInv
<1> SUFFICES ASSUME IrqInit PROVE IndInv
  OBVIOUS
<1>1. sr_ie \in ModeStacks /\ sr_ie.c = FALSE
  BY DEF IrqInit, Disabled, ModeStacks
<1> QED
  BY <1>1 DEF IrqInit, IndInv, IrqTypeOK, RequestFollowsRegisters, InterruptsArePrecise, Pending,
              PendingIn

(* What interrupt_controller_update_cpu_request leaves behind.             *)
LEMMA RequestUpdated ==
  ASSUME IrqTypeOK, phase = "cpu" /\ Pending => stop, UpdateCpuRequest
  PROVE  /\ cause_ip' \subseteq Sources /\ sr_im' = sr_im /\ sr_ie' = sr_ie
         /\ "hw" \in cause_ip' <=> status' \cap mask' # {}
         /\ stop' \in BOOLEAN
         /\ phase = "cpu" /\ Pending' => stop'
<1>1. /\ cause_ip' = IF status' \cap mask' # {} THEN cause_ip \cup {"hw"} ELSE cause_ip \ {"hw"}
      /\ sr_im' = sr_im /\ sr_ie' = sr_ie
  BY DEF UpdateCpuRequest
<1>2. cause_ip' \subseteq Sources /\ ("hw" \in cause_ip' <=> status' \cap mask' # {})
  BY <1>1 DEF IrqTypeOK, Sources
<1>3. CASE cause_ip' # cause_ip /\ "hw" \in cause_ip'
  <2>1. stop' = (stop \/ Pending')
    BY <1>3 DEF UpdateCpuRequest, CheckForPending
  <2> QED
    BY <1>1, <1>2, <2>1
<1>4. CASE ~(cause_ip' # cause_ip /\ "hw" \in cause_ip')
  <2>1. stop' = stop
    BY <1>4 DEF UpdateCpuRequest
  <2>2. Pending' => Pending
    BY <1>1, <1>4 DEF Pending, PendingIn
  <2>3. stop \in BOOLEAN
    BY DEF IrqTypeOK
  <2> QED
    BY <1>1, <1>2, <2>1, <2>2, <2>3
<1> QED
  BY <1>3, <1>4

(* A step that writes a register or changes a level.                       *)
LEMMA ControllerStep ==
  ASSUME IndInv, UpdateCpuRequest, UNCHANGED phase,
         status' \subseteq Irq, mask' \subseteq Irq, line' \subseteq Irq
  PROVE  IndInv'
<1>1. /\ cause_ip' \subseteq Sources /\ sr_im' = sr_im /\ sr_ie' = sr_ie
      /\ "hw" \in cause_ip' <=> status' \cap mask' # {}
      /\ stop' \in BOOLEAN
      /\ phase = "cpu" /\ Pending' => stop'
  BY RequestUpdated DEF IndInv, InterruptsArePrecise
<1>2. IrqTypeOK'
  BY <1>1 DEF IndInv, IrqTypeOK
<1> QED
  BY <1>1, <1>2 DEF IndInv, RequestFollowsRegisters, InterruptsArePrecise

(* A step that writes CAUSE or SR.                                         *)
LEMMA Cop0Step ==
  ASSUME IndInv, UNCHANGED <<controller, phase>>,
         cause_ip' \subseteq Sources, sr_im' \subseteq Sources, sr_ie' \in ModeStacks,
         "hw" \in cause_ip' <=> "hw" \in cause_ip,
         CheckForPending \/ (stop' = stop /\ ~Pending')
  PROVE  IndInv'
<1>1. stop' \in BOOLEAN /\ (Pending' => stop')
  <2>1. stop \in BOOLEAN
    BY DEF IndInv, IrqTypeOK
  <2>2. CASE stop' = (stop \/ Pending')
    BY <2>2
  <2> QED
    BY <2>1, <2>2 DEF CheckForPending
<1>2. IrqTypeOK'
  BY <1>1 DEF IndInv, IrqTypeOK, controller
<1> QED
  BY <1>1, <1>2 DEF IndInv, RequestFollowsRegisters, InterruptsArePrecise,
                    controller

(* Every step of it or of the CPU keeps it.                                *)
LEMMA IrqNextStep == IndInv /\ [IrqNext]_irq_vars => IndInv'
<1> SUFFICES ASSUME IndInv, [IrqNext]_irq_vars PROVE IndInv'
  OBVIOUS
<1>1. IrqTypeOK /\ RequestFollowsRegisters /\ InterruptsArePrecise
  BY DEF IndInv
<1>2. ASSUME NEW i \in Irq, NEW state \in BOOLEAN, SetLineState(i, state) PROVE IndInv'
  <2>1. /\ UpdateCpuRequest /\ UNCHANGED phase
        /\ status' \subseteq Irq /\ mask' \subseteq Irq /\ line' \subseteq Irq
    BY <1>1, <1>2 DEF SetLineState, IrqTypeOK
  <2> QED
    BY <2>1, ControllerStep
<1>3. ASSUME NEW value \in Value, WriteStatus(value) \/ WriteMask(value) PROVE IndInv'
  <2>1. /\ UpdateCpuRequest /\ UNCHANGED phase
        /\ status' \subseteq Irq /\ mask' \subseteq Irq /\ line' \subseteq Irq
    BY <1>1, <1>3 DEF WriteStatus, WriteMask, Instruction, IrqTypeOK
  <2> QED
    BY <2>1, ControllerStep
<1>4. ASSUME NEW im \in SUBSET Sources, NEW ie \in ModeStacks, WriteSr(im, ie)
      PROVE  IndInv'
  <2>1. /\ UNCHANGED <<controller, phase>> /\ CheckForPending
        /\ cause_ip' = cause_ip /\ sr_im' = im /\ sr_ie' = ie
    BY <1>4 DEF WriteSr, Instruction
  <2> QED
    BY <1>1, <2>1, Cop0Step DEF IrqTypeOK
<1>5. ASSUME NEW ip \in SUBSET {"sw"}, WriteCause(ip) PROVE IndInv'
  <2>1. /\ UNCHANGED <<controller, phase>> /\ CheckForPending
        /\ cause_ip' = (cause_ip \cap {"hw"}) \cup ip
        /\ sr_im' = sr_im /\ sr_ie' = sr_ie
    BY <1>5 DEF WriteCause, Instruction
  <2>2. cause_ip' \subseteq Sources /\ ("hw" \in cause_ip' <=> "hw" \in cause_ip)
    BY <1>1, <2>1 DEF IrqTypeOK, Sources
  <2> QED
    BY <1>1, <2>1, <2>2, Cop0Step DEF IrqTypeOK
<1>6. CASE Rfe
  <2>1. /\ UNCHANGED <<controller, phase>> /\ CheckForPending
        /\ cause_ip' = cause_ip /\ sr_im' = sr_im
        /\ sr_ie' = [c |-> sr_ie.p, p |-> sr_ie.o, o |-> sr_ie.o]
    BY <1>6 DEF Rfe, Instruction
  <2>2. sr_ie' \in ModeStacks
    BY <1>1, <2>1 DEF IrqTypeOK, ModeStacks
  <2> QED
    BY <1>1, <2>1, <2>2, Cop0Step DEF IrqTypeOK
<1>7. ASSUME PushMode, cause_ip' = cause_ip, sr_im' = sr_im
      PROVE  sr_ie' \in ModeStacks /\ ~Pending'
  <2>1. sr_ie' = [c |-> FALSE, p |-> sr_ie.c, o |-> sr_ie.p]
    BY <1>7 DEF PushMode
  <2> QED
    BY <1>1, <2>1 DEF IrqTypeOK, Pending, PendingIn, ModeStacks
<1>8. CASE RaiseException
  <2>1. /\ UNCHANGED <<controller, phase>> /\ stop' = stop
        /\ cause_ip' = cause_ip /\ sr_im' = sr_im /\ PushMode
    BY <1>8 DEF RaiseException, Instruction
  <2> QED
    BY <1>1, <1>7, <2>1, Cop0Step DEF IrqTypeOK
<1>9. CASE EndInstructionLoop \/ ExitExecution \/ Execute
  <2>1. /\ UNCHANGED <<controller, cop0, stop>>
        /\ phase' \in {"events", "out"}
    BY <1>9 DEF EndInstructionLoop, ExitExecution, Execute
  <2> QED
    BY <1>1, <2>1 DEF IndInv, IrqTypeOK, RequestFollowsRegisters, InterruptsArePrecise,
                      controller, cop0
<1>10. CASE DispatchInterrupt
  <2>1. /\ UNCHANGED <<cause_ip, sr_im, controller>>
        /\ stop' = Pending' /\ phase' = "cpu"
        /\ PushMode \/ sr_ie' = sr_ie
    BY <1>10 DEF DispatchInterrupt
  <2>2. sr_ie' \in ModeStacks
    BY <1>1, <1>7, <2>1 DEF IrqTypeOK
  <2>3. stop' \in BOOLEAN /\ (Pending' => stop')
    BY <2>1 DEF Pending, PendingIn
  <2>4. IrqTypeOK'
    BY <1>1, <2>1, <2>2, <2>3 DEF IrqTypeOK, controller
  <2> QED
    BY <1>1, <2>1, <2>3, <2>4 DEF IndInv, RequestFollowsRegisters, InterruptsArePrecise, controller
<1>11. CASE ResetController
  <2>1. Disabled \in ModeStacks
    BY DEF Disabled, ModeStacks
  <2> QED
    BY <1>1, <1>11, <2>1 DEF ResetController, Disabled, IndInv, IrqTypeOK, RequestFollowsRegisters,
                             InterruptsArePrecise
<1>12. ASSUME NEW old \in BOOLEAN, SaveAndLoad(old) PROVE IndInv'
  <2>1. /\ status' = status /\ mask' = mask /\ line' \in {status, line}
        /\ cause_ip' = cause_ip /\ sr_im' = sr_im /\ sr_ie' = sr_ie
        /\ stop' = Pending' /\ phase' = phase
    BY <1>12 DEF SaveAndLoad, cop0
  <2>2. stop' \in BOOLEAN /\ (Pending' => stop')
    BY <2>1 DEF Pending, PendingIn
  <2>3. IrqTypeOK'
    BY <1>1, <2>1, <2>2 DEF IrqTypeOK
  <2> QED
    BY <1>1, <2>1, <2>2, <2>3 DEF IndInv, RequestFollowsRegisters, InterruptsArePrecise
<1>13. CASE UNCHANGED irq_vars
  BY <1>1, <1>13 DEF irq_vars, controller, cop0, IndInv, IrqTypeOK, RequestFollowsRegisters,
     InterruptsArePrecise, Pending
<1> QED
  BY <1>2, <1>3, <1>4, <1>5, <1>6, <1>8, <1>9, <1>10, <1>11, <1>12, <1>13
     DEF IrqNext, Device, Program, Host, Load

(* The inductive invariant, for any number of lines.                       *)
THEOREM IrqInvariance == IrqSpec => []IndInv
<1> QED
  BY IrqInitIndInv, IrqNextStep, PTL DEF IrqSpec

(* Registers and levels keep to their bits, whatever is written or loaded. *)
THEOREM IrqTypeCorrect == IrqSpec => []IrqTypeOK
<1>1. IndInv => IrqTypeOK
  BY DEF IndInv
<1> QED
  BY <1>1, IrqInvariance, PTL

(* CAUSE.Ip mirrors I_STATUS & I_MASK although it is only updated on       *)
(* changes and restored on its own from a save state.                      *)
THEOREM RequestIsCurrent == IrqSpec => []RequestFollowsRegisters
<1>1. IndInv => RequestFollowsRegisters
  BY DEF IndInv
<1> QED
  BY <1>1, IrqInvariance, PTL

(* No instruction starts with an interrupt pending.                        *)
THEOREM Precise == IrqSpec => []InterruptsArePrecise
<1>1. IndInv => InterruptsArePrecise
  BY DEF IndInv
<1> QED
  BY <1>1, IrqInvariance, PTL

(* What one step does to the latch: only a load puts levels and latches    *)
(* together again, only the program, a reset or a load drops a latch.      *)
LEMMA LatchStep ==
  ASSUME IrqTypeOK, [IrqNext]_irq_vars
  PROVE  /\ ~Load => /\ line' \ line \subseteq status'
                     /\ status' \ status \subseteq line' \ line
         /\ status \subseteq status' \/ phase = "out" \/ (phase = "cpu" /\ line' = line)
<1>1. ASSUME NEW i \in Irq, NEW state \in BOOLEAN, SetLineState(i, state)
      PROVE  /\ line' \ line \subseteq status' /\ status' \ status \subseteq line' \ line
             /\ status \subseteq status'
  <2>1. CASE state
    BY <1>1, <2>1 DEF SetLineState
  <2>2. CASE ~state
    BY <1>1, <2>2 DEF SetLineState
  <2> QED
    BY <2>1, <2>2
<1>2. ASSUME NEW value \in Value, WriteStatus(value) \/ WriteMask(value)
      PROVE  line' = line /\ phase = "cpu" /\ status' \subseteq status
  BY <1>2 DEF WriteStatus, WriteMask, Instruction
<1>3. ASSUME \/ \E im \in SUBSET Sources, ie \in ModeStacks : WriteSr(im, ie)
             \/ \E ip \in SUBSET {"sw"} : WriteCause(ip)
             \/ Rfe \/ RaiseException \/ EndInstructionLoop \/ DispatchInterrupt
             \/ ExitExecution \/ Execute
      PROVE  line' = line /\ status' = status
  BY <1>3 DEF WriteSr, WriteCause, Rfe, RaiseException, EndInstructionLoop, DispatchInterrupt,
              ExitExecution, Execute, controller
<1>4. CASE ResetController
  BY <1>4 DEF ResetController
<1>5. ASSUME Load
      PROVE  phase = "out"
  BY <1>5 DEF Load, SaveAndLoad
<1>6. CASE UNCHANGED irq_vars
  BY <1>6 DEF irq_vars, controller
<1> QED
  BY <1>1, <1>2, <1>3, <1>4, <1>5, <1>6 DEF IrqNext, Device, Program, Host

(* A rising edge is latched, once, and stays until it is dropped by        *)
(* whoever may (interrupt_controller_set_line_state, writes of I_STATUS).  *)
THEOREM EdgesKept == IrqSpec => EdgesAreKept
<1>1. IrqTypeOK /\ [IrqNext]_irq_vars =>
        [~Load => /\ line' \ line \subseteq status'
                  /\ status' \ status \subseteq line' \ line]_irq_vars
  BY LatchStep
<1>2. IrqTypeOK /\ [IrqNext]_irq_vars =>
        [status \subseteq status' \/ phase = "out" \/ (phase = "cpu" /\ line' = line)]_irq_vars
  BY LatchStep
<1> QED
  BY <1>1, <1>2, IrqTypeCorrect, PTL DEF IrqSpec, EdgesAreKept, EdgesAreLatched, LatchHolds
=============================================================================
