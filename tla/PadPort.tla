------------------------------ MODULE PadPort ------------------------------
(***************************************************************************)
(* The port of the controllers and memory cards: src/core/input/pad.c,     *)
(* with a multitap (multitap.c), digital controllers                       *)
(* (controllers/digital_controller.c) and a memory card.                   *)
(*                                                                         *)
(* One port is modelled, with a controller and a card in it, or with a     *)
(* multitap that has a controller in every slot and the card in slot 0.    *)
(* The three interrupt enables are one.  Of JOY_STAT there is INTR; the    *)
(* bits that pad_update_joy_stat derives, and what is received, are left   *)
(* out.  A state is loaded whole, into the same devices.                   *)
(***************************************************************************)
EXTENDS MemoryCard, FiniteSets

CONSTANTS
  Kits,       \* bound: the sets of bytes that the program sends, each with
              \* whether there is a multitap, whether the host interferes,
              \* whether interrupts are enabled, and the states of the card
              \* in which a state of the machine is written
  TapSlots,   \* bound: the slots of the multitap, 4 in the code
  TapBytes    \* bound: the bytes it exchanges with each, 8 in the code, and
              \* no fewer than a digital controller answers with

ASSUME PortAssumption ==
  /\ Kits \subseteq [bytes : SUBSET Byte, tapped : BOOLEAN, host : BOOLEAN,
                       irqen : BOOLEAN, saves : SUBSET CardStates]
  /\ TapSlots \in Nat \ {0} /\ TapBytes \in Nat /\ TapBytes >= 4

VARIABLES
  kit,    \* which of the Kits it is
  joy,    \* the registers and the transfer event
  pads,   \* the controllers
  card,
  tap,
  saved   \* the port in the state on disk

devices == <<pads, card, tap>>
vars == <<kit, joy, pads, card, tap, saved>>

Slots == 0..TapSlots - 1
PadStates == {"IDLE", "READY", "ID_MSB", "BUTTONS_LSB", "BUTTONS_MSB"}
None == 0

Joy ==
  [state : {"IDLE", "TRANSMITTING", "WAITING_FOR_ACK"},
   event : BOOLEAN,                     \* transfer_event is scheduled
   device : {"none", "pad", "card", "tap"},   \* active_device
   select : BOOLEAN, txen : BOOLEAN, irqen : BOOLEAN,   \* joy_ctrl
   buffer : Byte \cup {None},           \* transmit_buffer, None unless it is full
   value : Byte \cup {None},            \* transmit_value
   intr : BOOLEAN,                      \* JOY_STAT.INTR
   line : BOOLEAN,                      \* the line of the interrupt controller
   failed : BOOLEAN,                    \* the multitap left its buffer
   stray : BOOLEAN,   \* ghost: the event was kept when an idle port was loaded
   mixed : BOOLEAN]   \* ghost: the active device is not that of the loaded port

Tap ==
  [enabled : BOOLEAN,
   state : {"IDLE", "CARD", "COMMAND", "SINGLE", "ALL"},
   slot : Slots, step : 0..TapSlots * TapBytes,
   all : BOOLEAN, invalid : BOOLEAN, done : BOOLEAN]

Idle ==
  [state |-> "IDLE", event |-> FALSE, device |-> "none", select |-> FALSE, txen |-> FALSE,
   irqen |-> FALSE, buffer |-> None, value |-> None, intr |-> FALSE,
   line |-> FALSE, failed |-> FALSE, stray |-> FALSE, mixed |-> FALSE]

IdleTap(enabled) ==
  [enabled |-> enabled, state |-> "IDLE", slot |-> 0, step |-> 0, all |-> FALSE,
   invalid |-> FALSE, done |-> FALSE]

Bus == [pads |-> pads, card |-> card, tap |-> tap]

Init ==
  /\ kit \in Kits
  /\ joy = Idle /\ card = NewCard
  /\ pads = [s \in Slots |-> "IDLE"]
  /\ tap = IdleTap(kit.tapped)
  /\ saved = [joy |-> Idle, bus |-> Bus]

-----------------------------------------------------------------------------
(* The devices: what they and their acknowledgement are after a byte.      *)

Outcome(bus, ack) == [bus |-> bus, ack |-> ack]

(* digital_controller_transfer; an unknown command leaves it READY.        *)
PadAfter(p, byte) ==
  CASE p = "IDLE"        -> IF byte = ToController THEN "READY" ELSE p
    [] p = "READY"       -> IF byte = Poll THEN "ID_MSB" ELSE p
    [] p = "ID_MSB"      -> "BUTTONS_LSB"
    [] p = "BUTTONS_LSB" -> "BUTTONS_MSB"
    [] p = "BUTTONS_MSB" -> "IDLE"
PadAck(p, byte) == PadAfter(p, byte) \notin {p, "IDLE"}

ToPad(bus, slot, byte) ==
  Outcome([bus EXCEPT !.pads[slot] = PadAfter(@, byte)], PadAck(bus.pads[slot], byte))

(* There is a card in slot 0 only.                                         *)
ToCardSlot(bus, slot, byte) ==
  IF slot # 0 THEN Outcome(bus, FALSE)
  ELSE LET a == CardTransfer(bus.card, byte) IN Outcome([bus EXCEPT !.card = a.card], a.ack)

Goes(outcome, state) == [outcome EXCEPT !.bus.tap.state = state]

(* multitap_transfer, one operator for each state.  The access byte holds  *)
(* the number of the slot; slot is what it says.                           *)
TapIdle(bus, byte, slot) ==
  LET c == ToCardSlot([bus EXCEPT !.tap.slot = slot], slot, ToCard)
      p == ToPad([bus EXCEPT !.tap.slot = slot], slot, ToController)
      all == [p EXCEPT !.bus.pads = [s \in Slots |-> PadAfter(bus.pads[s], ToController)]]
  IN CASE byte = ToCard       -> IF c.ack THEN Goes(c, "CARD") ELSE c
       [] byte = ToController -> IF ~p.ack THEN p
                                 ELSE Goes(IF bus.tap.all THEN all ELSE p, "COMMAND")
       [] OTHER               -> Outcome(bus, FALSE)

TapCommand(bus, byte) ==
  LET t == bus.tap IN
    IF t.step = 0
    THEN LET o == IF t.all THEN Outcome([bus EXCEPT !.tap.invalid = byte # Poll], TRUE)
                           ELSE ToPad(bus, t.slot, byte)
         IN [o EXCEPT !.bus.tap.step = 1]
    ELSE LET o == IF t.all
                  THEN Goes(Outcome([bus EXCEPT !.tap.slot = 0], ~t.invalid), "ALL")
                  ELSE Goes(ToPad(bus, t.slot, None), "SINGLE")
         IN [o EXCEPT !.bus.tap.step = 0, !.bus.tap.all = byte % 2 = 1]

TapAll(bus, byte) ==
  LET t == bus.tap
      o == IF t.done THEN Outcome(bus, FALSE) ELSE ToPad(bus, t.slot, byte)
      last == (t.step + 1) % TapBytes = 0
      next == (t.slot + 1) % TapSlots
  IN Outcome([o.bus EXCEPT !.tap.step = @ + 1, !.tap.done = ~last /\ (t.done \/ ~o.ack),
                           !.tap.slot = IF last THEN next ELSE @],
             ~(last /\ next = 0))

TapTransfer(bus, byte, slot) ==
  LET t == bus.tap
      c == ToCardSlot(bus, t.slot, byte)
      p == ToPad(bus, t.slot, byte)
  IN CASE t.state = "IDLE"    -> TapIdle(bus, byte, slot)
       [] t.state = "CARD"    -> IF c.ack THEN c ELSE Goes(c, "IDLE")
       [] t.state = "COMMAND" -> TapCommand(bus, byte)
       [] t.state = "SINGLE"  -> IF p.ack THEN p ELSE Goes(p, "IDLE")
       [] t.state = "ALL"     -> TapAll(bus, byte)

(* The transfer_buffer is used up and the program goes on.                 *)
Overrun == tap.state = "ALL" /\ tap.step = TapSlots * TapBytes

(* multitap_reset_transfer_state keeps the request for all controllers.    *)
ResetTapTransfer(t) == [t EXCEPT !.state = "IDLE", !.slot = 0, !.step = 0, !.done = FALSE]

-----------------------------------------------------------------------------
(* The transfer *)

CanTransfer(j) == j.buffer # None /\ j.select /\ j.txen

TriggerIrq(j) == IF j.irqen THEN [j EXCEPT !.intr = TRUE, !.line = TRUE] ELSE j

BeginTransfer(j) ==
  [j EXCEPT !.value = j.buffer, !.buffer = None, !.state = "TRANSMITTING", !.event = TRUE,
            !.stray = FALSE]
BeginIfPossible(j) == IF j.state = "IDLE" /\ CanTransfer(j) THEN BeginTransfer(j) ELSE j

EndTransfer(j) == [j EXCEPT !.state = "IDLE", !.event = FALSE, !.stray = FALSE]
EndIfTransmitting(j) == IF j.state = "IDLE" THEN j ELSE EndTransfer(j)

(* The device that answers when none is active: the multitap, else the     *)
(* controller, else the card.                                              *)
FirstTransfer(byte, slot) ==
  LET p == ToPad(Bus, 0, byte)
      c == ToCardSlot(p.bus, 0, byte)
  IN IF tap.enabled THEN [device |-> "tap", outcome |-> TapTransfer(Bus, byte, slot)]
     ELSE IF p.ack THEN [device |-> "pad", outcome |-> p]
     ELSE [device |-> "card", outcome |-> c]

Transfer(byte, slot) ==
  CASE joy.device = "none" -> FirstTransfer(byte, slot)
    [] joy.device = "pad"  -> [device |-> "pad", outcome |-> ToPad(Bus, 0, byte)]
    [] joy.device = "card" -> [device |-> "card", outcome |-> ToCardSlot(Bus, 0, byte)]
    [] joy.device = "tap"  -> [device |-> "tap",
                               outcome |-> IF tap.enabled THEN TapTransfer(Bus, byte, slot)
                                           ELSE Outcome(Bus, FALSE)]

Devices(bus) == pads' = bus.pads /\ card' = bus.card /\ tap' = bus.tap

AfterTransfer(j, device, ack) ==
  LET r == TriggerIrq([j EXCEPT !.device = device]) IN
    IF ack THEN [r EXCEPT !.state = "WAITING_FOR_ACK", !.event = TRUE]
    ELSE EndTransfer([r EXCEPT !.device = "none"])

(* pad_do_transfer                                                         *)
DoTransfer ==
  /\ ~joy.failed /\ joy.event /\ joy.state = "TRANSMITTING"
  /\ IF (joy.device = "tap" \/ (joy.device = "none" /\ tap.enabled)) /\ Overrun
     THEN joy' = [joy EXCEPT !.failed = TRUE] /\ UNCHANGED devices
     ELSE \E slot \in Slots :
            LET t == Transfer(joy.value, slot) IN
              /\ Devices(t.outcome.bus)
              /\ joy' = AfterTransfer(joy, t.device, t.outcome.ack)
  /\ UNCHANGED <<kit, saved>>

(* Mutant: a byte that was written in the meantime is not sent.            *)
DoAckEnds ==
  /\ ~joy.failed /\ joy.event /\ joy.state # "TRANSMITTING"
  /\ joy' = EndTransfer(TriggerIrq(joy))
  /\ UNCHANGED <<kit, devices, saved>>

(* pad_do_ack, which pad_transfer_event calls unless it is TRANSMITTING.   *)
DoAck ==
  /\ ~joy.failed /\ joy.event /\ joy.state # "TRANSMITTING"
  /\ joy' = BeginIfPossible(EndTransfer(TriggerIrq(joy)))
  /\ UNCHANGED <<kit, devices, saved>>

-----------------------------------------------------------------------------
(* The program *)

(* pad_write_register, JOY_DATA.                                           *)
WriteData(byte) ==
  /\ ~joy.failed
  /\ joy' = BeginIfPossible(TriggerIrq([joy EXCEPT !.buffer = byte]))
  /\ UNCHANGED <<kit, devices, saved>>

(* pad_reset_device_transfer_state                                         *)
ResetDevices ==
  /\ pads' = [s \in Slots |-> "IDLE"] /\ card' = ResetCardTransfer(card)
  /\ tap' = ResetTapTransfer(tap)

(* pad_write_register, JOY_CTRL without RESET.                             *)
WriteControl(select, txen, ack) ==
  LET w == [joy EXCEPT !.select = select, !.txen = txen, !.irqen = kit.irqen,
                       !.intr = @ /\ ~ack, !.line = @ /\ ~ack,
                       !.device = IF select THEN @ ELSE "none", !.mixed = @ /\ select]
  IN /\ ~joy.failed
     /\ joy' = IF select /\ txen THEN BeginIfPossible(w) ELSE EndIfTransmitting(w)
     /\ IF select THEN UNCHANGED devices ELSE ResetDevices
     /\ UNCHANGED <<kit, saved>>

(* pad_soft_reset forgets the interrupt but leaves the line as it is.      *)
SoftResetJoy(j) ==
  LET e == EndIfTransmitting(j) IN
    [Idle EXCEPT !.event = e.event, !.stray = e.stray, !.value = e.value, !.line = e.line]

(* With RESET, also when the same write acknowledges.                      *)
SoftReset == /\ ~joy.failed /\ joy' = SoftResetJoy(joy) /\ ResetDevices
             /\ UNCHANGED <<kit, saved>>

-----------------------------------------------------------------------------
(* The scheduler and the host *)

(* memory_card_save_event_cb                                               *)
SaveEvent(ok) == /\ ~joy.failed /\ card.saving /\ card' = SaveIfChanged(card, ok)
                 /\ UNCHANGED <<kit, joy, pads, tap, saved>>

(* pad_reset                                                               *)
Reset(ok) ==
  /\ ~joy.failed /\ joy' = SoftResetJoy(joy) /\ UNCHANGED <<kit, saved>>
  /\ pads' = [s \in Slots |-> "IDLE"] /\ card' = ResetCard(card, ok) /\ tap' = IdleTap(tap.enabled)

(* pad_do_state, writing.  The active device is noted although the state   *)
(* does not hold it; the byte being sent is not in it either.              *)
SaveState ==
  /\ ~joy.failed /\ card.state \in kit.saves
  /\ saved' = [joy |-> [joy EXCEPT !.event = joy.state # "IDLE", !.stray = FALSE, !.value = None],
               bus |-> [Bus EXCEPT !.card = SavedCard(card)]]
  /\ UNCHANGED <<kit, joy, devices>>

(* Reading.  The event is scheduled if there is a transfer in the state,   *)
(* and left alone if not; active_device and transmit_value stay those of   *)
(* the machine.  The line is loaded with the interrupt controller.         *)
LoadState(ok) ==
  /\ ~joy.failed
  /\ joy' = [saved.joy EXCEPT !.event = @ \/ joy.event, !.stray = joy.event /\ ~saved.joy.event,
                              !.device = joy.device, !.value = joy.value,
                              !.mixed = @ \/ joy.device # saved.joy.device]
  /\ Devices([saved.bus EXCEPT !.card = LoadCard(card, @, ok)])
  /\ UNCHANGED <<kit, saved>>

(* The card is taken out and put back, as when the settings change.        *)
Reopen(ok, readable) ==
  /\ ~joy.failed /\ card' = ReopenCard(card, ok, readable)
  /\ UNCHANGED <<kit, joy, pads, tap, saved>>

Program ==
  \/ \E byte \in kit.bytes : WriteData(byte)
  \/ \E select, txen, ack \in BOOLEAN : WriteControl(select, txen, ack)
  \/ SoftReset

Host ==
  \/ kit.host /\ \E ok \in BOOLEAN : Reset(ok)
  \/ kit.host /\ \E ok, readable \in BOOLEAN : Reopen(ok, readable)
  \/ SaveState
  \/ (kit.host \/ kit.saves # {}) /\ \E ok \in BOOLEAN : LoadState(ok)

Next == DoTransfer \/ DoAck \/ (\E ok \in BOOLEAN : SaveEvent(ok)) \/ Program \/ Host

Spec == Init /\ [][Next]_vars

(* The scheduler runs the events, and files can be written.                *)
FairSpec ==
  /\ Spec
  /\ WF_vars(DoTransfer) /\ WF_vars(DoAck) /\ SF_vars(SaveEvent(TRUE))

-----------------------------------------------------------------------------
(* Properties *)

TypeOK ==
  /\ kit \in Kits /\ joy \in Joy /\ pads \in [Slots -> PadStates] /\ card \in Card /\ tap \in Tap
  /\ saved \in [joy : Joy, bus : [pads : [Slots -> PadStates], card : Card, tap : Tap]]

Running == ~joy.failed

(* The transfer event is scheduled exactly while there is a transfer, so   *)
(* that neither callback finds the port idle, as pad_end_transfer asserts; *)
(* except that an idle port that is loaded over one with a transfer keeps  *)
(* the event, until it fires or the next transfer takes it.                *)
EventMatchesState == joy.event <=> joy.state # "IDLE" \/ joy.stray

(* A byte never waits with the port idle and enabled, unless the one       *)
(* before was not acknowledged (then it does wait, for the next write) or  *)
(* a state was loaded in which another device was active.                  *)
WaitingByteStarts ==
  Running /\ joy.state = "IDLE" /\ CanTransfer(joy) => joy.device = "none" \/ joy.mixed

(* The device that has the transfer is the only one in the middle of one,  *)
(* so that no byte of a card is taken by a controller.  Without a multitap *)
(* a controller that did not understand its command may still be READY.    *)
(* Except that a state in which another device was active may have been    *)
(* loaded, and the devices neither reset nor deselected since.             *)
OneDeviceTransfers ==
  Running /\ ~joy.mixed =>
    IF tap.enabled
    THEN /\ card.state # "IDLE" => joy.device = "tap" /\ tap.state = "CARD"
         /\ \A s, u \in Slots : pads[s] \notin {"IDLE", "READY"} /\ pads[u] \notin {"IDLE", "READY"}
                                => s = u
    ELSE /\ card.state # "IDLE" => joy.device = "card"
         /\ pads[0] \notin {"IDLE", "READY"} => joy.device = "pad"

(* An interrupt that is shown is also signalled.                           *)
ShownIsSignalled == joy.intr => joy.line

(* The port, its event, its line and the devices behind it agree: variables*)
(* in range, EventMatchesState, WaitingByteStarts, OneDeviceTransfers,     *)
(* ShownIsSignalled.                                                       *)
PortAndDevicesAgree ==
  /\ TypeOK
  /\ EventMatchesState
  /\ WaitingByteStarts
  /\ OneDeviceTransfers
  /\ ShownIsSignalled

(* A sector that was written will be saved: its event is scheduled, or the *)
(* save failed, or a state was loaded.  No abandoned transfer, reset or    *)
(* deselection in between loses it.                                        *)
SectorsAreSaved == card.owed /\ card.path => card.saving \/ card.excused

(* The file holds what the card holds, or the card knows that it does not. *)
FileIsCurrent == card.path /\ card.data # card.file => card.changed \/ card.excused

(* What was written to the card is in its file or known not to be:         *)
(* SectorsAreSaved, FileIsCurrent.                                         *)
WrittenIsKept ==
  /\ SectorsAreSaved
  /\ FileIsCurrent

(* What is written reaches the file if files can be written.               *)
SectorsReachFile == card.owed ~> (~card.owed \/ card.excused \/ joy.failed)
==============================================================================
