----------------------------- MODULE Interrupts -----------------------------
(***************************************************************************)
(* The interrupt controller (src/core/interrupts/interrupt_controller.c)   *)
(* with the CPU's side of an interrupt: CAUSE.Ip, SR.Im, the mode stack of *)
(* SR and the downcount that ends the instruction loop (cpu_core.c).       *)
(*                                                                         *)
(* A register is the set of its bits that are 1.  Of CAUSE.Ip and SR.Im    *)
(* the bit of the controller is "hw", the two software bits are "sw".  Of  *)
(* the downcount it only matters whether it is zero: time passes at will.  *)
(*                                                                         *)
(* The names that every component has begin with Irq here, so that this    *)
(* one can be extended together with the device whose lines it latches.    *)
(***************************************************************************)
EXTENDS Integers, FiniteSets

CONSTANT Irq          \* the lines of the controller

ASSUME IrqAssumption == IsFiniteSet(Irq)

VARIABLES
  status, mask, line,   \* I_STATUS, I_MASK, the levels of the lines
  cause_ip, sr_im,      \* subsets of Sources
  sr_ie,                \* IEc, IEp, IEo
  stop,                 \* g_cpu_state.downcount = 0
  phase                 \* "cpu", "events" (timing_events_run_events) or "out"

controller == <<status, mask, line>>
cop0 == <<cause_ip, sr_im, sr_ie>>
irq_vars == <<controller, cop0, stop, phase>>

Sources == {"hw", "sw"}
Reserved == "reserved"   \* the bits of a register value above the lines
Value == SUBSET (Irq \cup {Reserved})
ModeStacks == [c : BOOLEAN, p : BOOLEAN, o : BOOLEAN]
Disabled == [c |-> FALSE, p |-> FALSE, o |-> FALSE]

(* cpu_has_pending_interrupt                                               *)
PendingIn(ip, im, ie) == ie.c /\ ip \cap im # {}
Pending == PendingIn(cause_ip, sr_im, sr_ie)

(* cpu_check_for_pending_interrupt: it only ever clears the downcount.     *)
CheckForPending == stop' = (stop \/ Pending')

(* interrupt_controller_update_cpu_request with cpu_set_irq_request.       *)
UpdateCpuRequest ==
  /\ cause_ip' = IF status' \cap mask' # {} THEN cause_ip \cup {"hw"} ELSE cause_ip \ {"hw"}
  /\ UNCHANGED <<sr_im, sr_ie>>
  /\ IF cause_ip' # cause_ip /\ "hw" \in cause_ip'
     THEN CheckForPending
     ELSE UNCHANGED stop

-----------------------------------------------------------------------------
IrqInit ==
  /\ status = {} /\ mask = {} /\ line = {}
  /\ cause_ip = {} /\ sr_im = {} /\ sr_ie = Disabled
  /\ stop = TRUE
  /\ phase = "out"

(* Mutant: the level is latched, not the edge.                             *)
LatchLevel(i, state) ==
  /\ phase # "out"
  /\ line' = IF state THEN line \cup {i} ELSE line \ {i}
  /\ status' = status \cup (IF state THEN {i} ELSE {})
  /\ mask' = mask
  /\ UpdateCpuRequest
  /\ UNCHANGED phase

(* interrupt_controller_set_line_state, by a device, from a register write *)
(* or from a callback: nothing happens unless the level changes.           *)
SetLineState(i, state) ==
  /\ phase # "out"
  /\ (i \in line) # state
  /\ line' = IF state THEN line \cup {i} ELSE line \ {i}
  /\ status' = status \cup (IF state THEN {i} ELSE {})
  /\ mask' = mask
  /\ UpdateCpuRequest
  /\ UNCHANGED phase

(* An instruction starts only while the downcount has not run out.         *)
Instruction == phase = "cpu" /\ ~stop /\ UNCHANGED phase

(* interrupt_controller_write_register, I_STATUS: zero bits acknowledge.   *)
WriteStatus(value) ==
  /\ Instruction
  /\ status' = status \cap (value \cap Irq)
  /\ UNCHANGED <<mask, line>>
  /\ UpdateCpuRequest

(* interrupt_controller_write_register, I_MASK                             *)
WriteMask(value) ==
  /\ Instruction
  /\ mask' = value \cap Irq
  /\ UNCHANGED <<status, line>>
  /\ UpdateCpuRequest

(* MTC0 SR                                                                 *)
WriteSr(im, ie) ==
  /\ Instruction
  /\ sr_im' = im /\ sr_ie' = ie
  /\ UNCHANGED <<cause_ip, controller>>
  /\ CheckForPending

(* MTC0 CAUSE: only the software bits are writable.                        *)
WriteCause(ip) ==
  /\ Instruction
  /\ cause_ip' = (cause_ip \cap {"hw"}) \cup ip
  /\ UNCHANGED <<sr_im, sr_ie, controller>>
  /\ CheckForPending

(* Mutant: returning from an exception does not look for interrupts.       *)
RfeNoCheck ==
  /\ Instruction
  /\ sr_ie' = [c |-> sr_ie.p, p |-> sr_ie.o, o |-> sr_ie.o]
  /\ UNCHANGED <<cause_ip, sr_im, controller, stop>>

(* RFE pops the mode stack.                                                *)
Rfe ==
  /\ Instruction
  /\ sr_ie' = [c |-> sr_ie.p, p |-> sr_ie.o, o |-> sr_ie.o]
  /\ UNCHANGED <<cause_ip, sr_im, controller>>
  /\ CheckForPending

(* cpu_raise_exception_with_vector pushes the mode stack.                  *)
PushMode == sr_ie' = [c |-> FALSE, p |-> sr_ie.c, o |-> sr_ie.p]

RaiseException ==
  /\ Instruction
  /\ PushMode
  /\ UNCHANGED <<cause_ip, sr_im, controller, stop>>

(* The downcount has run out: timing_events_run_events.                    *)
EndInstructionLoop ==
  /\ phase = "cpu"
  /\ phase' = "events"
  /\ UNCHANGED <<controller, cop0, stop>>

(* Mutant: taking the interrupt leaves interrupts enabled.                 *)
DispatchKeepsMode ==
  /\ phase = "events"
  /\ UNCHANGED <<controller, cop0>>
  /\ stop' = Pending'
  /\ phase' = "cpu"

(* The end of timing_events_run_events and of                              *)
(* timing_events_commit_leftover_ticks: dispatch, then the downcount.      *)
DispatchInterrupt ==
  /\ phase = "events"
  /\ IF Pending THEN PushMode ELSE UNCHANGED sr_ie
  /\ UNCHANGED <<cause_ip, sr_im, controller>>
  /\ stop' = Pending'
  /\ phase' = "cpu"

(* A frame ends and the host wants control; it gives it back.              *)
ExitExecution ==
  /\ phase \in {"cpu", "events"}
  /\ phase' = "out"
  /\ UNCHANGED <<controller, cop0, stop>>

Execute ==
  /\ phase = "out"
  /\ phase' = "events"
  /\ UNCHANGED <<controller, cop0, stop>>

(* system_internal_reset: cpu_reset, then interrupt_controller_reset, which*)
(* has no need to tell the CPU since both start from zero.                 *)
ResetController ==
  /\ phase = "out"
  /\ status' = {} /\ mask' = {} /\ line' = {}
  /\ cause_ip' = {} /\ sr_im' = {} /\ sr_ie' = Disabled
  /\ stop' = FALSE
  /\ UNCHANGED phase

(* Mutant: CAUSE is that of the machine which has just been started.       *)
LoadKeepsCause(old) ==
  /\ phase = "out"
  /\ line' = IF old THEN status ELSE line
  /\ cause_ip' = {}
  /\ UNCHANGED <<status, mask, sr_im, sr_ie, phase>>
  /\ stop' = Pending'

(* cpu_do_state, interrupt_controller_do_state: a state is saved and loaded*)
(* into a machine that has just been started.  States before version 63    *)
(* have no line levels: the latch stands in.  The downcount is recomputed  *)
(* by timing_events_do_state.                                              *)
SaveAndLoad(old) ==
  /\ phase = "out"
  /\ line' = IF old THEN status ELSE line
  /\ UNCHANGED <<status, mask, cop0, phase>>
  /\ stop' = Pending'

-----------------------------------------------------------------------------
Device == \E i \in Irq, state \in BOOLEAN : SetLineState(i, state)

Program ==
  \/ \E value \in Value : WriteStatus(value) \/ WriteMask(value)
  \/ \E im \in SUBSET Sources, ie \in ModeStacks : WriteSr(im, ie)
  \/ \E ip \in SUBSET {"sw"} : WriteCause(ip)
  \/ Rfe
  \/ RaiseException

Load == \E old \in BOOLEAN : SaveAndLoad(old)
Host == ExitExecution \/ Execute \/ ResetController \/ Load

IrqNext == Device \/ Program \/ EndInstructionLoop \/ DispatchInterrupt \/ Host

IrqSpec == IrqInit /\ [][IrqNext]_irq_vars

(* The two loops are straight code, and the host resumes the machine.      *)
FairSpec == IrqSpec /\ WF_irq_vars(EndInstructionLoop) /\ WF_irq_vars(Execute)
                 /\ SF_irq_vars(DispatchInterrupt)

-----------------------------------------------------------------------------
(* Properties *)

(* Every register keeps its bits.                                          *)
IrqTypeOK ==
  /\ status \subseteq Irq /\ mask \subseteq Irq /\ line \subseteq Irq
  /\ cause_ip \subseteq Sources /\ sr_im \subseteq Sources
  /\ sr_ie \in ModeStacks
  /\ stop \in BOOLEAN
  /\ phase \in {"cpu", "events", "out"}

(* The request bit of CAUSE is the controller's output at every moment,    *)
(* although it is only written when a register or a level changes, and is  *)
(* restored by another component than the registers it follows from.       *)
RequestFollowsRegisters == "hw" \in cause_ip <=> status \cap mask # {}

(* No instruction runs while an interrupt is pending: whichever of the six *)
(* ways makes it pending (level, mask, SR, CAUSE, RFE, a loaded state) has *)
(* cleared the downcount.                                                  *)
InterruptsArePrecise == phase = "cpu" /\ Pending => stop

(* Each rising edge of a line is latched and nothing else is: a level that *)
(* is still high when it is acknowledged does not interrupt again.         *)
EdgesAreLatched ==
  [][~Load => /\ line' \ line \subseteq status'
              /\ status' \ status \subseteq line' \ line]_irq_vars

(* A latched interrupt is dropped only by an acknowledgement, a reset or a *)
(* load, in particular not by its line falling.                            *)
LatchHolds ==
  [][status \subseteq status' \/ phase = "out"
       \/ (phase = "cpu" /\ line' = line)]_irq_vars

(* Every edge is latched once and stays until the program, a reset or a    *)
(* load drops it (interrupt_controller_set_line_state).                    *)
EdgesAreKept ==
  /\ EdgesAreLatched
  /\ LatchHolds

(* A pending interrupt is taken, unless it is masked or acknowledged first.*)
InterruptIsTaken == Pending ~> ~Pending

IndInv ==
  /\ IrqTypeOK
  /\ RequestFollowsRegisters
  /\ InterruptsArePrecise
=============================================================================
