-------------------------------- MODULE Mdec --------------------------------
(***************************************************************************)
(* The motion decoder, src/core/mdec/mdec.c, with the DMA channels that    *)
(* feed and drain it.                                                      *)
(*                                                                         *)
(* mdec_update_status sets the requests of both channels, each of which    *)
(* may start a transfer at once, whose blocks call mdec_dma_write and      *)
(* mdec_dma_read, which run the decoder again.  Its frames on the stack of *)
(* Dma hold no data of their own:                                          *)
(*   "execute"  mdec_execute at the head of its loop;                      *)
(*   "status"   mdec_update_status at its start, "statusOut" after the     *)
(*              request of MDECin.                                         *)
(*                                                                         *)
(* Of the FIFOs only the sizes are kept: the input in halfwords, the       *)
(* output in words.  What a command asks for and how many halfwords a      *)
(* macroblock takes is a choice.                                           *)
(*                                                                         *)
(* mdec_fifo_in_push and mdec_fifo_out_pop check nothing.  A program that  *)
(* writes to a full FIFO, or reads an empty one while a macroblock waits   *)
(* to be copied out, leaves sizes no FIFO has, and what the decoder then   *)
(* makes of them is not followed until the next reset (misused).           *)
(***************************************************************************)
EXTENDS Dma

CONSTANTS
  InCap, OutCap,   \* the capacities of the FIFOs
  Burst,           \* the space in halfwords for which MDECin is requested
  InBlock,         \* halfwords of a block of MDECin
  OutBlock,        \* words of a block of MDECout
  Picture,         \* words of a decoded macroblock, per output depth
  Words,           \* parameter words of commands
  Tables,          \* halfwords of the tables
  Depths,          \* bound: whether streams are mono, a subset of BOOLEAN
  Commands         \* bound: subset of {"decode", "table", "invalid"}

ASSUME MdecAssumption ==
  /\ {0, 1} \subseteq Channel
  /\ {InCap, OutCap, Burst, InBlock, OutBlock} \subseteq Nat \ {0}
  /\ Words \subseteq Nat /\ Tables \subseteq Nat /\ Picture \subseteq 1..OutCap
  /\ Depths \subseteq BOOLEAN
  /\ Commands \subseteq {"decode", "table", "invalid"}

In == 0    \* MDECin
Out == 1   \* MDECout

VARIABLES
  mstate,    \* "idle", "decoding", "writing", "table" or "invalid"
  params,    \* remaining_halfwords
  inSize, outSize,
  enableIn, enableOut,
  mono,      \* the output depth of the stream is 4 or 8 bit
  decoded,   \* all blocks of the macroblock are decoded, current_block = 6
  copyOut,   \* the block copy out event is active
  nested,    \* ghost: a request has started a transfer within a transfer of
             \* the same channel, or within the sweep of an unhalt event
  misused    \* ghost: since the last reset the program has written to a full
             \* FIFO or has popped an empty one

decoder == <<mstate, params, inSize, outSize, enableIn, enableOut, mono, decoded, copyOut>>
mdec == <<decoder, nested, misused>>
allVars == <<vars, mdec>>

MinOf(x, y) == IF x < y THEN x ELSE y
Space == InCap - inSize

InitM ==
  /\ Init
  /\ mstate = "idle" /\ params = 0
  /\ inSize = 0 /\ outSize = 0
  /\ enableIn = FALSE /\ enableOut = FALSE
  /\ mono \in Depths /\ decoded = FALSE /\ copyOut = FALSE
  /\ nested = FALSE /\ misused = FALSE

Execute == Frame("execute", 0, 0)
Status == Frame("status", 0, 0)
StatusOut == Frame("statusOut", 0, 0)

dmaRest == <<dpcr, dicr, line, remaining, unhalt_event, owed>>
SameDma == UNCHANGED <<dmaRest, abandoned, chan, nested>>

-----------------------------------------------------------------------------
(* mdec_update_status                                                      *)

(* The request of c has started a transfer on top of the calls in s.       *)
NoteNesting(c, s) ==
  LET within(ops) == {i \in DOMAIN s : s[i].op \in ops} IN
    nested' = IF stack' = s THEN nested
              ELSE \/ nested
                   \/ \E i \in within({"first", "loop"}) : s[i].ch = c
                   \/ within({"unhalt"}) # {}

UpdateStatusIn ==
  /\ TopIs("status")
  /\ SetRequest(In, enableIn /\ Space >= Burst, Push(StatusOut, Tail(stack)))
  /\ NoteNesting(In, Push(StatusOut, Tail(stack)))
  /\ UNCHANGED <<dmaRest, decoder>>

UpdateStatusOut ==
  /\ TopIs("statusOut")
  /\ SetRequest(Out, enableOut /\ outSize > 0, Tail(stack))
  /\ NoteNesting(Out, Tail(stack))
  /\ UNCHANGED <<dmaRest, decoder>>

-----------------------------------------------------------------------------
(* The blocks of a transfer.                                               *)

(* space & ~2: how much is taken of a block that does not fit, an odd      *)
(* number of halfwords if the space is odd.  (The code cuts blocks that    *)
(* just fit, too, when their size is no multiple of 4.)                    *)
Masked(n) == IF (n \div 2) % 2 = 1 THEN n - 2 ELSE n

(* mdec_dma_write                                                          *)
DmaWrite ==
  /\ TopIs("device") /\ Head(stack).ch = In
  /\ inSize' = inSize + IF InBlock <= Space THEN InBlock ELSE Masked(Space)
  /\ stack' = Push(Execute, Tail(stack))
  /\ SameDma
  /\ UNCHANGED <<mstate, params, outSize, enableIn, enableOut, mono, decoded, copyOut>>

(* Mutant: the decoder is not run when the output is drained.              *)
DmaReadNoExecute ==
  /\ TopIs("device") /\ Head(stack).ch = Out
  /\ outSize' = outSize - MinOf(OutBlock, outSize)
  /\ stack' = IF outSize' = 0 THEN Push(Status, Tail(stack)) ELSE Tail(stack)
  /\ SameDma
  /\ UNCHANGED <<mstate, params, inSize, enableIn, enableOut, mono, decoded, copyOut>>

(* mdec_dma_read: once the output is drained the decoder goes on.          *)
DmaRead ==
  /\ TopIs("device") /\ Head(stack).ch = Out
  /\ outSize' = outSize - MinOf(OutBlock, outSize)
  /\ stack' = IF outSize' = 0 THEN Push(Execute, Tail(stack)) ELSE Tail(stack)
  /\ SameDma
  /\ UNCHANGED <<mstate, params, inSize, enableIn, enableOut, mono, decoded, copyOut>>

-----------------------------------------------------------------------------
(* mdec_execute: one action per way through its loop.                      *)

Finished == stack' = Push(Status, Tail(stack))
Continue == stack' = Push(Status, stack)

ExecuteWaits ==
  /\ TopIs("execute")
  /\ \/ mstate = "idle" /\ inSize < 2
     \/ mstate = "writing"
     \/ mstate = "table" /\ inSize < params
  /\ Finished
  /\ SameDma /\ UNCHANGED decoder

(* A header: the output of the last command is thrown away.                *)
ExecuteHeader(command, n) ==
  /\ TopIs("execute") /\ mstate = "idle" /\ inSize >= 2
  /\ mstate' = IF command = "decode" THEN "decoding" ELSE command
  /\ params' = n
  /\ inSize' = inSize - 2
  /\ outSize' = 0
  /\ Continue
  /\ SameDma /\ UNCHANGED <<enableIn, enableOut, mono, decoded, copyOut>>

ExecuteTable ==
  /\ TopIs("execute") /\ mstate = "table" /\ inSize >= params
  /\ inSize' = inSize - params
  /\ params' = 0
  /\ mstate' = "idle"
  /\ Continue
  /\ SameDma /\ UNCHANGED <<outSize, enableIn, enableOut, mono, decoded, copyOut>>

(* The parameters of an invalid command: the state stays when they are all *)
(* there, and is left when some are missing.                               *)
ExecuteInvalid ==
  /\ TopIs("execute") /\ mstate = "invalid"
  /\ LET n == MinOf(params, inSize) IN
       /\ inSize' = inSize - n
       /\ params' = params - n
  /\ IF params' = 0 THEN mstate' = mstate /\ Finished ELSE mstate' = "idle" /\ Continue
  /\ SameDma /\ UNCHANGED <<outSize, enableIn, enableOut, mono, decoded, copyOut>>

Available == MinOf(inSize, params)

(* The decoder may look at the input: a mono macroblock waits for the      *)
(* output to be drained first, a colored one when it is decoded.           *)
MayDecode == mstate = "decoding" /\ ~decoded /\ (mono => outSize = 0)

(* mdec_decode_rle for the blocks: n halfwords complete a macroblock.      *)
ExecuteDecoded(n) ==
  /\ TopIs("execute") /\ MayDecode
  /\ n \in 1..Available
  /\ inSize' = inSize - n
  /\ params' = params - n
  /\ decoded' = TRUE
  /\ UNCHANGED <<stack, mstate, outSize, enableIn, enableOut, mono, copyOut>>
  /\ SameDma

(* The input runs out within a macroblock, for now or for good.            *)
ExecuteStarved ==
  /\ TopIs("execute") /\ MayDecode
  /\ inSize' = inSize - Available
  /\ params' = params - Available
  /\ IF params' = 0
     THEN mstate' = "idle" /\ UNCHANGED stack
     ELSE mstate' = mstate /\ Finished
  /\ SameDma /\ UNCHANGED <<outSize, enableIn, enableOut, mono, decoded, copyOut>>

(* A macroblock waits for the output FIFO to be drained.                   *)
ExecuteBlocked ==
  /\ TopIs("execute") /\ mstate = "decoding" /\ ~MayDecode /\ outSize > 0
  /\ IF params = 0 /\ ~decoded
     THEN mstate' = "idle" /\ UNCHANGED stack
     ELSE mstate' = mstate /\ Finished
  /\ SameDma
  /\ UNCHANGED <<params, inSize, outSize, enableIn, enableOut, mono, decoded, copyOut>>

(* mdec_schedule_block_copy_out                                            *)
ExecuteSchedule ==
  /\ TopIs("execute") /\ mstate = "decoding" /\ decoded /\ outSize = 0
  /\ decoded' = FALSE
  /\ mstate' = "writing"
  /\ copyOut' = TRUE
  /\ Finished
  /\ SameDma /\ UNCHANGED <<params, inSize, outSize, enableIn, enableOut, mono>>

ExecuteStep ==
  \/ ExecuteWaits
  \/ "decode" \in Commands /\ \E w \in Words : ExecuteHeader("decode", 2 * w)
  \/ "table" \in Commands /\ \E n \in Tables : ExecuteHeader("table", n)
  \/ "invalid" \in Commands /\ \E w \in Words : ExecuteHeader("invalid", 2 * w)
  \/ ExecuteTable \/ ExecuteInvalid
  \/ (\E n \in 1..InCap : ExecuteDecoded(n))
  \/ ExecuteStarved \/ ExecuteBlocked \/ ExecuteSchedule

-----------------------------------------------------------------------------
(* The registers and the event.                                            *)

(* mdec_write_command_register: two halfwords are pushed, whether there is *)
(* room or not.                                                            *)
WriteData ==
  /\ Resting /\ ~misused
  /\ inSize' = inSize + 2
  /\ misused' = (Space < 2)
  /\ stack' = IF misused' THEN <<>> ELSE <<Execute>>
  /\ SameDma
  /\ UNCHANGED <<mstate, params, outSize, enableIn, enableOut, mono, decoded, copyOut>>

(* mdec_write_register, control.  mdec_soft_reset updates the status       *)
(* before the enables are written; all it does is drop both requests.      *)
WriteControl(reset, in, out) ==
  /\ Resting /\ (misused => reset)
  /\ misused' = FALSE
  /\ enableIn' = in /\ enableOut' = out
  /\ IF reset
     THEN /\ mstate' = "idle" /\ params' = 0 /\ inSize' = 0 /\ outSize' = 0
          /\ decoded' = FALSE /\ copyOut' = FALSE
          /\ chan' = [chan EXCEPT ![In].request = FALSE, ![Out].request = FALSE]
     ELSE UNCHANGED <<mstate, params, inSize, outSize, decoded, copyOut, chan>>
  /\ UNCHANGED <<mono, nested>>
  /\ stack' = <<Execute>>
  /\ UNCHANGED <<dmaRest, abandoned>>

(* mdec_read_data_register.  An empty FIFO is popped if a macroblock waits *)
(* to be copied out, and its size, -1 here, is 2^32 - 1 in the code; else  *)
(* nothing changes.                                                        *)
ReadData ==
  /\ Resting /\ ~misused
  /\ outSize > 0 \/ copyOut
  /\ outSize' = outSize - 1
  /\ misused' = (outSize = 0)
  /\ stack' = IF misused' THEN <<>> ELSE <<IF outSize' = 0 THEN Execute ELSE Status>>
  /\ SameDma
  /\ UNCHANGED <<mstate, params, inSize, enableIn, enableOut, mono, decoded, copyOut>>

(* Mutant: the event ends without running the decoder.                     *)
CopyOutNoExecute(n) ==
  /\ Resting /\ ~misused /\ copyOut
  /\ copyOut' = FALSE
  /\ outSize' = outSize + n
  /\ mstate' = IF params = 0 THEN "idle" ELSE "decoding"
  /\ stack' = <<>>
  /\ SameDma
  /\ UNCHANGED <<params, inSize, enableIn, enableOut, mono, decoded>>

(* mdec_copy_out_block                                                     *)
CopyOutBlock(n) ==
  /\ Resting /\ ~misused /\ copyOut
  /\ copyOut' = FALSE
  /\ outSize' = outSize + n
  /\ mstate' = IF params = 0 THEN "idle" ELSE "decoding"
  /\ stack' = <<Execute>>
  /\ SameDma
  /\ UNCHANGED <<params, inSize, enableIn, enableOut, mono, decoded>>

ResetM ==
  /\ Reset
  /\ mstate' = "idle" /\ params' = 0 /\ inSize' = 0 /\ outSize' = 0
  /\ enableIn' = FALSE /\ enableOut' = FALSE
  /\ decoded' = FALSE /\ copyOut' = FALSE /\ mono' = mono
  /\ nested' = FALSE /\ misused' = FALSE

-----------------------------------------------------------------------------
Decoder ==
  /\ UpdateStatusIn \/ UpdateStatusOut \/ DmaWrite \/ DmaRead \/ ExecuteStep
  /\ UNCHANGED misused
Calls == (Transfer /\ UNCHANGED mdec) \/ Decoder
CopyOut == (\E n \in Picture : CopyOutBlock(n)) /\ UNCHANGED misused
MdecProgram == WriteData \/ ReadData \/ \E reset, in, out \in BOOLEAN : WriteControl(reset, in, out)

(* The driver of a stream starts whole transfers.                          *)
StartChannels ==
  \/ \E c \in {In, Out} : ~chan[c].busy /\ WriteChannelControl(c, TRUE, "request", 0, FALSE)
  \/ dpcr # Channel /\ WriteDpcr(Channel)

UnhaltM == Unhalt /\ ~misused /\ UNCHANGED mdec
StartM == StartChannels /\ ~misused /\ UNCHANGED mdec

NextM ==
  \/ Calls
  \/ CopyOut
  \/ UnhaltM \/ StartM
  \/ MdecProgram
  \/ ResetM

SpecM == InitM /\ [][NextM]_allVars

(* Calls run to their end, the scheduler runs its events, and the driver   *)
(* starts its channels again when they are done.                           *)
FairSpecM == SpecM /\ WF_allVars(Calls) /\ SF_allVars(CopyOut)
                   /\ SF_allVars(UnhaltM) /\ SF_allVars(StartM)

-----------------------------------------------------------------------------
(* Properties *)

TypeOKM ==
  /\ mstate \in {"idle", "decoding", "writing", "table", "invalid"}
  /\ params \in Nat
  /\ {enableIn, enableOut, mono, decoded, copyOut, nested, misused} \subseteq BOOLEAN

(* Neither FIFO overflows or runs empty below zero, although the transfers *)
(* that fill and drain them nest.                                          *)
FifosInBounds == inSize \in 0..InCap /\ outSize \in 0..OutCap

(* A block of as many halfwords as MDECin asks for always fits, although   *)
(* requests are set deep inside transfers.                                 *)
BlocksFit == TopIs("device") /\ Head(stack).ch = In => Space >= Burst

(* Between calls the requests say what the FIFOs are.                      *)
RequestsFollowFifos ==
  Resting => /\ chan[In].request <=> (enableIn /\ Space >= Burst)
             /\ chan[Out].request <=> (enableOut /\ outSize > 0)

(* The assertions of mdec.c: the copy out event runs in the state that     *)
(* scheduled it, and is not scheduled twice.                               *)
CopyOutPending == Resting => (copyOut <=> mstate = "writing")

(* Between calls the decoder has done what it can with its input.          *)
DecoderIsIdle ==
  Resting =>
    /\ mstate = "idle" => inSize < 2
    /\ mstate = "decoding" => outSize > 0 \/ (inSize = 0 /\ params > 0 /\ ~decoded)

(* The decoder, its event and the DMA channels agree: FifosInBounds,       *)
(* BlocksFit, RequestsFollowFifos, CopyOutPending, DecoderIsIdle, and no   *)
(* channel is left behind although they start each other (NoLostTransfer). *)
(* Nothing guards the program's own accesses: a word written to a full     *)
(* FIFO and a read of an empty one while a macroblock waits end this.      *)
DecoderAndChannelsAgree ==
  /\ TypeOKM
  /\ ~misused =>
       /\ FifosInBounds
       /\ BlocksFit
       /\ RequestsFollowFifos
       /\ CopyOutPending
       /\ DecoderIsIdle
       /\ NoLostTransfer

(* The halts and the block counts stay exact although transfers nest, but  *)
(* for two ways of nesting: a transfer that starts again within itself     *)
(* moves blocks the outer one counts once more, and a halt within a sweep  *)
(* that is not ended by it is forgotten at its end.                        *)
ExactUnlessNested == ~nested => HaltMatchesEvent /\ BlocksAreExact

(* A stream flows: with both channels served, a macroblock that is being   *)
(* decoded is written out in the end, or the command is over, although the *)
(* output waits for MDECout, MDECin for the output, and both for halts,    *)
(* unless the program misuses a FIFO.                                      *)
StreamFlows ==
  (mstate = "decoding" /\ enableIn /\ enableOut)
    ~> (mstate # "decoding" \/ ~enableIn \/ ~enableOut \/ dicr.busError \/ misused)
=============================================================================
